-------------------------- MODULE CredentialResolution --------------------------
(***************************************************************************)
(* credentials/resolver.py: which credential a call gets, and where it is  *)
(* put. A secret is named by the variable or the definition it comes from; *)
(* what a call carries is a set of slots, each a place in the request and  *)
(* the secret in it. Reports and error messages keep only the reference.   *)
(***************************************************************************)
EXTENDS Integers, Sequences, FiniteSets

NoName       == "no_name"
NoSecret     == "no_secret"      \* os.getenv answers None
EmptySecret  == ""               \* the secret of a credential that needs none
NoCredential == [id |-> "none", owner |-> "none", ownerType |-> "none", provider |-> "none",
                 authType |-> "none", mode |-> "none", name |-> NoName, scope |-> {},
                 source |-> "none", ref |-> NoName, value |-> NoSecret, status |-> "active",
                 expired |-> FALSE]

AuthTypes      == {"api_key", "bearer", "basic", "oauth", "none"}
InjectionModes == {"header", "query", "body", "none"}

\* CredentialDefinition's validators. What is not valid raises.
ValidDefinition(c) ==
  /\ c.authType \in AuthTypes /\ c.mode \in InjectionModes
  /\ c.source \in {"env", "config", "inline", "none"}
  /\ \/ c.authType = "none" \/ c.mode = "none" \/ c.source = "none"
     \/ c.source = "env" /\ c.ref # NoName
     \/ c.source \in {"config", "inline"} /\ (c.value # NoSecret \/ c.ref # NoName)

ScopeAllows(c, request) ==
  \/ c.scope = {}
  \/ c.scope \cap {"*:*", "*", request.provider, request.capability, request.tool} # {}

SecretFor(c, environ) ==
  LET Getenv(name) == IF name \in environ THEN name ELSE NoSecret
  IN  IF c.source = "none" \/ c.authType = "none" THEN EmptySecret
      ELSE IF c.source = "env" \/ c.value = NoSecret THEN Getenv(c.ref) ELSE c.value

CredentialReference(c) ==
  CASE c.source = "env" -> <<"env", c.ref>>
    [] c.source \in {"config", "inline"} -> <<c.source, c.id>>
    [] OTHER -> <<"none">>

DefaultInjectionName(c) ==
  IF c.authType \in {"bearer", "basic"} THEN "Authorization" ELSE "X-API-Key"

\* CredentialInjectionPatch: headers, query and body as one set of slots.
InjectionPatch(c, secret) ==
  IF c.mode = "none" THEN {}
  ELSE {[mode |-> c.mode, secret |-> secret,
         name |-> IF c.name # NoName THEN c.name ELSE DefaultInjectionName(c)]}

Resolved(c, reference, patch) ==
  [resolved |-> TRUE, reference |-> reference, patch |-> patch, error |-> "none", metadata |-> c]
Unresolved(c, reference, error) ==
  [resolved |-> FALSE, reference |-> reference, patch |-> {}, error |-> error, metadata |-> c]

CredentialMatchesRequest(c, request) ==
  /\ request.authType = "none" \/ c.authType = request.authType
  /\ request.mode = "none" \/ c.mode = request.mode
  /\ request.name = NoName \/ c.name = request.name
  /\ ScopeAllows(c, request)

\* The project's own credential, then the shared local one, then the first.
FindConfigCredential(config, request) ==
  LET matches == {i \in DOMAIN config : /\ config[i].provider = request.provider
                                        /\ CredentialMatchesRequest(config[i], request)}
      own     == {i \in matches : config[i].owner = request.project}
      shared  == {i \in matches : config[i].ownerType = "project" /\ config[i].owner = "local"}
      First(S) == config[CHOOSE i \in S : \A j \in S : i <= j]
  IN  IF matches = {} THEN NoCredential
      ELSE First(IF own # {} THEN own ELSE IF shared # {} THEN shared ELSE matches)

\* The verdict on the credential that is tried: only one ever is.
Judge(c, request, environ) ==
  LET secret == SecretFor(c, environ)
      Fails(error) == Unresolved(c, CredentialReference(c), error)
  IN  IF c.status = "disabled" THEN Fails("credential_disabled")
      ELSE IF c.expired THEN Fails("credential_expired")
      ELSE IF ~ScopeAllows(c, request) THEN Fails("credential_scope_denied")
      ELSE IF secret = NoSecret THEN Fails("missing_credential_secret")
      ELSE Resolved(c, CredentialReference(c), InjectionPatch(c, secret))

\* LocalCredentialResolver.resolve: inline, then configured, then requested;
\* the first that is there and for this provider is tried, and no other.
Resolve(config, request, environ) ==
  LET candidates == <<request.inline, FindConfigCredential(config, request), request.credential>>
      there      == {i \in 1..3 : candidates[i] # NoCredential}
      usable     == {i \in there : candidates[i].provider = request.provider}
  IN  IF usable # {}
        THEN Judge(candidates[CHOOSE i \in usable : \A j \in usable : i <= j], request, environ)
      ELSE IF there = {} /\ "none" \in {request.authType, request.mode}
        THEN Resolved(NoCredential, <<"none">>, {})
      ELSE Unresolved(NoCredential, <<"missing">>, "missing_credential")

\* A request for credential c, or for none.
RequestFor(project, capability, provider, tool, c) ==
  [project |-> project, capability |-> capability, provider |-> provider, tool |-> tool,
   authType |-> c.authType, mode |-> c.mode, name |-> c.name, inline |-> NoCredential,
   credential |-> c]

\* Mutant: what is there stays there.
Bug_InjectIfAbsent(slots, patch) == slots

\* update(): a slot of the patch replaces what was in that place.
Inject(slots, patch) ==
  patch \cup {s \in slots : \A p \in patch : <<s.mode, s.name>> # <<p.mode, p.name>>}
================================================================================
