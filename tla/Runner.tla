--------------------------------- MODULE Runner ---------------------------------
(***************************************************************************)
(* The runner.py that generators/runner.py writes into every package: what *)
(* execute_tool does with a tool, its parameters and the environment, up   *)
(* to the point where a request leaves the process.                        *)
(*                                                                         *)
(* A package has one auth and one tool, whose own auth, when it has one,   *)
(* replaces the package's. An auth has a type and a sequence of            *)
(* credentials [type, env, location, name] that are all required.          *)
(***************************************************************************)
EXTENDS CredentialResolution, SequencesExt

NoAuth    == [type |-> "none", supported |-> TRUE, credentials |-> <<>>]
Inherited == [type |-> "inherited", supported |-> TRUE, credentials |-> <<>>]

ToolAuth(package) == IF package.tool.auth = Inherited THEN package.auth ELSE package.tool.auth

\* api_key and bearer are the types that need a secret.
Keyed(auth) == {c \in Range(auth.credentials) : c.type \in {"api_key", "bearer"}}

\* Where a credential goes: _apply_auth_credential and
\* _credential_injection_target agree on it.
InjectionTarget(c) ==
  LET Named(default) == IF c.name # NoName THEN c.name ELSE default
  IN  IF c.type = "bearer" THEN <<"header", "Authorization">>
      ELSE IF c.location = "query"  THEN <<"query", Named("api_key")>>
      ELSE IF c.location = "cookie" THEN <<"cookie", Named("api_key")>>
      ELSE <<"header", Named("X-API-Key")>>

Slot(target, secret) == [mode |-> target[1], name |-> target[2], secret |-> secret]

Stops(error) == [kind |-> "error", error |-> error, slots |-> {}, credential |-> NoCredential]

\* _auth_request_patch. With an injection in the environment, empty or not,
\* the runner adds no credential of its own.
AuthRequestPatch(package, environ, injection) ==
  LET auth    == ToolAuth(package)
      missing == {c \in Keyed(auth) : c.env \notin environ}
      Adds(slots) == [slots |-> slots, error |-> "none"]
  IN  IF auth.type = "unknown" /\ ~auth.supported THEN Stops("unsupported_auth")
      ELSE IF auth.type \in {"none", "unknown"} \/ injection.given THEN Adds({})
      ELSE IF missing # {} THEN Stops("missing_auth")
      ELSE Adds({Slot(InjectionTarget(c), c.env) : c \in Keyed(auth)})

\* _proxy_credential_intents: definitions the proxy is to resolve, of which
\* _proxy_call sends the first. The owner, provider and id come from the
\* environment of the caller.
ProxyCredential(package, provider, project) ==
  LET all   == ToolAuth(package).credentials
      named == {i \in DOMAIN all : all[i] \in Keyed(ToolAuth(package)) /\ all[i].env # NoName}
      c     == all[Min(named)]
  IN  IF named = {} THEN NoCredential
      ELSE [NoCredential EXCEPT !.id = <<provider, c.env>>, !.ownerType = "project", !.owner = project,
                                !.provider = provider, !.authType = c.type,
                                !.mode = InjectionTarget(c)[1], !.name = InjectionTarget(c)[2],
                                !.source = "env", !.ref = c.env]

\* _base_url: an override that is no URL stops the call.
Bases == {"unset", "url", "malformed"}

\* execute_tool until the request is sent. environ is the set of variables
\* that hold secrets; proxyUrl, baseUrl and injection are the variables
\* API2AGENT_PROXY_URL, ..._BASE_URL and ..._CREDENTIAL_*.
NoInjection == [given |-> FALSE, patch |-> {}]
Injecting(patch) == [given |-> TRUE, patch |-> patch]

ExecuteTool(package, provider, project, params, environ, proxyUrl, baseUrl, injection) ==
  LET own == AuthRequestPatch(package, environ, injection)
  IN  IF ~package.tool.known THEN Stops("unknown_tool")
      ELSE IF package.tool.grpc THEN Stops("grpc_unimplemented")
      ELSE IF ~(package.tool.required \subseteq params) THEN Stops("missing_parameters")
      ELSE IF baseUrl = "malformed" THEN Stops("invalid_base_url_override")
      ELSE IF proxyUrl = "url"
        THEN [kind |-> "proxy", error |-> "none", slots |-> {},
              credential |-> ProxyCredential(package, provider, project)]
      ELSE IF own.error # "none" THEN Stops(own.error)
      ELSE [kind |-> "http", error |-> "none", credential |-> NoCredential,
            slots |-> Inject(own.slots, injection.patch)]
================================================================================
