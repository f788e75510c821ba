-------------------------- MODULE GatewayPermissions --------------------------
(***************************************************************************)
(* What the gateway contract harness decides about a request, before it    *)
(* stores or forwards anything: the bearer token, the permission of the    *)
(* route, and the two permission sources, a fixture in memory and the read *)
(* model in PostgreSQL.                                                    *)
(*                                                                         *)
(* A subject stands for its ids, a token for the principal it is of, a     *)
(* route for its method, path and the one permission it needs, a version   *)
(* for the policy's source, version and fingerprint, and a time for a      *)
(* microsecond. A decision id is a hash of five fields: here, the fields.  *)
(***************************************************************************)
EXTENDS Naturals, Sequences, FiniteSets

Blank == ""   \* a field nobody filled in

Harness == "harness"   \* HARNESS_PROJECT_ID

Routes == {"validate", "import", "partition", "export", "current", "publish"}

Principals == {"admin", "readonly", "no_membership", "suspended", "revoked"}

\* Stores name the subjects that are active; every principal has a row.
Member(actor, status) == [actor |-> actor, status |-> status]

AdminGrants == {"project_admin"} \X Routes

DefaultPermissionStore ==
  [subjects |-> Principals,
   members  |-> [s \in Principals \ {"no_membership"} |->
                  Member(s, IF s = "suspended" THEN "suspended" ELSE "active")],
   roles    |-> [s \in Principals \ {"no_membership"} |->
                  CASE s = "readonly" -> {"project_readonly"}
                    [] s = "revoked"  -> {"project_revoked"}
                    [] OTHER          -> {"project_admin"}],
   grants   |-> AdminGrants \cup {<<"project_readonly", "validate">>, <<"project_readonly", "current">>,
                                  <<"project_revoked", "validate">>},
   version  |-> "v1",
   stale    |-> FALSE]

WithStalePolicy(store) == [store EXCEPT !.stale = TRUE]

WithoutPermission(store, role, permission) ==
  [store EXCEPT !.grants = @ \ {<<role, permission>>}, !.version = "v1-revoked"]

(***************************************************************************)
(* The rows the harness seeds: the fixture's, an extra role without grants *)
(* for the first two subjects, a grant that is revoked from the start, and *)
(* the sentinels that rows of partial failures refer to.                   *)
(***************************************************************************)
HostedPermissionSeed ==
  [subjects |-> Principals,
   members  |-> DefaultPermissionStore.members,
   roles    |-> [s \in DOMAIN DefaultPermissionStore.roles |->
                  DefaultPermissionStore.roles[s] \cup (IF s \in {"admin", "readonly"} THEN {"dogfood"} ELSE {})],
   grants   |-> DefaultPermissionStore.grants \ {<<"project_revoked", "validate">>},
   active   |-> {"v1"}]

KnownSubjects == Principals \cup {"unknown-subject"}
KnownVersions == {"v1", "v2", "sentinel"}   \* rows of hosted_policy_versions, v2 by the contract's SQL

RolesFor(store, subject) == store.roles[subject]

PermissionsFor(store, roles) == {p \in Routes : \E r \in roles : <<r, p>> \in store.grants}

\* The fields of a decision, filled in from left to right as far as it gets.
PermissionDecisionId(d) == <<d.subject, d.project, d.permission, d.version, d.at>>

GatewayPermissionDecision(allowed, status, error, reason, permission, version, at) ==
  [allowed |-> allowed, status |-> status, error |-> error, reason |-> reason,
   subject |-> Blank, actor |-> Blank, project |-> Blank, token |-> Blank,
   roles |-> {}, permissions |-> {}, permission |-> permission, version |-> version, at |-> at,
   id |-> <<>>]

Identified(d) == [d EXCEPT !.id = PermissionDecisionId(d)]

OfPrincipal(d, principal) == [d EXCEPT !.subject = principal, !.token = principal]

OfMember(d, store, principal) ==
  [OfPrincipal(d, principal) EXCEPT !.actor = store.members[principal].actor, !.project = Harness]

WithRoles(d, store, principal) ==
  [OfMember(d, store, principal) EXCEPT
    !.roles = RolesFor(store, principal),
    !.permissions = PermissionsFor(store, RolesFor(store, principal))]

DeniedPermissionDecision(status, error, reason, permission, version, at) ==
  GatewayPermissionDecision(FALSE, status, error, reason, permission, version, at)

Unavailable(reason, permission, version, at) ==
  DeniedPermissionDecision(503, "PERMISSION_SOURCE_UNAVAILABLE", reason, permission, version, at)

Denied(reason, permission, version, at) ==
  DeniedPermissionDecision(403, "PUBLIC_AUTHZ_DENIED", reason, permission, version, at)

(***************************************************************************)
(* What both sources do once they hold one policy: subject, membership,    *)
(* its status, the permission.                                             *)
(***************************************************************************)
Judged(store, principal, permission, version, at) ==
  LET roles   == RolesFor(store, principal)
      allowed == permission \in PermissionsFor(store, roles)
  IN IF principal \notin store.subjects THEN
       OfPrincipal(Denied("subject", permission, version, at), principal)
     ELSE IF principal \notin DOMAIN store.members THEN
       OfPrincipal(Denied("membership", permission, version, at), principal)
     ELSE IF store.members[principal].status # "active" THEN
       OfMember(Denied("inactive", permission, version, at), store, principal)
     ELSE IF ~allowed THEN
       WithRoles(Denied("permission", permission, version, at), store, principal)
     ELSE
       WithRoles(GatewayPermissionDecision(TRUE, 200, Blank, Blank, permission, version, at),
                 store, principal)

StaticFixtureResolve(store, principal, permission, at) ==
  Identified(IF store.stale
             THEN OfPrincipal(Unavailable("stale", permission, store.version, at), principal)
             ELSE Judged(store, principal, permission, store.version, at))

\* The read model needs exactly one active policy version, and its project is
\* the one it was asked about, whatever it finds.
ReadModelResolve(policy, principal, permission, at) ==
  Identified([(IF Cardinality(policy.active) # 1
               THEN [Unavailable("policy", permission, Blank, at) EXCEPT !.token = principal]
               ELSE Judged(policy, principal, permission,
                           CHOOSE v \in policy.active : TRUE, at))
              EXCEPT !.project = Harness])

\* The lookup process ended badly or wrote no JSON.
ReadModelFailed(permission, at) == Identified(Unavailable("read_model", permission, "v1", at))

\* A request without a bearer token, or with one nobody issued.
BearerToken(token) == token \notin {"none", "malformed"}

LocalDecision(token, permission, version, at) ==
  Identified(IF ~BearerToken(token) THEN
               DeniedPermissionDecision(401, "PUBLIC_AUTH_REQUIRED", "token", permission, version, at)
             ELSE IF token \notin Principals THEN
               DeniedPermissionDecision(401, "PUBLIC_AUTH_INVALID", "token", permission, version, at)
             ELSE Unavailable("flag", permission, version, at))

DecidesLocally(token, available) == token \notin Principals \/ ~available

ShouldPersist(d) == d.error \notin {"PUBLIC_AUTH_REQUIRED", "PUBLIC_AUTH_INVALID"}

(***************************************************************************)
(* What the table stores: no column is empty, and sentinels stand in for   *)
(* what a decision does not know. The id was computed before.              *)
(***************************************************************************)
Or(value, default) == IF value = Blank THEN default ELSE value

\* Empty columns are stored as they are.
Bug_NoSentinels(d) == d

NormalizedDecision(d) ==
  [d EXCEPT !.subject = Or(@, "unknown-subject"), !.actor = Or(@, "unknown-actor"),
            !.project = Or(@, Harness), !.version = Or(@, "sentinel")]

UsesSentinel(d) == \/ d.subject = "unknown-subject" \/ d.actor = "unknown-actor" \/ d.version = "sentinel"

SentinelConstraints(d) ==
  UsesSentinel(d) => ~d.allowed /\ d.error \in {"PERMISSION_SOURCE_UNAVAILABLE", "PUBLIC_AUTHZ_DENIED"}

\* The evidence of a decision: the decision as it is stored and the request it
\* was for. It is what two writes of one id are compared by.
CanonicalEvidence(d, requestId, retention) ==
  [decision |-> [d EXCEPT !.id = <<>>], requestId |-> requestId, retain |-> d.at + retention]

\* The schema: foreign keys to subjects and policy versions.
RowFits(d) == d.subject \in KnownSubjects /\ d.version \in KnownVersions

(***************************************************************************)
(* What goes on to the control plane: of the caller's headers only request *)
(* id, key and content type; the identity is the decision's.               *)
(***************************************************************************)
ForwardedHeaders(request, d, override) ==
  [requestId |-> request.id, key |-> request.key, subject |-> d.subject, actor |-> d.actor,
   project |-> d.project, token |-> d.token, version |-> d.version, decision |-> d.id,
   permissions |-> IF override = {} THEN d.permissions ELSE override]
================================================================================
