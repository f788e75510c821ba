--------------------------- MODULE GatewayContract ---------------------------
(***************************************************************************)
(* The contract the dogfood script holds the gateway harness to: one       *)
(* client, its requests in order, each with the switches and the SQL that  *)
(* come before it and with what the script asserts after it.               *)
(***************************************************************************)
EXTENDS GatewayHarness

(***************************************************************************)
(* What the script asserts of the functions alone, before it starts        *)
(* anything: who the fixture lets in, and what is forwarded of a request.  *)
(***************************************************************************)
Answers(token, permission, store) ==
  IF DecidesLocally(token, TRUE) THEN LocalDecision(token, permission, store.version, 0)
  ELSE StaticFixtureResolve(store, token, permission, 0)

ContractHelpers ==
  LET store == DefaultPermissionStore
      caller == [id |-> "contract-request", key |-> "contract-idempotency"]
      admin == Answers("admin", "import", store)
      sent == ForwardedHeaders(caller, admin, {})
      readonly == Answers("readonly", "validate", store)
      Refuses(token, permission, in, error) ==
        ~Answers(token, permission, in).allowed /\ Answers(token, permission, in).error = error
  IN /\ admin.allowed
     /\ sent.requestId = caller.id /\ sent.key = caller.key
     /\ sent.subject = "admin" /\ sent.actor = "admin" /\ sent.project = Harness
     /\ readonly.allowed
     /\ ForwardedHeaders(caller, readonly, {}).permissions = {"current", "validate"}
     /\ ForwardedHeaders(caller, readonly, {}).version = "v1"
     /\ ForwardedHeaders(caller, readonly, {}).decision # <<>>
     /\ Refuses("readonly", "import", store, "PUBLIC_AUTHZ_DENIED")
     /\ Refuses("no_membership", "validate", store, "PUBLIC_AUTHZ_DENIED")
     /\ Refuses("suspended", "validate", store, "PUBLIC_AUTHZ_DENIED")
     /\ Refuses("revoked", "validate", WithoutPermission(store, "project_revoked", "validate"),
                "PUBLIC_AUTHZ_DENIED")
     /\ Refuses("admin", "validate", WithStalePolicy(store), "PERMISSION_SOURCE_UNAVAILABLE")
     /\ Answers("admin", "validate", WithStalePolicy(store)).status = 503

ASSUME ContractHelpersAssumption == ContractHelpers

Live == [NewServer EXCEPT !.source = "read_model", !.persistence = TRUE]

Ask(route, token, id) ==
  [route |-> route, methodFits |-> TRUE, token |-> token, id |-> id, key |-> Blank, body |-> Blank]

Mutate(route, token, id, key, body) == [Ask(route, token, id) EXCEPT !.key = key, !.body = body]

\* A step that sends a request, and what the script expects: the answer, and
\* how many audit rows and decision rows there are after it.
Sends(request, status, error, auditRows, decisionRows) ==
  [do |-> "request", server |-> <<Live>>, policy |-> <<>>, request |-> request,
   project |-> Harness, permission |-> Blank, family |-> Blank,
   expect |-> [status |-> status, error |-> error, audits |-> auditRows, rows |-> decisionRows]]

WithServer(step, switches) == [step EXCEPT !.server = <<switches>>]
WithPolicy(step, tables)   == [step EXCEPT !.policy = <<tables>>]

RouteSteps ==
  << Sends(Ask("unsupported", "malformed", Blank), 404, "PUBLIC_ROUTE_NOT_FOUND", 0, 0),
     Sends([Ask("validate", "malformed", Blank) EXCEPT !.methodFits = FALSE],
           405, "PUBLIC_METHOD_NOT_ALLOWED", 0, 0) >>

AuthSteps ==
  << Sends(Ask("validate", "none", Blank), 401, "PUBLIC_AUTH_REQUIRED", 0, 0),
     Sends(Ask("validate", "unknown", Blank), 401, "PUBLIC_AUTH_INVALID", 0, 0) >>

AdminValidates == Ask("validate", "admin", Blank)

PersistenceSteps ==
  LET refused == Sends(AdminValidates, 503, "PERMISSION_DECISION_PERSISTENCE_UNAVAILABLE", 0, 0)
  IN << WithServer(refused, [Live EXCEPT !.failWrites = TRUE]),
        WithServer(refused, [Live EXCEPT !.forceTimeout = TRUE]) >>

DenialSteps ==
  << WithServer(Sends(AdminValidates, 503, "PERMISSION_SOURCE_UNAVAILABLE", 0, 1),
                [Live EXCEPT !.available = FALSE]),
     Sends(Ask("validate", "no_membership", Blank), 403, "PUBLIC_AUTHZ_DENIED", 0, 2),
     Sends(Ask("validate", "suspended", Blank), 403, "PUBLIC_AUTHZ_DENIED", 0, 3),
     WithServer(Sends(Ask("validate", "revoked", Blank), 403, "PUBLIC_AUTHZ_DENIED", 0, 4),
                [Live EXCEPT !.store = WithoutPermission(@, "project_revoked", "validate")]) >>

PolicySteps ==
  LET undecided(n) == Sends(AdminValidates, 503, "PERMISSION_SOURCE_UNAVAILABLE", 0, n)
  IN << WithServer(WithPolicy(undecided(5), [HostedPermissionSeed EXCEPT !.active = {}]),
                   [Live EXCEPT !.store = WithStalePolicy(@)]),
        WithPolicy(undecided(6), [HostedPermissionSeed EXCEPT !.active = {"v1", "v2"}]) >>

ValidateSteps ==
  << WithPolicy(Sends(Ask("validate", "admin", "validate-1"), 200, Blank, 1, 7), HostedPermissionSeed),
     WithServer(Sends(Ask("validate", "admin", "transient-retry"), 200, Blank, 2, 8),
                [Live EXCEPT !.transient = 1]),
     Sends(Ask("validate", "readonly", "readonly-validate"), 200, Blank, 3, 9) >>

ReadonlySteps ==
  << Sends(Mutate("import", "readonly", "readonly-import", "readonly", "replacement"),
           403, "PUBLIC_AUTHZ_DENIED", 3, 10),
     Sends(Mutate("partition", "readonly", "readonly-partition", "readonly-partition", "partition"),
           403, "PUBLIC_AUTHZ_DENIED", 3, 11),
     WithServer(Sends(AdminValidates, 403, "AUTHZ_DENIED", 3, 12),
                [Live EXCEPT !.forcePermissions = {"current"}]) >>

MutationSteps ==
  << Sends(Mutate("partition", "admin", "partition-1", "partition", "partition"), 201, Blank, 4, 13),
     Sends(Mutate("partition", "admin", "partition-replay", "partition", "partition"), 200, Blank, 4, 14),
     Sends(Mutate("partition", "admin", "partition-violation", "violation", "violation"),
           403, "REGISTRY_PARTITION_VIOLATION", 5, 15),
     Sends(Mutate("import", "admin", "import-1", "import", "replacement"), 201, Blank, 6, 16) >>

DuplicateSteps ==
  << [Sends(Ask("validate", "admin", "validate-1"), 0, Blank, 6, 16) EXCEPT !.do = "persist"],
     WithServer(Sends(Ask("import", "admin", "integrity-conflict"),
                      503, "PERMISSION_DECISION_INTEGRITY_CONFLICT", 6, 16),
                [Live EXCEPT !.forceId = "validate-1"]) >>

Reads(what, project, permission, family, count) ==
  [Sends(AdminValidates, count, Blank, 6, 16) EXCEPT
    !.do = what, !.project = project, !.permission = permission, !.family = family]

HistorySteps ==
  << Reads("history", Harness, Blank, Blank, 16),
     Reads("history", Harness, "import", "denied", 1),
     Reads("history", "other-project", Blank, Blank, 0),
     [Reads("audit", Harness, Blank, Blank, 0) EXCEPT !.expect.audits = 7] >>

CleanupSteps ==
  LET step(what, count) == [Reads(what, Harness, Blank, Blank, count) EXCEPT !.expect.audits = 7]
  IN << step("hold", 0), step("cleanup", 0), step("release", 0), step("cleanup", 1) >>

Contract ==
  RouteSteps \o AuthSteps \o PersistenceSteps \o DenialSteps \o PolicySteps \o ValidateSteps
    \o ReadonlySteps \o MutationSteps \o DuplicateSteps \o HistorySteps \o CleanupSteps

-----------------------------------------------------------------------------
Followed(c) == log[c] # <<>> /\ script[c] = Contract /\ faults = 0

Decisions(P(_)) == Cardinality({i \in DOMAIN rows : P(rows[i].evidence.decision)})

DecisionCounts ==
  /\ Decisions(LAMBDA d : d.status = 200) = 8
  /\ Decisions(LAMBDA d : d.status = 403) = 5
  /\ Decisions(LAMBDA d : d.status = 503) = 3
  /\ Decisions(LAMBDA d : d.permission = "validate") = 10
  /\ Decisions(LAMBDA d : d.permission = "import") = 2
  /\ Decisions(LAMBDA d : d.permission = "partition") = 4
  /\ Decisions(LAMBDA d : d.version = "sentinel") > 0

AuditIdentity(requestId) == IF requestId = "readonly-validate" THEN "readonly" ELSE "admin"

AuditIdentities ==
  \A i \in DOMAIN audits : audits[i].action # "history" =>
    /\ audits[i].subject = AuditIdentity(audits[i].requestId)
    /\ audits[i].token = AuditIdentity(audits[i].requestId)
    /\ audits[i].project = Harness
    /\ audits[i].outcome = IF audits[i].requestId = "partition-violation" THEN "failure" ELSE "success"

KeyRows == {k.scope.route : k \in keys} = {"import", "partition"} /\ Cardinality(keys) = 2

(***************************************************************************)
(* The script's assertions hold: every request is answered with the status *)
(* and the error it expects; requests that are not authenticated, are      *)
(* denied, cannot be stored or conflict with what is stored leave no audit *)
(* row; and the tables end as it says they end.                            *)
(***************************************************************************)
ContractHolds ==
  \A c \in Clients : Followed(c) =>
    /\ \A i \in DOMAIN log[c] : log[c][i] = Contract[i].expect
    /\ log[c][Len(log[c])].rows = 16 /\ ~Running(c) => DecisionCounts /\ AuditIdentities /\ KeyRows
================================================================================
