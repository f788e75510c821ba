---------------------------- MODULE GatewayHarness ----------------------------
(***************************************************************************)
(* The hosted admin gateway harness: a threading HTTP server that decides  *)
(* each admin request, stores the decision in PostgreSQL, and forwards     *)
(* what it allowed to the control plane under the decision's identity.     *)
(*                                                                         *)
(* Each client runs a script against it; a script's step may first set the *)
(* server's switches and the policy tables, as the contract does. A thread *)
(* takes one step between two points where another thread, the database or *)
(* the control plane can come in.                                          *)
(*                                                                         *)
(* calls is history: what the control plane was sent.                      *)
(***************************************************************************)
EXTENDS GatewayPermissions

CONSTANTS
  Clients,
  Scenarios,            \* [script : Clients -> sequence of steps, faults : bound on failures]
  MaxTransientRetries,  \* of one insert
  Retention,            \* HOSTED_PERMISSION_DECISION_RETENTION_DAYS, in microseconds of this clock
  SecretLike            \* request ids that read like a secret

ASSUME BoundsAssumption == {MaxTransientRetries, Retention} \subseteq Nat

VARIABLES
  server,    \* the switches of the server and of its persistence
  policy,    \* the read model's tables
  rows,      \* hosted_permission_decisions, in the order of their inserts
  stats,     \* the persistence's counters
  failures,  \* and its failures
  forwarded, \* permission_decisions
  thread,    \* what the thread of each client's request is doing
  inflight,  \* requests on their way to the control plane
  audits,    \* admin_audit_events
  keys,      \* admin_mutation_idempotency_records
  calls,     \* history
  clock,
  script, log, faults

db   == <<policy, rows>>
plane == <<inflight, audits, keys, calls>>
vars == <<server, db, stats, failures, forwarded, thread, plane, clock, script, log, faults>>

NewServer ==
  [available |-> TRUE, source |-> "fixture", store |-> DefaultPermissionStore, persistence |-> FALSE,
   failWrites |-> FALSE, forceTimeout |-> FALSE, transient |-> 0, forceId |-> Blank,
   forcePermissions |-> {}]

\* Scripts are finite. What they say of the server has the persistence in
\* place, and their first step says it: the contract sets it up before it asks
\* for anything.
ASSUME ScriptsAssumption ==
  \A s \in Scenarios, c \in Clients :
    LET steps == s.script[c] IN
    /\ Len(steps) \in Nat /\ DOMAIN steps = 1..Len(steps)
    /\ \A i \in DOMAIN steps :
         /\ i = 1 => steps[i].do = "request" /\ steps[i].server # <<>>
         /\ steps[i].server # <<>> => /\ DOMAIN steps[i].server[1] = DOMAIN NewServer
                                     /\ steps[i].server[1].persistence

NoDecision == GatewayPermissionDecision(FALSE, 0, Blank, Blank, Blank, Blank, 0)

Idle == [pc |-> "idle", available |-> TRUE, source |-> "fixture", store |-> DefaultPermissionStore,
         at |-> 0, decision |-> NoDecision, attempts |-> 0, stored |-> Blank]

Counters == {"duplicates", "conflicts", "attempts", "retries", "timeouts", "written"}

Init ==
  /\ server = NewServer /\ policy = HostedPermissionSeed
  /\ rows = <<>> /\ failures = <<>> /\ audits = <<>>
  /\ stats = [k \in Counters |-> 0]
  /\ forwarded = {} /\ inflight = {} /\ keys = {} /\ calls = {}
  /\ thread = [c \in Clients |-> Idle]
  /\ clock = 0
  /\ log = [c \in Clients |-> <<>>]
  /\ \E s \in Scenarios : script = s.script /\ faults = s.faults

Running(c) == Len(log[c]) < Len(script[c])
Step(c)    == script[c][Len(log[c]) + 1]
Request(c) == Step(c).request
At(c, pc)  == thread[c].pc = pc
Goto(c, pc) == thread' = [thread EXCEPT ![c].pc = pc]

\* The step is over: what the client learnt of it, and what a look at the
\* tables then shows.
Close(c, status, error) ==
  /\ log' = [log EXCEPT ![c] = Append(@, [status |-> status, error |-> error,
                                          audits |-> Len(audits'), rows |-> Len(rows')])]
  /\ thread' = [thread EXCEPT ![c] = Idle]
  /\ clock' = clock + 1

\* One more thing goes wrong.
Fault == faults > 0 /\ faults' = faults - 1

-----------------------------------------------------------------------------
\* A request arrives, after the step's switches and SQL.
Send(c) ==
  /\ Running(c) /\ At(c, "idle") /\ Step(c).do = "request"
  /\ server' = IF Step(c).server = <<>> THEN server ELSE Step(c).server[1]
  /\ policy' = IF Step(c).policy = <<>> THEN policy ELSE Step(c).policy[1]
  /\ Goto(c, "route")
  /\ UNCHANGED <<rows, stats, failures, forwarded, plane, clock, script, log, faults>>

Arriving == {c \in Clients : thread[c].pc # "idle"}

\* The arguments of resolve_gateway_admin_principal are read at once. Two
\* requests under way may fall into one microsecond.
Route(c) ==
  /\ At(c, "route")
  /\ UNCHANGED <<server, db, stats, failures, forwarded, audits, keys, calls, script, faults>>
  /\ IF Request(c).route = "unsupported" THEN Close(c, 404, "PUBLIC_ROUTE_NOT_FOUND") /\ UNCHANGED inflight
     ELSE IF ~Request(c).methodFits THEN Close(c, 405, "PUBLIC_METHOD_NOT_ALLOWED") /\ UNCHANGED inflight
     ELSE IF Request(c).route = "healthz" THEN
       /\ Goto(c, "forwarding")
       /\ inflight' = inflight \cup {[client |-> c, step |-> Len(log[c]), request |-> Request(c),
                                      headers |-> <<>>]}
       /\ UNCHANGED <<clock, log>>
     ELSE
       /\ clock' \in IF Arriving = {c} THEN {clock + 1} ELSE {clock, clock + 1}
       /\ thread' = [thread EXCEPT ![c].pc = "resolve", ![c].at = clock',
            ![c].available = server.available, ![c].source = server.source, ![c].store = server.store]
       /\ UNCHANGED <<log, inflight>>

Forced(d) ==
  IF server.forceId = Blank THEN d
  ELSE [d EXCEPT !.id = (CHOOSE r \in {rows[i] : i \in DOMAIN rows} :
                           r.evidence.requestId = server.forceId).id]

Resolved(c, d) ==
  thread' = [thread EXCEPT ![c].decision = Forced(d),
                           ![c].pc = IF server.persistence /\ ShouldPersist(d) THEN "persist" ELSE "decided"]

Resolve(c) ==
  LET t == thread[c]
      token == Request(c).token
      permission == Request(c).route
      local == DecidesLocally(token, t.available)
  IN /\ At(c, "resolve")
     /\ \/ local /\ Resolved(c, LocalDecision(token, permission, t.store.version, t.at)) /\ UNCHANGED faults
        \/ /\ ~local /\ t.source = "fixture" /\ UNCHANGED faults
           /\ Resolved(c, StaticFixtureResolve(t.store, token, permission, t.at))
        \/ /\ ~local /\ t.source = "read_model" /\ UNCHANGED faults
           /\ Resolved(c, ReadModelResolve(policy, token, permission, t.at))
        \/ ~local /\ t.source = "read_model" /\ Fault /\ Resolved(c, ReadModelFailed(permission, t.at))
     /\ UNCHANGED <<server, db, stats, failures, forwarded, plane, clock, script, log>>

-----------------------------------------------------------------------------
\* Persisting a decision: look for its id, and insert it when there is none.
Evidence(c) == CanonicalEvidence(NormalizedDecision(thread[c].decision), Request(c).id, Retention)

Existing(id) == {i \in DOMAIN rows : rows[i].id = id}

Stored(c, result) == thread' = [thread EXCEPT ![c].stored = result, ![c].pc = "decided"]

Unstorable(c) ==
  \/ server.failWrites
  \/ ~SentinelConstraints(NormalizedDecision(thread[c].decision))
  \/ Request(c).id \in SecretLike

Count(names) == stats' = [k \in Counters |-> stats[k] + (IF k \in names THEN 1 ELSE 0)]

\* Whoever comes second takes the row for its own.
Bug_CompareIdsOnly(c) ==
  IF Existing(thread[c].decision.id) = {}
  THEN thread' = [thread EXCEPT ![c].pc = "insert", ![c].attempts = 0] /\ UNCHANGED stats
  ELSE Stored(c, "ok") /\ Count({"duplicates"})

Compare(c) ==
  LET found == Existing(thread[c].decision.id)
  IN IF found = {} THEN
       thread' = [thread EXCEPT ![c].pc = "insert", ![c].attempts = 0] /\ UNCHANGED stats
     ELSE IF \E i \in found : rows[i].evidence = Evidence(c) THEN Stored(c, "ok") /\ Count({"duplicates"})
     ELSE Stored(c, "conflict") /\ Count({"conflicts"})

Persist(c) ==
  /\ At(c, "persist")
  /\ \/ Unstorable(c) /\ Stored(c, "unavailable") /\ UNCHANGED <<stats, faults>>
     \/ ~Unstorable(c) /\ Compare(c) /\ UNCHANGED faults
     \/ ~Unstorable(c) /\ Fault /\ Stored(c, "unavailable") /\ UNCHANGED stats  \* the query failed
  /\ UNCHANGED <<server, db, failures, forwarded, plane, clock, script, log>>

\* One row more, if neither its id is taken nor a foreign key violated.
InsertRow(c) ==
  LET d == NormalizedDecision(thread[c].decision)
  IN /\ Existing(d.id) = {} /\ RowFits(d)
     /\ rows' = Append(rows, [id |-> d.id, evidence |-> Evidence(c), hold |-> FALSE])

\* One turn of the retry loop. psql is waited for without a limit, so only
\* the deadline before an attempt can time out.
Insert(c) ==
  LET d == NormalizedDecision(thread[c].decision)
      tries == thread[c].attempts + 1
  IN /\ At(c, "insert")
     /\ \/ /\ server.forceTimeout \/ faults > 0
           /\ faults' = IF server.forceTimeout THEN faults ELSE faults - 1
           /\ Count({"attempts", "timeouts"}) /\ Stored(c, "unavailable") /\ UNCHANGED <<server, rows>>
        \/ /\ ~server.forceTimeout /\ server.transient > 0
           /\ server' = [server EXCEPT !.transient = @ - 1]
           /\ IF tries > MaxTransientRetries
              THEN Count({"attempts"}) /\ Stored(c, "unavailable")
              ELSE Count({"attempts", "retries"}) /\ thread' = [thread EXCEPT ![c].attempts = tries]
           /\ UNCHANGED <<rows, faults>>
        \/ /\ ~server.forceTimeout /\ server.transient = 0
           /\ InsertRow(c)
           /\ \/ UNCHANGED faults /\ Count({"attempts", "written"}) /\ Stored(c, "ok")
              \/ Fault /\ Count({"attempts"}) /\ Stored(c, "unavailable")  \* committed, and psql failed
           /\ UNCHANGED server
        \/ /\ ~server.forceTimeout /\ server.transient = 0
           /\ \/ (Existing(d.id) # {} \/ ~RowFits(d)) /\ UNCHANGED faults
              \/ Fault
           /\ Count({"attempts"}) /\ Stored(c, "unavailable") /\ UNCHANGED <<server, rows>>
     /\ UNCHANGED <<policy, failures, forwarded, plane, clock, script, log>>

-----------------------------------------------------------------------------
Failed(c) == thread[c].stored \in {"unavailable", "conflict"}

PersistenceError(c) ==
  IF thread[c].stored = "conflict" THEN "PERMISSION_DECISION_INTEGRITY_CONFLICT"
                                   ELSE "PERMISSION_DECISION_PERSISTENCE_UNAVAILABLE"

\* An allowed decision that could not be stored is refused; a denied one is
\* denied all the same; what is left goes to the control plane.
Decide(c) ==
  LET d == thread[c].decision
  IN /\ At(c, "decided")
     /\ UNCHANGED <<server, db, stats, audits, keys, calls, script, faults>>
     /\ failures' = IF Failed(c) /\ Step(c).do = "request" THEN Append(failures, [id |-> d.id, allowed |-> d.allowed,
                                                        error |-> PersistenceError(c)])
                                 ELSE failures
     /\ IF Step(c).do = "persist" THEN   \* nobody asked the gateway: persist returns or raises
          Close(c, 0, IF Failed(c) THEN PersistenceError(c) ELSE Blank) /\ UNCHANGED <<forwarded, inflight>>
        ELSE IF Failed(c) /\ d.allowed THEN
          Close(c, 503, PersistenceError(c)) /\ UNCHANGED <<forwarded, inflight>>
        ELSE IF ~d.allowed THEN Close(c, d.status, d.error) /\ UNCHANGED <<forwarded, inflight>>
        ELSE
          /\ forwarded' = forwarded \cup {[client |-> c, step |-> Len(log[c]), decision |-> d]}
          /\ inflight' = inflight \cup
               {[client |-> c, step |-> Len(log[c]), request |-> Request(c),
                 headers |-> <<ForwardedHeaders(Request(c), d, server.forcePermissions)>>]}
          /\ Goto(c, "forwarding") /\ UNCHANGED <<clock, log>>

\* The control plane, as far as its answers go. It checks the permissions it
\* is sent before anything else, replays a used key, and audits what it did.
Waiting(q) == At(q.client, "forwarding") /\ Len(log[q.client]) = q.step

Keyed(route) == route \in {"import", "partition"}

Served(q) ==
  LET h    == q.headers[1]
      key  == [key |-> h.key, project |-> h.project, actor |-> h.actor, route |-> q.request.route]
      used == {k \in keys : k.scope = key}
      answer(status, error) == [status |-> status, error |-> error]
      outcome(o) == [requestId |-> h.requestId, actor |-> h.actor, subject |-> h.subject, token |-> h.token,
                     project |-> h.project, action |-> q.request.route, outcome |-> o]
      none == [answer |-> answer(403, "AUTHZ_DENIED"), audit |-> <<>>, row |-> {}]
  IN IF q.request.route \notin h.permissions THEN none
     ELSE IF ~Keyed(q.request.route) THEN
       [none EXCEPT !.answer = answer(200, Blank), !.audit = <<outcome("success")>>]
     ELSE IF h.key = Blank THEN [none EXCEPT !.answer = answer(400, "INVALID_REQUEST")]
     ELSE IF used # {} THEN
       [none EXCEPT !.answer = IF \A k \in used : k.body = q.request.body THEN answer(200, Blank)
                               ELSE answer(409, "IDEMPOTENCY_CONFLICT")]
     ELSE IF q.request.body = "violation" THEN
       [none EXCEPT !.answer = answer(403, "REGISTRY_PARTITION_VIOLATION"), !.audit = <<outcome("failure")>>]
     ELSE [answer |-> answer(201, Blank), audit |-> <<outcome("success")>>,
           row |-> {[scope |-> key, body |-> q.request.body]}]

Serve(q) ==
  LET health == q.headers = <<>>
  IN /\ q \in inflight /\ inflight' = inflight \ {q}
     /\ audits' = IF health THEN audits ELSE audits \o Served(q).audit
     /\ keys' = IF health THEN keys ELSE keys \cup Served(q).row
     /\ calls' = IF health THEN calls ELSE calls \cup {[request |-> q.request, headers |-> q.headers[1]]}
     /\ UNCHANGED <<server, db, stats, failures, forwarded, script, faults>>
     /\ \/ /\ Waiting(q)
           /\ IF health THEN Close(q.client, 200, Blank)
              ELSE Close(q.client, Served(q).answer.status, Served(q).answer.error)
        \/ ~Waiting(q) /\ UNCHANGED <<thread, clock, log>>

\* The connection fails, or ten seconds pass: the request may be served later.
ForwardFails(c) ==
  /\ At(c, "forwarding") /\ Fault
  /\ \E q \in inflight : Waiting(q) /\ q.client = c /\ inflight' \in {inflight, inflight \ {q}}
  /\ UNCHANGED <<server, db, stats, failures, forwarded, audits, keys, calls, script>>
  /\ Close(c, 502, "GATEWAY_FORWARD_FAILED")

-----------------------------------------------------------------------------
(***************************************************************************)
(* Reading the decisions: the history of one project, newest first, and    *)
(* the rows a cleanup would remove.                                        *)
(***************************************************************************)
ResolvedAt(row) == row.evidence.decision.at

Sorted(table, Before(_, _)) ==
  [i \in DOMAIN table |->
    table[CHOOSE j \in DOMAIN table :
            i = 1 + Cardinality({k \in DOMAIN table : Before(table[k], table[j])
                                   \/ (~Before(table[j], table[k]) /\ k < j)})]]

First(table, limit) == SubSeq(table, 1, IF Len(table) < limit THEN Len(table) ELSE limit)

ResultFamily(d) ==
  CASE d.allowed -> "allowed"
    [] d.error = "PERMISSION_SOURCE_UNAVAILABLE" -> "source-unavailable"
    [] OTHER -> "denied"

InFamily(d, family) ==
  \/ family = Blank
  \/ family = "allowed" /\ d.allowed
  \/ family = "denied" /\ ~d.allowed /\ d.error = "PUBLIC_AUTHZ_DENIED"
  \/ family = "source-unavailable" /\ d.error = "PERMISSION_SOURCE_UNAVAILABLE"

\* What a reader is shown: references instead of names, and no token.
Redact(row) ==
  LET d == row.evidence.decision
  IN [id |-> row.id, project |-> d.project, permission |-> d.permission, family |-> ResultFamily(d),
      status |-> d.status, reason |-> d.reason, at |-> d.at, requestId |-> row.evidence.requestId,
      retain |-> row.evidence.retain, hold |-> row.hold]

History(project, permission, family, limit) ==
  LET match(row) == LET d == row.evidence.decision
                    IN /\ d.project = project /\ permission \in {Blank, d.permission}
                       /\ InFamily(d, family)
      newer(r, s) == ResolvedAt(r) > ResolvedAt(s)
      found == First(Sorted(SelectSeq(rows, match), newer), limit)
  IN [i \in DOMAIN found |-> Redact(found[i])]

ResultCountBucket(n) == IF n = 0 THEN "0" ELSE IF n <= 10 THEN "1-10" ELSE IF n <= 100 THEN "11-100" ELSE "100+"

CleanupCandidates(project, cutoff, limit) ==
  LET match(row) == /\ row.evidence.decision.project = project
                    /\ row.evidence.retain < cutoff /\ ~row.hold
      older(r, s) == ResolvedAt(r) < ResolvedAt(s)
  IN First(Sorted(SelectSeq(rows, match), older), limit)

Probe == LET h == History(Harness, Blank, Blank, 50) IN h[Len(h)].id

Hold(id, cutoff) ==
  rows' = [i \in DOMAIN rows |->
            IF rows[i].id = id THEN [rows[i] EXCEPT !.hold = TRUE, !.evidence.retain = cutoff] ELSE rows[i]]

Release(id) ==
  rows' = [i \in DOMAIN rows |-> IF rows[i].id = id THEN [rows[i] EXCEPT !.hold = FALSE] ELSE rows[i]]

\* Steps of a script that use the database or the persistence without the gateway.
Again(c) ==
  /\ Step(c).do = "persist"
  /\ thread' = [thread EXCEPT ![c].pc = "persist", ![c].decision =
       LET i == CHOOSE i \in DOMAIN rows : rows[i].evidence.requestId = Request(c).id
       IN [rows[i].evidence.decision EXCEPT !.id = rows[i].id]]
  /\ server' = IF Step(c).server = <<>> THEN server ELSE Step(c).server[1]
  /\ UNCHANGED <<rows, audits, clock, log>>

Query(c) ==
  LET s == Step(c) IN
  /\ s.do = "history"
  /\ UNCHANGED <<server, rows, audits>>
  /\ Close(c, Len(History(s.project, s.permission, s.family, 50)), Blank)

AuditQuery(c) ==
  /\ Step(c).do = "audit"
  /\ audits' = Append(audits, [requestId |-> Request(c).id, actor |-> "operator", subject |-> Blank,
                 token |-> Blank, project |-> Harness, action |-> "history",
                 outcome |-> ResultCountBucket(Len(History(Harness, Blank, Blank, 50)))])
  /\ UNCHANGED <<server, rows>> /\ Close(c, 0, Blank)

Clean(c) ==
  /\ Step(c).do \in {"hold", "release"}
  /\ IF Step(c).do = "hold" THEN Hold(Probe, 0) ELSE Release(Probe)
  /\ UNCHANGED <<server, audits>> /\ Close(c, 0, Blank)

Candidates(c) ==
  /\ Step(c).do = "cleanup"
  /\ UNCHANGED <<server, rows, audits>>
  /\ Close(c, Cardinality({r \in {CleanupCandidates(Harness, 1, 100)[i] :
                                    i \in DOMAIN CleanupCandidates(Harness, 1, 100)} : r.id = Probe}), Blank)

Operate(c) ==
  /\ Running(c) /\ At(c, "idle")
  /\ Again(c) \/ Query(c) \/ AuditQuery(c) \/ Clean(c) \/ Candidates(c)
  /\ UNCHANGED <<policy, stats, failures, forwarded, inflight, keys, calls, script, faults>>

ThreadStep(c) == Route(c) \/ Resolve(c) \/ Persist(c) \/ Insert(c) \/ Decide(c)

Next ==
  \/ \E c \in Clients : Send(c) \/ Operate(c) \/ ThreadStep(c) \/ ForwardFails(c)
  \/ \E q \in inflight : Serve(q)

Spec == Init /\ [][Next]_vars

-----------------------------------------------------------------------------
(***************************************************************************)
(* Whatever the gateway had the control plane do, a row of the decision    *)
(* table says that it was allowed, to whom, for which permission and for   *)
(* which request: although threads share the table, look for an id before  *)
(* they insert it, and may have their ids from one microsecond.            *)
(***************************************************************************)
OnRecord(request, id, subject) ==
  \E i \in DOMAIN rows :
    LET evidence == rows[i].evidence IN
    /\ rows[i].id = id
    /\ evidence.decision.allowed
    /\ evidence.requestId = request.id
    /\ evidence.decision.permission = request.route
    /\ evidence.decision.subject = subject
    /\ evidence.decision.token = request.token

EffectsAreOnRecord ==
  \A call \in calls : OnRecord(call.request, call.headers.decision, call.headers.subject)
================================================================================
