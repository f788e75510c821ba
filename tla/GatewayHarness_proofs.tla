-------------------------- MODULE GatewayHarness_proofs --------------------------
(***************************************************************************)
(* Proofs about GatewayHarness: for any clients, scripts, policies and     *)
(* faults, what the control plane was sent is on record.                   *)
(***************************************************************************)
EXTENDS GatewayHarness, TLAPS

-----------------------------------------------------------------------------
(* Sequences of rows *)

\* A sequence of whatever elements: tables are sequences of rows whose values
\* need no type for what is proved about them.
IsSequence(s) == Len(s) \in Nat /\ s = [i \in 1..Len(s) |-> s[i]]

\* A sequence after Append.
LEMMA Appended ==
  ASSUME NEW s, IsSequence(s), NEW e
  PROVE  /\ IsSequence(Append(s, e)) /\ Len(Append(s, e)) = Len(s) + 1
         /\ DOMAIN s = 1..Len(s) /\ DOMAIN Append(s, e) = 1..(Len(s) + 1)
         /\ Append(s, e)[Len(s) + 1] = e
         /\ \A i \in 1..Len(s) : Append(s, e)[i] = s[i]
<1> DEFINE S == {s[i] : i \in 1..Len(s)} \cup {e}
<1>1. s \in Seq(S) /\ e \in S
  <2>1. s \in [1..Len(s) -> S]
    BY DEF IsSequence
  <2> QED
    BY <2>1 DEF IsSequence
<1> HIDE DEF S
<1>2. Append(s, e) \in Seq(S) /\ Len(Append(s, e)) = Len(s) + 1
  BY <1>1
<1>3. /\ DOMAIN s = 1..Len(s) /\ DOMAIN Append(s, e) = 1..(Len(s) + 1)
      /\ Append(s, e)[Len(s) + 1] = e
      /\ \A i \in 1..Len(s) : Append(s, e)[i] = s[i]
  BY <1>1
<1>4. ASSUME NEW t \in Seq(S) PROVE IsSequence(t)
  <2>1. Len(t) \in Nat /\ t \in [1..Len(t) -> S]
    OBVIOUS
  <2> QED
    BY <2>1 DEF IsSequence
<1> QED
  BY <1>2, <1>3, <1>4

(***************************************************************************)
(* The inductive invariant.                                                *)
(***************************************************************************)

\* Rows have their columns, and no two of them have one id.
RowsInv ==
  /\ IsSequence(rows)
  /\ \A i \in DOMAIN rows : /\ DOMAIN rows[i] = {"id", "evidence", "hold"}
                            /\ DOMAIN rows[i].evidence = {"decision", "requestId", "retain"}
  /\ \A i, j \in DOMAIN rows : rows[i].id = rows[j].id => i = j

\* Threads work on the step their client's script is at.
Busy(c) == Running(c) /\ Step(c).do \in {"request", "persist"}

ScriptsInv ==
  /\ \E s \in Scenarios : script = s.script
  /\ DOMAIN log = Clients /\ DOMAIN thread = Clients
  /\ \A c \in Clients : /\ IsSequence(log[c]) /\ DOMAIN thread[c] = DOMAIN Idle
                        /\ ~At(c, "idle") => Busy(c)

\* From its first request on the gateway stores what it decides.
ServerInv ==
  /\ DOMAIN server = DOMAIN NewServer
  /\ \A c \in Clients : ~At(c, "idle") \/ log[c] # <<>> => server.persistence

\* An allowed decision names the caller and the permission the route needs.
Names(d, token, permission) ==
  /\ DOMAIN d = DOMAIN NoDecision
  /\ d.allowed => /\ d.permission = permission /\ d.error = Blank
                  /\ d.subject = token /\ d.token = token /\ token # Blank

DecisionInv(c) ==
  Running(c) /\ Step(c).do = "request" =>
    LET d == thread[c].decision
    IN /\ thread[c].pc \in {"persist", "insert", "decided"} => Names(d, Request(c).token, Request(c).route)
       /\ At(c, "decided") /\ ~Failed(c) /\ d.allowed => OnRecord(Request(c), d.id, d.subject)

DecisionsInv == \A c \in Clients : DecisionInv(c)

\* What is on its way is on record before it arrives.
InflightInv ==
  \A q \in inflight :
    /\ q.client \in Clients
    /\ q.headers # <<>> => OnRecord(q.request, q.headers[1].decision, q.headers[1].subject)

IInv ==
  RowsInv /\ ScriptsInv /\ ServerInv /\ DecisionsInv /\ InflightInv /\ EffectsAreOnRecord

-----------------------------------------------------------------------------
(* Decisions *)

\* Whom a policy lets in, it names, with the permission that was asked for.
LEMMA JudgedNames ==
  ASSUME NEW store, NEW token, token # Blank, NEW permission, NEW version, NEW at
  PROVE  Names(Judged(store, token, permission, version, at), token, permission)
<1> DEFINE no(reason) == Denied(reason, permission, version, at)
           yes == GatewayPermissionDecision(TRUE, 200, Blank, Blank, permission, version, at)
<1>1. \/ Judged(store, token, permission, version, at) = OfPrincipal(no("subject"), token)
      \/ Judged(store, token, permission, version, at) = OfPrincipal(no("membership"), token)
      \/ Judged(store, token, permission, version, at) = OfMember(no("inactive"), store, token)
      \/ Judged(store, token, permission, version, at) = WithRoles(no("permission"), store, token)
      \/ Judged(store, token, permission, version, at) = WithRoles(yes, store, token)
  BY DEF Judged
<1> USE DEF Denied, DeniedPermissionDecision, GatewayPermissionDecision, NoDecision
<1>2. ASSUME NEW reason
      PROVE  /\ DOMAIN OfPrincipal(no(reason), token) = DOMAIN NoDecision
             /\ ~OfPrincipal(no(reason), token).allowed
  BY DEF OfPrincipal
<1>3. ASSUME NEW reason
      PROVE  /\ DOMAIN OfMember(no(reason), store, token) = DOMAIN NoDecision
             /\ ~OfMember(no(reason), store, token).allowed
  BY DEF OfMember, OfPrincipal
<1>4. ASSUME NEW reason
      PROVE  /\ DOMAIN WithRoles(no(reason), store, token) = DOMAIN NoDecision
             /\ ~WithRoles(no(reason), store, token).allowed
  BY DEF WithRoles, OfMember, OfPrincipal
<1>5. /\ DOMAIN WithRoles(yes, store, token) = DOMAIN NoDecision
      /\ WithRoles(yes, store, token).permission = permission
      /\ WithRoles(yes, store, token).error = Blank
      /\ WithRoles(yes, store, token).subject = token /\ WithRoles(yes, store, token).token = token
  BY DEF WithRoles, OfMember, OfPrincipal
<1> QED
  BY <1>1, <1>2, <1>3, <1>4, <1>5 DEF Names

\* So does every source a decision may come from.
LEMMA ResolvedNames ==
  ASSUME NEW store, NEW tables, NEW token, NEW permission, NEW version, NEW at
  PROVE  /\ Names(LocalDecision(token, permission, version, at), token, permission)
         /\ Names(ReadModelFailed(permission, at), token, permission)
         /\ token \in Principals =>
              /\ Names(StaticFixtureResolve(store, token, permission, at), token, permission)
              /\ Names(ReadModelResolve(tables, token, permission, at), token, permission)
<1> DEFINE Fields == {"allowed", "status", "error", "reason", "subject", "actor", "project",
                      "token", "roles", "permissions", "permission", "version", "at", "id"}
<1>1. DOMAIN NoDecision = Fields
  BY DEF NoDecision, GatewayPermissionDecision
<1>2. ASSUME NEW d, Names(d, token, permission) PROVE Names(Identified(d), token, permission)
  BY <1>1, <1>2 DEF Names, Identified
<1>3. ASSUME NEW status, NEW error, NEW reason, NEW v
      PROVE  Names(DeniedPermissionDecision(status, error, reason, permission, v, at), token, permission)
  BY <1>1 DEF Names, DeniedPermissionDecision, GatewayPermissionDecision
<1>4. ASSUME NEW reason, NEW v
      PROVE  /\ Names(OfPrincipal(Unavailable(reason, permission, v, at), token), token, permission)
             /\ Names([Unavailable(reason, permission, v, at) EXCEPT !.token = token], token, permission)
  BY <1>1 DEF Names, Unavailable, DeniedPermissionDecision, GatewayPermissionDecision, OfPrincipal
<1>5. Names(LocalDecision(token, permission, version, at), token, permission)
  BY <1>2, <1>3 DEF LocalDecision, Unavailable
<1>6. Names(ReadModelFailed(permission, at), token, permission)
  BY <1>2, <1>3 DEF ReadModelFailed, Unavailable
<1>7. ASSUME token \in Principals, NEW s, NEW v
      PROVE  Names(Judged(s, token, permission, v, at), token, permission)
  BY <1>7, JudgedNames DEF Principals, Blank
<1>8. ASSUME token \in Principals
      PROVE  Names(StaticFixtureResolve(store, token, permission, at), token, permission)
  BY <1>2, <1>4, <1>7, <1>8 DEF StaticFixtureResolve
<1>9. ASSUME token \in Principals
      PROVE  Names(ReadModelResolve(tables, token, permission, at), token, permission)
  <2>1. ASSUME NEW d, Names(d, token, permission)
        PROVE  Names([d EXCEPT !.project = Harness], token, permission)
    BY <1>1, <2>1 DEF Names
  <2> QED
    BY <1>2, <1>4, <1>7, <1>9, <2>1 DEF ReadModelResolve
<1> QED
  BY <1>5, <1>6, <1>8, <1>9

-----------------------------------------------------------------------------
(* The table of decisions *)

\* What a row says of a decision never changes.
RowsKept ==
  \A i \in DOMAIN rows :
    /\ i \in DOMAIN rows' /\ rows'[i].id = rows[i].id
    /\ rows'[i].evidence.decision = rows[i].evidence.decision
    /\ rows'[i].evidence.requestId = rows[i].evidence.requestId

LEMMA RecordKept ==
  ASSUME RowsKept, NEW request, NEW id, NEW subject, OnRecord(request, id, subject)
  PROVE  OnRecord(request, id, subject)'
BY DEF RowsKept, OnRecord

\* A decision that lets its caller in is stored as it is.
LEMMA EvidenceOfAllowed ==
  ASSUME NEW c, NEW d, Names(d, Request(c).token, Request(c).route), d.allowed, thread[c].decision = d
  PROVE  /\ Evidence(c).requestId = Request(c).id
         /\ Evidence(c).decision.allowed
         /\ Evidence(c).decision.permission = Request(c).route
         /\ Evidence(c).decision.subject = d.subject
         /\ Evidence(c).decision.token = Request(c).token
<1>1. DOMAIN NoDecision = {"allowed", "status", "error", "reason", "subject", "actor", "project",
                           "token", "roles", "permissions", "permission", "version", "at", "id"}
  BY DEF NoDecision, GatewayPermissionDecision
<1> DEFINE n == NormalizedDecision(d)
<1>2. /\ DOMAIN n = DOMAIN NoDecision /\ n.allowed = d.allowed /\ n.permission = d.permission
      /\ n.subject = d.subject /\ n.token = d.token
  BY <1>1 DEF NormalizedDecision, Or, Names
<1> HIDE DEF n
<1> DEFINE e == [n EXCEPT !.id = <<>>]
<1>3. e.allowed = n.allowed /\ e.permission = n.permission /\ e.subject = n.subject /\ e.token = n.token
  BY <1>1, <1>2
<1> HIDE DEF e
<1>4. Evidence(c) = [decision |-> e, requestId |-> Request(c).id, retain |-> n.at + Retention]
  BY DEF Evidence, CanonicalEvidence, n, e
<1>5. Evidence(c).requestId = Request(c).id /\ Evidence(c).decision = e
  BY <1>4
<1> QED
  BY <1>2, <1>3, <1>5 DEF Names

LEMMA RowInserted ==
  ASSUME RowsInv, NEW c, InsertRow(c)
  PROVE  /\ RowsInv' /\ RowsKept
         /\ \E i \in DOMAIN rows' : /\ rows'[i].evidence = Evidence(c)
                                    /\ rows'[i].id = NormalizedDecision(thread[c].decision).id
<1> DEFINE row == [id |-> NormalizedDecision(thread[c].decision).id, evidence |-> Evidence(c), hold |-> FALSE]
<1>1. rows' = Append(rows, row) /\ Existing(row.id) = {}
  BY DEF InsertRow
<1>2. /\ DOMAIN row = {"id", "evidence", "hold"} /\ row.evidence = Evidence(c)
      /\ row.id = NormalizedDecision(thread[c].decision).id
  OBVIOUS
<1>3. DOMAIN row.evidence = {"decision", "requestId", "retain"}
  BY DEF Evidence, CanonicalEvidence
<1> HIDE DEF row
<1>4. /\ IsSequence(rows') /\ Len(rows') = Len(rows) + 1 /\ Len(rows) \in Nat
      /\ DOMAIN rows = 1..Len(rows) /\ DOMAIN rows' = 1..(Len(rows) + 1)
      /\ rows'[Len(rows) + 1] = row /\ \A i \in 1..Len(rows) : rows'[i] = rows[i]
  BY <1>1, Appended DEF RowsInv, IsSequence
<1>5. \A i \in DOMAIN rows : rows[i].id # row.id
  BY <1>1 DEF Existing
<1>6. \A i \in DOMAIN rows' : i \in DOMAIN rows \/ i = Len(rows) + 1
  BY <1>4
<1>7. /\ RowsKept
      /\ \A i \in DOMAIN rows' : /\ DOMAIN rows'[i] = {"id", "evidence", "hold"}
                                 /\ DOMAIN rows'[i].evidence = {"decision", "requestId", "retain"}
  BY <1>2, <1>3, <1>4, <1>6 DEF RowsKept, RowsInv
<1>8. ASSUME NEW i \in DOMAIN rows', NEW j \in DOMAIN rows', rows'[i].id = rows'[j].id PROVE i = j
  BY <1>4, <1>5, <1>6, <1>8 DEF RowsInv
<1>9. Len(rows) + 1 \in DOMAIN rows'
  BY <1>4
<1> QED
  BY <1>2, <1>4, <1>7, <1>8, <1>9 DEF RowsInv

\* A hold and its release leave the decisions as they are.
LEMMA RowsHeld ==
  ASSUME RowsInv, NEW id, NEW cutoff, Hold(id, cutoff) \/ Release(id)
  PROVE  RowsInv' /\ RowsKept
<1>1. /\ IsSequence(rows') /\ DOMAIN rows' = DOMAIN rows
      /\ \A i \in DOMAIN rows :
           \/ rows'[i] = rows[i] \/ rows'[i] = [rows[i] EXCEPT !.hold = FALSE]
           \/ rows'[i] = [rows[i] EXCEPT !.hold = TRUE, !.evidence.retain = cutoff]
  <2>1. DOMAIN rows = 1..Len(rows) /\ Len(rows) \in Nat
    BY DEF RowsInv, IsSequence
  <2>2. DOMAIN rows' = DOMAIN rows /\ rows' = [i \in 1..Len(rows) |-> rows'[i]]
    BY <2>1 DEF Hold, Release
  <2>3. Len(rows') = Len(rows)
    BY <2>1, <2>2
  <2> QED
    BY <2>1, <2>2, <2>3 DEF Hold, Release, IsSequence
<1>2. ASSUME NEW i \in DOMAIN rows
      PROVE  /\ rows'[i].id = rows[i].id /\ DOMAIN rows'[i] = {"id", "evidence", "hold"}
             /\ rows'[i].evidence.decision = rows[i].evidence.decision
             /\ rows'[i].evidence.requestId = rows[i].evidence.requestId
             /\ DOMAIN rows'[i].evidence = {"decision", "requestId", "retain"}
  <2> DEFINE r == rows[i]
             e == [r.evidence EXCEPT !.retain = cutoff]
  <2>1. DOMAIN r = {"id", "evidence", "hold"} /\ DOMAIN r.evidence = {"decision", "requestId", "retain"}
    BY DEF RowsInv
  <2>2. /\ e.decision = r.evidence.decision /\ e.requestId = r.evidence.requestId
        /\ DOMAIN e = {"decision", "requestId", "retain"}
    BY <2>1
  <2> HIDE DEF e, r
  <2>3. \/ rows'[i] = r \/ rows'[i] = [r EXCEPT !.hold = FALSE]
        \/ rows'[i] = [[r EXCEPT !.hold = TRUE] EXCEPT !.evidence = e]
    BY <1>1, <2>1 DEF r, e
  <2>4. /\ rows'[i].id = r.id /\ DOMAIN rows'[i] = {"id", "evidence", "hold"}
        /\ rows'[i].evidence \in {r.evidence, e}
    BY <2>1, <2>3
  <2> QED
    BY <2>1, <2>2, <2>4 DEF r
<1> QED
  BY <1>1, <1>2 DEF RowsInv, RowsKept

-----------------------------------------------------------------------------
(* Scripts and threads *)

\* Where a client is in its script: its first step is a request that sets the
\* server's switches, and whatever sets them leaves the persistence in place.
LEMMA Stepping ==
  ASSUME ScriptsInv, NEW c \in Clients, Running(c)
  PROVE  /\ log[c] = <<>> => Step(c).do = "request" /\ Step(c).server # <<>>
         /\ Step(c).server # <<>> => /\ DOMAIN Step(c).server[1] = DOMAIN NewServer
                                     /\ Step(c).server[1].persistence
<1>1. PICK s \in Scenarios : script = s.script
  BY DEF ScriptsInv
<1> DEFINE steps == s.script[c]
<1>2. /\ Len(steps) \in Nat /\ DOMAIN steps = 1..Len(steps)
      /\ \A i \in DOMAIN steps :
           /\ i = 1 => steps[i].do = "request" /\ steps[i].server # <<>>
           /\ steps[i].server # <<>> => /\ DOMAIN steps[i].server[1] = DOMAIN NewServer
                                       /\ steps[i].server[1].persistence
  BY ScriptsAssumption
<1>3. script[c] = steps
  BY <1>1
<1> HIDE DEF steps
<1>4. Len(log[c]) \in Nat /\ Len(log[c]) < Len(steps) /\ (log[c] = <<>> => Len(log[c]) = 0)
  BY <1>3 DEF ScriptsInv, IsSequence, Running
<1>5. Len(log[c]) + 1 \in DOMAIN steps /\ (log[c] = <<>> => Len(log[c]) + 1 = 1)
  BY <1>2, <1>4
<1> QED
  BY <1>2, <1>3, <1>5 DEF Step

\* Only a request that sets the switches finds them as the server came up.
LEMMA Persisting ==
  ASSUME ScriptsInv, ServerInv, NEW c \in Clients, Running(c)
  PROVE  /\ ~At(c, "idle") \/ Step(c).do # "request" \/ Step(c).server = <<>> => server.persistence
         /\ Step(c).server # <<>> => Step(c).server[1].persistence
BY Stepping DEF ServerInv

\* What a step of client c leaves as it was.
Others(c) ==
  /\ script' = script
  /\ \A d \in Clients \ {c} : thread'[d] = thread[d] /\ log'[d] = log[d]

LEMMA Closed ==
  ASSUME ScriptsInv, NEW c \in Clients, UNCHANGED script, NEW status, NEW error, Close(c, status, error)
  PROVE  ScriptsInv' /\ Others(c) /\ thread'[c] = Idle
<1> DEFINE entry == [status |-> status, error |-> error, audits |-> Len(audits'), rows |-> Len(rows')]
<1>1. /\ log' = [log EXCEPT ![c] = Append(log[c], entry)] /\ thread' = [thread EXCEPT ![c] = Idle]
  BY DEF Close
<1> HIDE DEF entry
<1>2. /\ DOMAIN log = Clients /\ DOMAIN thread = Clients /\ IsSequence(log[c])
  BY DEF ScriptsInv
<1>3. Others(c) /\ thread'[c] = Idle /\ IsSequence(log'[c]) /\ DOMAIN log' = Clients /\ DOMAIN thread' = Clients
  BY <1>1, <1>2, Appended DEF Others
<1>4. ASSUME NEW d \in Clients, d # c, ~At(d, "idle")'
      PROVE  Busy(d)'
  BY <1>3, <1>4 DEF ScriptsInv, Others, At, Busy, Running, Step
<1>5. At(c, "idle")'
  BY <1>3 DEF At, Idle
<1>6. ASSUME NEW d \in Clients PROVE IsSequence(log'[d]) /\ DOMAIN thread'[d] = DOMAIN Idle
  BY <1>3 DEF ScriptsInv, Others
<1> QED
  BY <1>3, <1>4, <1>5, <1>6 DEF ScriptsInv, Others

LEMMA Moved ==
  ASSUME ScriptsInv, NEW c \in Clients, Busy(c), UNCHANGED <<script, log>>,
         NEW t, DOMAIN t = DOMAIN Idle, thread' = [thread EXCEPT ![c] = t]
  PROVE  ScriptsInv' /\ Others(c) /\ thread'[c] = t
<1>1. Others(c) /\ thread'[c] = t /\ DOMAIN thread' = Clients
  BY DEF ScriptsInv, Others
<1>2. ASSUME NEW d \in Clients PROVE /\ DOMAIN thread'[d] = DOMAIN Idle
                                     /\ ~At(d, "idle")' => Busy(d)'
  BY <1>1 DEF ScriptsInv, Others, At, Busy, Running, Step
<1> QED
  BY <1>1, <1>2 DEF ScriptsInv

-----------------------------------------------------------------------------
(* One step *)

\* A step of client c that keeps the rows keeps the invariant, if c's own
\* decision and what it sends are right.
LEMMA StepKeeps ==
  ASSUME IInv, NEW c \in Clients, ScriptsInv', Others(c), RowsInv', RowsKept,
         DOMAIN server' = DOMAIN NewServer, server'.persistence, DecisionInv(c)',
         \A q \in inflight' :
           \/ q \in inflight
           \/ /\ q.client = c
              /\ q.headers = <<>> \/ OnRecord(q.request, q.headers[1].decision, q.headers[1].subject)',
         calls' = calls
  PROVE  IInv'
<1>1. ServerInv'
  BY DEF ServerInv
<1>2. ASSUME NEW d \in Clients \ {c} PROVE DecisionInv(d)'
  <2>1. /\ thread'[d] = thread[d] /\ log'[d] = log[d] /\ script' = script
        /\ DecisionInv(d)
    BY DEF Others, IInv, DecisionsInv
  <2>2. /\ Running(d)' = Running(d) /\ Step(d)' = Step(d) /\ Request(d)' = Request(d)
        /\ At(d, "decided")' = At(d, "decided") /\ Failed(d)' = Failed(d)
    BY <2>1 DEF Running, Step, Request, At, Failed
  <2> QED
    BY <2>1, <2>2, RecordKept DEF DecisionInv
<1>3. InflightInv'
  BY RecordKept DEF IInv, InflightInv
<1>4. EffectsAreOnRecord'
  BY RecordKept DEF IInv, EffectsAreOnRecord
<1> QED
  BY <1>1, <1>2, <1>3, <1>4 DEF IInv, DecisionsInv

\* A thread that is not about to answer owes no record.
LEMMA Undecided ==
  ASSUME NEW c, thread'[c].pc \notin {"persist", "insert", "decided"}
  PROVE  DecisionInv(c)'
BY DEF DecisionInv, At

\* The rows and the requests on their way are as before.
LEMMA RowsUntouched ==
  ASSUME RowsInv, UNCHANGED rows
  PROVE  RowsInv' /\ RowsKept
BY DEF RowsInv, RowsKept

\* A step of client c that changes no row, sends nothing and ends elsewhere.
LEMMA StepAside ==
  ASSUME IInv, NEW c \in Clients, ScriptsInv', Others(c), UNCHANGED <<rows, calls>>,
         DOMAIN server' = DOMAIN NewServer, server'.persistence, DecisionInv(c)',
         \A q \in inflight' : q \in inflight \/ (q.client = c /\ q.headers = <<>>)
  PROVE  IInv'
<1>1. RowsInv' /\ RowsKept
  BY RowsUntouched DEF IInv
<1> QED
  BY <1>1, StepKeeps

LEMMA SendInv ==
  ASSUME IInv, NEW c \in Clients, Send(c)
  PROVE  IInv'
<1>1. ScriptsInv /\ ServerInv /\ Busy(c) /\ UNCHANGED <<rows, calls, inflight, script, log>>
  BY DEF IInv, Send, plane, Busy
<1> DEFINE t == [thread[c] EXCEPT !.pc = "route"]
<1>2. DOMAIN t = DOMAIN Idle /\ t.pc = "route" /\ thread' = [thread EXCEPT ![c] = t]
  BY <1>1 DEF Send, Goto, ScriptsInv, Idle
<1> HIDE DEF t
<1>3. ScriptsInv' /\ Others(c) /\ thread'[c] = t
  BY <1>1, <1>2, Moved
<1>4. DOMAIN server' = DOMAIN NewServer /\ server'.persistence
  BY <1>1, Stepping, Persisting DEF Busy, Send, ServerInv
<1>5. DecisionInv(c)'
  BY <1>2, <1>3, Undecided
<1> QED
  BY <1>1, <1>3, <1>4, <1>5, StepAside

LEMMA RouteInv ==
  ASSUME IInv, NEW c \in Clients, Route(c)
  PROVE  IInv'
<1>1. /\ ScriptsInv /\ ServerInv /\ Busy(c) /\ server.persistence
      /\ UNCHANGED <<server, rows, calls, script>>
  BY DEF IInv, Route, db, ScriptsInv, ServerInv, At
<1>2. \A q \in inflight' : q \in inflight \/ (q.client = c /\ q.headers = <<>>)
  BY DEF Route
<1>3. ScriptsInv' /\ Others(c) /\ thread'[c].pc \notin {"persist", "insert", "decided"}
  <2>1. CASE \E status, error : Close(c, status, error)
    BY <1>1, <2>1, Closed DEF Idle
  <2>2. CASE \E t : /\ DOMAIN t = DOMAIN Idle /\ t.pc \in {"forwarding", "resolve"}
                    /\ thread' = [thread EXCEPT ![c] = t] /\ log' = log
    BY <1>1, <2>2, Moved
  <2>3. ASSUME Goto(c, "forwarding"), log' = log
        PROVE  \E t : /\ DOMAIN t = DOMAIN Idle /\ t.pc \in {"forwarding", "resolve"}
                      /\ thread' = [thread EXCEPT ![c] = t] /\ log' = log
    <3>1. DOMAIN thread[c] = DOMAIN Idle
      BY <1>1 DEF ScriptsInv
    <3> WITNESS [thread[c] EXCEPT !.pc = "forwarding"]
    <3> QED
      BY <2>3, <3>1 DEF Goto, Idle
  <2>4. ASSUME thread' = [thread EXCEPT ![c].pc = "resolve", ![c].at = clock',
                 ![c].available = server.available, ![c].source = server.source, ![c].store = server.store],
               log' = log
        PROVE  \E t : /\ DOMAIN t = DOMAIN Idle /\ t.pc \in {"forwarding", "resolve"}
                      /\ thread' = [thread EXCEPT ![c] = t] /\ log' = log
    <3>1. DOMAIN thread[c] = DOMAIN Idle
      BY <1>1 DEF ScriptsInv
    <3> WITNESS [thread[c] EXCEPT !.pc = "resolve", !.at = clock', !.available = server.available,
                                  !.source = server.source, !.store = server.store]
    <3> QED
      BY <2>4, <3>1 DEF Idle
  <2> QED
    BY <2>1, <2>2, <2>3, <2>4 DEF Route
<1> QED
  BY <1>1, <1>2, <1>3, Undecided, StepAside DEF IInv, ServerInv

\* Whoever is let in, is so under the decision that is stored.
LEMMA ResolveInv ==
  ASSUME IInv, NEW c \in Clients, Resolve(c)
  PROVE  IInv'
<1>1. /\ ScriptsInv /\ ServerInv /\ Busy(c) /\ server.persistence
      /\ UNCHANGED <<server, rows, calls, inflight, script, log>>
  BY DEF IInv, Resolve, plane, db, ScriptsInv, ServerInv, At
<1>2. PICK d : Names(d, Request(c).token, Request(c).route) /\ Resolved(c, d)
  <2>1. DecidesLocally(Request(c).token, thread[c].available) \/ Request(c).token \in Principals
    BY DEF DecidesLocally
  <2> QED
    BY <2>1, ResolvedNames DEF Resolve
<1> DEFINE pc == IF server.persistence /\ ShouldPersist(d) THEN "persist" ELSE "decided"
           t == [thread[c] EXCEPT !.decision = Forced(d), !.pc = pc]
<1>3. /\ DOMAIN t = DOMAIN Idle /\ t.pc = pc /\ t.decision = Forced(d)
      /\ thread' = [thread EXCEPT ![c] = t]
  BY <1>1, <1>2 DEF Resolved, ScriptsInv, Idle
<1>4. pc = "persist" \/ (pc = "decided" /\ ~d.allowed)
  BY <1>1, <1>2 DEF Names, ShouldPersist, Blank
<1>5. Names(Forced(d), Request(c).token, Request(c).route) /\ (Forced(d).allowed => d.allowed)
  <2>1. DOMAIN NoDecision = {"allowed", "status", "error", "reason", "subject", "actor", "project",
                             "token", "roles", "permissions", "permission", "version", "at", "id"}
    BY DEF NoDecision, GatewayPermissionDecision
  <2>2. ASSUME NEW id PROVE /\ Names([d EXCEPT !.id = id], Request(c).token, Request(c).route)
                            /\ [d EXCEPT !.id = id].allowed = d.allowed
    BY <1>2, <2>1 DEF Names
  <2> QED
    BY <1>2, <2>2 DEF Forced
<1> HIDE DEF t, pc
<1>6. ScriptsInv' /\ Others(c) /\ thread'[c] = t
  BY <1>1, <1>3, Moved
<1>7. /\ Running(c)' = Running(c) /\ Step(c)' = Step(c) /\ Request(c)' = Request(c)
  BY <1>1 DEF Running, Step, Request
<1>8. DecisionInv(c)'
  BY <1>3, <1>4, <1>5, <1>6, <1>7 DEF DecisionInv, At
<1> QED
  BY <1>1, <1>6, <1>8, StepAside DEF ServerInv

\* A thread that has tried to store its decision: it has failed, or the decision
\* is there.
LEMMA StoredInv ==
  ASSUME IInv, NEW c \in Clients, Busy(c), UNCHANGED <<script, log>>, NEW result, Stored(c, result),
         thread[c].pc \in {"persist", "insert"}, RowsInv', RowsKept,
         \/ result \in {"unavailable", "conflict"}
         \/ \E i \in DOMAIN rows' : /\ rows'[i].id = thread[c].decision.id
                                    /\ rows'[i].evidence = Evidence(c)
  PROVE  ScriptsInv' /\ Others(c) /\ DecisionInv(c)'
<1> DEFINE d == thread[c].decision
           t == [thread[c] EXCEPT !.stored = result, !.pc = "decided"]
<1>1. ScriptsInv /\ DecisionInv(c)
  BY DEF IInv, DecisionsInv
<1>2. /\ DOMAIN t = DOMAIN Idle /\ t.pc = "decided" /\ t.decision = d /\ t.stored = result
      /\ thread' = [thread EXCEPT ![c] = t]
  BY <1>1 DEF Stored, ScriptsInv, Idle
<1> HIDE DEF t
<1>3. ScriptsInv' /\ Others(c) /\ thread'[c] = t
  BY <1>1, <1>2, Moved
<1>4. Running(c)' = Running(c) /\ Step(c)' = Step(c) /\ Request(c)' = Request(c)
  BY DEF Running, Step, Request
<1> HIDE DEF d
<1>5. ASSUME Step(c).do = "request"
      PROVE  /\ Names(d, Request(c).token, Request(c).route)
             /\ result \notin {"unavailable", "conflict"} /\ d.allowed =>
                  OnRecord(Request(c), d.id, d.subject)'
  <2>1. Names(d, Request(c).token, Request(c).route)
    BY <1>1, <1>5 DEF DecisionInv, Busy, d
  <2>2. ASSUME result \notin {"unavailable", "conflict"}, d.allowed
        PROVE  OnRecord(Request(c), d.id, d.subject)'
    <3>1. PICK i \in DOMAIN rows' : rows'[i].id = d.id /\ rows'[i].evidence = Evidence(c)
      BY <2>2 DEF d
    <3>2. /\ Evidence(c).requestId = Request(c).id /\ Evidence(c).decision.allowed
          /\ Evidence(c).decision.permission = Request(c).route
          /\ Evidence(c).decision.subject = d.subject
          /\ Evidence(c).decision.token = Request(c).token
      BY <2>1, <2>2, EvidenceOfAllowed DEF d
    <3>3. d' = d
      BY <1>2, <1>3 DEF d
    <3> QED
      BY <1>4, <3>1, <3>2, <3>3 DEF OnRecord
  <2> QED
    BY <2>1, <2>2
<1>6. d' = d /\ thread'[c].stored = result
  BY <1>2, <1>3 DEF d
<1>7. DecisionInv(c)'
  <2> SUFFICES ASSUME Step(c).do = "request"
               PROVE  /\ Names(d, Request(c).token, Request(c).route)
                      /\ ~Failed(c)' /\ d.allowed => OnRecord(Request(c), d.id, d.subject)'
    BY <1>2, <1>3, <1>4, <1>6 DEF DecisionInv, d
  <2> QED
    BY <1>5, <1>6 DEF Failed
<1> QED
  BY <1>3, <1>7

\* The decision a thread stores stays with it.
LEMMA StillToStore ==
  ASSUME IInv, NEW c \in Clients, Busy(c), UNCHANGED <<script, log>>,
         thread[c].pc \in {"persist", "insert"},
         NEW tries, thread' = [thread EXCEPT ![c].pc = "insert", ![c].attempts = tries]
  PROVE  ScriptsInv' /\ Others(c) /\ DecisionInv(c)'
<1> DEFINE t == [thread[c] EXCEPT !.pc = "insert", !.attempts = tries]
<1>1. ScriptsInv /\ DecisionInv(c)
  BY DEF IInv, DecisionsInv
<1>2. /\ DOMAIN t = DOMAIN Idle /\ t.pc = "insert" /\ t.decision = thread[c].decision
      /\ thread' = [thread EXCEPT ![c] = t]
  BY <1>1 DEF ScriptsInv, Idle
<1> HIDE DEF t
<1>3. ScriptsInv' /\ Others(c) /\ thread'[c] = t
  BY <1>1, <1>2, Moved
<1>4. Running(c)' = Running(c) /\ Step(c)' = Step(c) /\ Request(c)' = Request(c)
  BY DEF Running, Step, Request
<1>5. DecisionInv(c)'
  BY <1>1, <1>2, <1>3, <1>4 DEF DecisionInv, At
<1> QED
  BY <1>3, <1>5

LEMMA PersistInv ==
  ASSUME IInv, NEW c \in Clients, Persist(c)
  PROVE  IInv'
<1>1. /\ ScriptsInv /\ ServerInv /\ RowsInv /\ Busy(c) /\ server.persistence /\ thread[c].pc = "persist"
      /\ UNCHANGED <<server, rows, calls, inflight, script, log>>
  BY DEF IInv, Persist, plane, db, ScriptsInv, ServerInv, At
<1>2. RowsInv' /\ RowsKept
  BY <1>1, RowsUntouched
<1>3. ScriptsInv' /\ Others(c) /\ DecisionInv(c)'
  <2>1. CASE \E result \in {"unavailable", "conflict"} : Stored(c, result)
    BY <1>1, <1>2, <2>1, StoredInv
  <2>2. CASE /\ Stored(c, "ok")
             /\ \E i \in Existing(thread[c].decision.id) : rows[i].evidence = Evidence(c)
    BY <1>1, <1>2, <2>2, StoredInv DEF Existing
  <2>3. CASE thread' = [thread EXCEPT ![c].pc = "insert", ![c].attempts = 0]
    BY <1>1, <2>3, StillToStore
  <2> QED
    BY <2>1, <2>2, <2>3 DEF Persist, Compare
<1> QED
  BY <1>1, <1>3, StepAside DEF ServerInv

LEMMA InsertInv ==
  ASSUME IInv, NEW c \in Clients, Insert(c)
  PROVE  IInv'
<1>1. /\ ScriptsInv /\ ServerInv /\ RowsInv /\ Busy(c) /\ server.persistence /\ thread[c].pc = "insert"
      /\ UNCHANGED <<calls, inflight, script, log>>
  BY DEF IInv, Insert, plane, ScriptsInv, ServerInv, At
<1>2. DOMAIN server' = DOMAIN NewServer /\ server'.persistence
  <2>1. server' = server \/ server' = [server EXCEPT !.transient = @ - 1]
    BY DEF Insert
  <2>2. DOMAIN server = {"available", "source", "store", "persistence", "failWrites", "forceTimeout",
                         "transient", "forceId", "forcePermissions"}
    BY <1>1 DEF ServerInv, NewServer
  <2> QED
    BY <1>1, <2>1, <2>2 DEF ServerInv
<1>3. /\ RowsInv' /\ RowsKept
      /\ UNCHANGED rows \/ InsertRow(c)
  BY <1>1, RowInserted, RowsUntouched DEF Insert
<1>4. ScriptsInv' /\ Others(c) /\ DecisionInv(c)'
  <2>1. CASE Stored(c, "unavailable")
    BY <1>1, <1>3, <2>1, StoredInv
  <2>2. CASE Stored(c, "ok") /\ InsertRow(c)
    <3>1. NormalizedDecision(thread[c].decision).id = thread[c].decision.id
      BY DEF NormalizedDecision
    <3> QED
      BY <1>1, <1>3, <2>2, <3>1, RowInserted, StoredInv
  <2>3. CASE thread' = [thread EXCEPT ![c].attempts = thread[c].attempts + 1]
    <3>1. thread' = [thread EXCEPT ![c].pc = "insert", ![c].attempts = thread[c].attempts + 1]
      BY <1>1, <2>3 DEF ScriptsInv, Idle
    <3> QED
      BY <1>1, <3>1, StillToStore
  <2> QED
    BY <2>1, <2>2, <2>3 DEF Insert
<1> QED
  BY <1>1, <1>2, <1>3, <1>4, StepKeeps

LEMMA DecideInv ==
  ASSUME IInv, NEW c \in Clients, Decide(c)
  PROVE  IInv'
<1> DEFINE d == thread[c].decision
           q == [client |-> c, step |-> Len(log[c]), request |-> Request(c),
                 headers |-> <<ForwardedHeaders(Request(c), d, server.forcePermissions)>>]
<1>1. /\ ScriptsInv /\ ServerInv /\ RowsInv /\ Busy(c) /\ server.persistence /\ At(c, "decided")
      /\ UNCHANGED <<server, rows, calls, script>> /\ DecisionInv(c)
  BY DEF IInv, Decide, db, ScriptsInv, ServerInv, DecisionsInv, At
<1>2. CASE \E status, error : Close(c, status, error) /\ UNCHANGED inflight
  <2>1. ScriptsInv' /\ Others(c) /\ thread'[c].pc = "idle"
    BY <1>1, <1>2, Closed DEF Idle
  <2> QED
    BY <1>1, <1>2, <2>1, Undecided, StepAside DEF ServerInv
<1>3. CASE /\ Step(c).do # "persist" /\ ~(Failed(c) /\ d.allowed) /\ d.allowed
           /\ inflight' = inflight \cup {q} /\ Goto(c, "forwarding") /\ UNCHANGED log
  <2> DEFINE t == [thread[c] EXCEPT !.pc = "forwarding"]
  <2>1. Step(c).do = "request" /\ OnRecord(Request(c), d.id, d.subject)
    BY <1>1, <1>3 DEF DecisionInv, Busy
  <2>2. DOMAIN t = DOMAIN Idle /\ t.pc = "forwarding" /\ thread' = [thread EXCEPT ![c] = t]
    BY <1>1, <1>3 DEF Goto, ScriptsInv, Idle
  <2> HIDE DEF t
  <2>3. ScriptsInv' /\ Others(c) /\ thread'[c] = t
    BY <1>1, <1>3, <2>2, Moved
  <2>4. RowsInv' /\ RowsKept
    BY <1>1, RowsUntouched
  <2>5. PICK sent : sent = q
    OBVIOUS
  <2>6. /\ sent.client = c /\ sent.request = Request(c)
        /\ sent.headers[1].decision = d.id /\ sent.headers[1].subject = d.subject
    BY <2>5 DEF ForwardedHeaders
  <2> HIDE DEF q, d
  <2>7. OnRecord(sent.request, sent.headers[1].decision, sent.headers[1].subject)'
    BY <2>1, <2>4, <2>6, RecordKept
  <2>8. DecisionInv(c)'
    BY <2>2, <2>3, Undecided
  <2> QED
    BY <1>1, <1>3, <2>3, <2>4, <2>5, <2>6, <2>7, <2>8, StepKeeps DEF ServerInv
<1> QED
  BY <1>2, <1>3 DEF Decide

LEMMA ForwardFailsInv ==
  ASSUME IInv, NEW c \in Clients, ForwardFails(c)
  PROVE  IInv'
<1>1. /\ ScriptsInv /\ ServerInv /\ server.persistence
      /\ UNCHANGED <<server, rows, calls, script>> /\ inflight' \subseteq inflight
      /\ Close(c, 502, "GATEWAY_FORWARD_FAILED")
  BY DEF IInv, ForwardFails, db, ServerInv, At
<1>2. ScriptsInv' /\ Others(c) /\ thread'[c].pc = "idle"
  BY <1>1, Closed DEF Idle
<1> QED
  BY <1>1, <1>2, Undecided, StepAside DEF ServerInv

\* What does not go through the gateway leaves the decisions as they are.
LEMMA OperateInv ==
  ASSUME IInv, NEW c \in Clients, Operate(c)
  PROVE  IInv'
<1>1. /\ ScriptsInv /\ ServerInv /\ RowsInv /\ Running(c)
      /\ UNCHANGED <<calls, inflight, script>>
  BY DEF IInv, Operate
<1>2. Step(c).do # "request" /\ server.persistence
  BY <1>1, Persisting DEF Operate, Again, Query, AuditQuery, Clean, Candidates
<1>3. DOMAIN server' = DOMAIN NewServer /\ server'.persistence
  <2>1. UNCHANGED server \/ (Step(c).server # <<>> /\ server' = Step(c).server[1])
    BY DEF Operate, Again, Query, AuditQuery, Clean, Candidates
  <2> QED
    BY <1>1, <1>2, <2>1, Stepping DEF ServerInv
<1>4. RowsInv' /\ RowsKept
  <2>1. UNCHANGED rows \/ \E id, cutoff : Hold(id, cutoff) \/ Release(id)
    BY DEF Operate, Again, Query, AuditQuery, Clean, Candidates
  <2> QED
    BY <1>1, <2>1, RowsHeld, RowsUntouched
<1>5. ScriptsInv' /\ Others(c) /\ DecisionInv(c)'
  <2>1. CASE \E status, error : Close(c, status, error)
    <3>1. ScriptsInv' /\ Others(c) /\ thread'[c].pc = "idle"
      BY <1>1, <2>1, Closed DEF Idle
    <3> QED
      BY <3>1, Undecided
  <2>2. CASE Again(c)
    <3>0. PICK d : thread' = [thread EXCEPT ![c].pc = "persist", ![c].decision = d]
      BY <2>2 DEF Again
    <3> DEFINE t == [thread[c] EXCEPT !.pc = "persist", !.decision = d]
    <3>1. DOMAIN t = DOMAIN Idle /\ thread' = [thread EXCEPT ![c] = t]
      BY <1>1, <3>0 DEF ScriptsInv
    <3> HIDE DEF t
    <3>2. Busy(c) /\ UNCHANGED log
      BY <1>1, <2>2 DEF Again, Busy
    <3>3. ScriptsInv' /\ Others(c)
      BY <1>1, <3>1, <3>2, Moved
    <3>4. Step(c)' = Step(c)
      BY <1>1, <3>2 DEF Step
    <3> QED
      BY <1>2, <3>3, <3>4 DEF DecisionInv
  <2> QED
    BY <2>1, <2>2 DEF Operate, Query, AuditQuery, Clean, Candidates
<1> QED
  BY <1>1, <1>3, <1>4, <1>5, StepKeeps

\* What the control plane is sent was on record when it was sent.
LEMMA ServeInv ==
  ASSUME IInv, NEW q \in inflight, Serve(q)
  PROVE  IInv'
<1>1. /\ ScriptsInv /\ ServerInv /\ RowsInv /\ DecisionsInv /\ InflightInv /\ EffectsAreOnRecord
      /\ UNCHANGED <<server, rows, script>> /\ inflight' = inflight \ {q}
  BY DEF IInv, Serve, db
<1>2. RowsInv' /\ RowsKept
  BY <1>1, RowsUntouched
<1>3. InflightInv'
  BY <1>1, <1>2, RecordKept DEF InflightInv
<1>4. EffectsAreOnRecord'
  <2>1. \A call \in calls' : call \in calls \/ /\ q.headers # <<>>
                                               /\ call = [request |-> q.request, headers |-> q.headers[1]]
    BY DEF Serve
  <2>2. ASSUME NEW call \in calls'
        PROVE  OnRecord(call.request, call.headers.decision, call.headers.subject)
    BY <1>1, <2>1 DEF InflightInv, EffectsAreOnRecord
  <2> QED
    BY <1>2, <2>2, RecordKept DEF EffectsAreOnRecord
<1>5. CASE UNCHANGED <<thread, log>>
  <2>1. ScriptsInv' /\ ServerInv'
    BY <1>1, <1>5 DEF ScriptsInv, ServerInv, At, Busy, Running, Step
  <2>2. DecisionsInv'
    BY <1>1, <1>5 DEF DecisionsInv, DecisionInv, At, Running, Step, Request, Failed, OnRecord
  <2> QED
    BY <1>2, <1>3, <1>4, <2>1, <2>2 DEF IInv
<1>6. CASE Waiting(q) /\ \E status, error : Close(q.client, status, error)
  <2> DEFINE c == q.client
  <2>1. c \in Clients /\ server.persistence
    BY <1>1, <1>6 DEF Waiting, At, InflightInv, ServerInv
  <2>2. PICK a : a = c
    OBVIOUS
  <2>3. ScriptsInv' /\ Others(a) /\ thread'[a].pc = "idle"
    BY <1>1, <1>6, <2>1, <2>2, Closed DEF Idle
  <2>4. ServerInv'
    BY <1>1, <2>1 DEF ServerInv
  <2>5. ASSUME NEW d \in Clients PROVE DecisionInv(d)'
    <3>1. CASE d = a
      BY <2>3, <3>1, Undecided
    <3>2. CASE d # a
      BY <1>1, <2>3, <3>2 DEF DecisionsInv, DecisionInv, Others, At, Running, Step, Request, Failed, OnRecord
    <3> QED
      BY <3>1, <3>2
  <2> QED
    BY <1>2, <1>3, <1>4, <2>3, <2>4, <2>5 DEF IInv, DecisionsInv
<1> QED
  BY <1>5, <1>6 DEF Serve

-----------------------------------------------------------------------------
(* The invariant, and what follows from it *)

LEMMA InitInv == Init => IInv
<1> SUFFICES ASSUME Init PROVE IInv
  OBVIOUS
<1>1. RowsInv /\ InflightInv /\ EffectsAreOnRecord
  BY DEF Init, RowsInv, IsSequence, InflightInv, EffectsAreOnRecord
<1>2. \A c \in Clients : At(c, "idle") /\ log[c] = <<>>
  BY DEF Init, At, Idle
<1>3. ScriptsInv
  BY <1>2 DEF Init, ScriptsInv, IsSequence
<1>4. ServerInv /\ DecisionsInv
  BY <1>2 DEF Init, ServerInv, DecisionsInv, DecisionInv, At
<1> QED
  BY <1>1, <1>3, <1>4 DEF IInv

LEMMA NextInv == IInv /\ [Next]_vars => IInv'
<1> SUFFICES ASSUME IInv, [Next]_vars PROVE IInv'
  OBVIOUS
<1>1. CASE UNCHANGED vars
  BY <1>1 DEF vars, db, plane, IInv, RowsInv, ScriptsInv, ServerInv, DecisionsInv, DecisionInv, InflightInv,
     EffectsAreOnRecord, OnRecord, At, Busy, Running, Step, Request, Failed
<1>2. ASSUME NEW c \in Clients, Send(c) \/ Operate(c) \/ ThreadStep(c) \/ ForwardFails(c) PROVE IInv'
  BY <1>2, SendInv, OperateInv, RouteInv, ResolveInv, PersistInv, InsertInv, DecideInv, ForwardFailsInv
     DEF ThreadStep
<1>3. ASSUME NEW q \in inflight, Serve(q) PROVE IInv'
  BY <1>3, ServeInv
<1> QED
  BY <1>1, <1>2, <1>3 DEF Next

\* Rows, scripts, switches, decisions and requests agree, inductively.
THEOREM Invariant == Spec => []IInv
BY InitInv, NextInv, PTL DEF Spec

\* Whatever the control plane was sent was allowed, to that caller, for that
\* permission and that request, by a row of the decision table.
THEOREM SentIsOnRecord == Spec => []EffectsAreOnRecord
<1>1. IInv => EffectsAreOnRecord
  BY DEF IInv
<1> QED
  BY <1>1, Invariant, PTL

\* Threads that look for an id before they insert it never store it twice.
THEOREM IdsAreUnique ==
  Spec => [](\A i, j \in DOMAIN rows : rows[i].id = rows[j].id => i = j)
<1>1. IInv => \A i, j \in DOMAIN rows : rows[i].id = rows[j].id => i = j
  BY DEF IInv, RowsInv
<1> QED
  BY <1>1, Invariant, PTL

\* What a row says of a decision is final: rows are only added, and a hold
\* touches nothing but how long they stay.
THEOREM RecordsAreFinal == Spec => [][RowsKept]_vars
<1>1. ASSUME IInv, [Next]_vars PROVE RowsKept
  <2>1. RowsInv
    BY <1>1 DEF IInv
  <2>2. CASE UNCHANGED rows
    BY <2>1, <2>2, RowsUntouched
  <2>3. ASSUME NEW c \in Clients, Insert(c) PROVE RowsKept
    BY <2>1, <2>3, RowInserted, RowsUntouched DEF Insert
  <2>4. ASSUME NEW c \in Clients, Operate(c) PROVE RowsKept
    BY <2>1, <2>4, RowsHeld, RowsUntouched DEF Operate, Again, Query, AuditQuery, Clean, Candidates
  <2>5. ASSUME NEW c \in Clients, Send(c) \/ Route(c) \/ Resolve(c) \/ Persist(c) \/ Decide(c) \/ ForwardFails(c)
        PROVE  UNCHANGED rows
    BY <2>5 DEF Send, Route, Resolve, Persist, Decide, ForwardFails, db
  <2>6. ASSUME NEW q \in inflight, Serve(q) PROVE UNCHANGED rows
    BY <2>6 DEF Serve, db
  <2> QED
    BY <1>1, <2>2, <2>3, <2>4, <2>5, <2>6 DEF Next, ThreadStep, vars, db
<1>2. IInv /\ [Next]_vars => [RowsKept]_vars
  BY <1>1
<1> QED
  BY <1>2, Invariant, PTL DEF Spec
================================================================================
