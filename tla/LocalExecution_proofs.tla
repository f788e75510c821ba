-------------------------- MODULE LocalExecution_proofs --------------------------
(***************************************************************************)
(* Proofs about LocalExecution: the quota of the proxy is overrun by the   *)
(* requests that are under way at most; and what the calls do to the       *)
(* providers has its row. They hold for any callers, providers, workloads  *)
(* and outcomes, whoever dies or gives up.                                 *)
(***************************************************************************)
EXTENDS LocalExecution, FiniteSetTheorems, TLAPS

-----------------------------------------------------------------------------
(* Sequences of rows *)

\* A sequence of whatever elements: tables are sequences of rows whose values
\* need no type for what is proved about them.
IsSequence(s) == Len(s) \in Nat /\ s = [i \in 1..Len(s) |-> s[i]]

\* A sequence after Append.
LEMMA Appended ==
  ASSUME NEW s, IsSequence(s), NEW e
  PROVE  /\ IsSequence(Append(s, e)) /\ Len(Append(s, e)) = Len(s) + 1
         /\ DOMAIN s = 1..Len(s) /\ DOMAIN Append(s, e) = 1..(Len(s) + 1)
         /\ Append(s, e)[Len(s) + 1] = e
         /\ \A i \in 1..Len(s) : Append(s, e)[i] = s[i]
<1> DEFINE S == {s[i] : i \in 1..Len(s)} \cup {e}
<1>1. s \in Seq(S) /\ e \in S
  <2>1. s \in [1..Len(s) -> S]
    BY DEF IsSequence
  <2> QED
    BY <2>1 DEF IsSequence
<1> HIDE DEF S
<1>2. Append(s, e) \in Seq(S) /\ Len(Append(s, e)) = Len(s) + 1
  BY <1>1
<1>3. /\ DOMAIN s = 1..Len(s) /\ DOMAIN Append(s, e) = 1..(Len(s) + 1)
      /\ Append(s, e)[Len(s) + 1] = e
      /\ \A i \in 1..Len(s) : Append(s, e)[i] = s[i]
  BY <1>1
<1>4. ASSUME NEW t \in Seq(S) PROVE IsSequence(t)
  <2>1. Len(t) \in Nat /\ t \in [1..Len(t) -> S]
    OBVIOUS
  <2> QED
    BY <2>1 DEF IsSequence
<1> QED
  BY <1>2, <1>3, <1>4

(***************************************************************************)
(* What the argument needs to know of the types: the tables and the list   *)
(* of threads are sequences, of functions with these columns.              *)
(***************************************************************************)
RowsInv ==
  /\ IsSequence(events) /\ IsSequence(cause) /\ Len(cause) = Len(events)
  /\ \A e \in 1..Len(events) : /\ {"mode", "project", "golden"} \subseteq DOMAIN events[e]
                               /\ events[e].mode = "proxy" => events[e].project = Project

\* A thread has these fields, and what it replays is a row.
HasFields(m) ==
  /\ {"pc", "result", "slots", "source"} \subseteq DOMAIN m
  /\ m.source # <<>> => {"mode", "project", "golden"} \subseteq DOMAIN m.source[1]

\* What is refused was not sent to the provider.
HandlersInv ==
  /\ IsSequence(handlers)
  /\ \A h \in 1..Len(handlers) :
       /\ HasFields(handlers[h])
       /\ handlers[h].pc \in {"refuse", "deny"} => handlers[h].result.contact = 0

QuotaInv ==
  /\ peak \in Nat /\ Cardinality(Admitted) <= peak
  /\ OverrunIsBounded

IInv == RowsInv /\ HandlersInv /\ QuotaInv

-----------------------------------------------------------------------------
(* Sequences, rows and results *)

\* Of two numbers, Max is one that is not below either.
LEMMA MaxOfTwo ==
  ASSUME NEW a \in Int, NEW b \in Int
  PROVE  Max({a, b}) \in {a, b} /\ Max({a, b}) >= a /\ Max({a, b}) >= b
<1>1. PICK m \in {a, b} : \A y \in {a, b} : m >= y
  OBVIOUS
<1> QED
  BY <1>1 DEF Max

\* What the quota leaves for rows before the last one that is let in.
LEMMA QuotaBound ==
  /\ Quota \in Int /\ Max({Quota - 1, 0}) \in Nat
  /\ Max({Quota - 1, 0}) >= Quota - 1
<1>1. Quota \in Int
  BY ShapeAssumption DEF ShapeAssumption
<1>2. Quota - 1 \in Int /\ 0 \in Int
  BY <1>1
<1>3. /\ Max({Quota - 1, 0}) \in {Quota - 1, 0}
      /\ Max({Quota - 1, 0}) >= Quota - 1 /\ Max({Quota - 1, 0}) >= 0
  BY <1>2, MaxOfTwo
<1> DEFINE m == Max({Quota - 1, 0})
<1> HIDE DEF m
<1>4. m \in Int /\ m >= 0
  BY <1>2, <1>3 DEF m
<1> QED
  BY <1>1, <1>3, <1>4 DEF m

\* A new row has the columns, and the mode it was given.
LEMMA RowColumns ==
  ASSUME NEW d, NEW mode, NEW p, NEW r, NEW params
  PROVE  /\ {"mode", "project", "golden", "status", "cost", "runtime"} \subseteq DOMAIN Row(d, mode, p, r, params)
         /\ Row(d, mode, p, r, params).mode = mode /\ Row(d, mode, p, r, params).project = Project
<1> DEFINE e == Row(d, mode, p, r, params)
<1>1. DOMAIN e = DOMAIN NoEvent
  BY DEF Row
<1>2. DOMAIN NoEvent = {"decision", "mode", "project", "capability", "provider", "tool", "method", "status",
                        "success", "latency", "cost", "error", "region", "metadata", "reference",
                        "runtime", "golden"}
  BY DEF NoEvent
<1>3. e.mode = mode
  BY <1>2, Zenon DEF Row
<1>4. e.project = Project
  BY <1>2, Zenon DEF Row
<1> QED
  BY <1>1, <1>2, <1>3, <1>4

\* What a failure is reported with never reached a provider.
LEMMA FailureContact == ASSUME NEW error PROVE Failure(error).contact = 0 /\ "contact" \in DOMAIN Failure(error)
BY DEF Failure, Result

\* The sets that are counted are finite.
LEMMA Finite ==
  ASSUME RowsInv, HandlersInv
  PROVE  /\ DOMAIN events = 1..Len(events) /\ DOMAIN handlers = 1..Len(handlers)
         /\ IsFiniteSet(Forwarded) /\ IsFiniteSet(Admitted)
         /\ Cardinality(Forwarded) \in Nat /\ Cardinality(Admitted) \in Nat
<1>1. DOMAIN events = 1..Len(events) /\ DOMAIN handlers = 1..Len(handlers)
  BY DEF RowsInv, HandlersInv, IsSequence
<1>2. IsFiniteSet(1..Len(events)) /\ IsFiniteSet(1..Len(handlers))
  <2>1. Len(events) \in Int /\ Len(handlers) \in Int /\ 1 \in Int
    BY DEF RowsInv, HandlersInv, IsSequence
  <2> QED
    BY <2>1, FS_Interval
<1>3. Forwarded \in SUBSET (1..Len(events)) /\ Admitted \in SUBSET (1..Len(handlers))
  BY <1>1 DEF Forwarded, Admitted
<1> QED
  BY <1>1, <1>2, <1>3, FS_Subset, FS_CardinalityType

-----------------------------------------------------------------------------
(* What the steps do to the tables and the threads *)

\* A row more is forwarded only when it is the proxy's, of a contact.
LEMMA RowAppended ==
  ASSUME RowsInv, NEW row, NEW contact, RecordRow(row, contact),
         {"mode", "project", "golden"} \subseteq DOMAIN row, row.mode = "proxy" => row.project = Project
  PROVE  /\ RowsInv'
         /\ row.mode # "proxy" \/ contact = 0 => Forwarded' = Forwarded
         /\ Forwarded' \in {Forwarded, Forwarded \cup {Len(events) + 1}}
         /\ Len(events) + 1 \notin Forwarded
<1> DEFINE n == Len(events)
<1>1. n \in Nat /\ IsSequence(events) /\ IsSequence(cause) /\ Len(cause) = n
  BY DEF RowsInv, IsSequence
<1>2. /\ IsSequence(events') /\ Len(events') = n + 1 /\ DOMAIN events = 1..n /\ DOMAIN events' = 1..(n + 1)
      /\ events'[n + 1] = row /\ \A i \in 1..n : events'[i] = events[i]
  BY <1>1, Appended DEF RecordRow, Record
<1>3. /\ IsSequence(cause') /\ Len(cause') = n + 1
      /\ cause'[n + 1] = contact /\ \A i \in 1..n : cause'[i] = cause[i]
  BY <1>1, Appended DEF RecordRow
<1>4. \A i \in 1..(n + 1) : i \in 1..n \/ i = n + 1
  BY <1>1
<1>5. RowsInv'
  BY <1>1, <1>2, <1>3, <1>4 DEF RowsInv
<1> DEFINE new == row.mode = "proxy" /\ contact # 0
<1>6. Forwarded' = IF new THEN Forwarded \cup {n + 1} ELSE Forwarded
  <2>1. ASSUME NEW e PROVE e \in Forwarded' <=> e \in Forwarded \/ (e = n + 1 /\ new)
    BY <1>1, <1>2, <1>3, <1>4 DEF Forwarded
  <2> QED
    BY <2>1
<1>7. n + 1 \notin Forwarded
  BY <1>1, <1>2 DEF Forwarded
<1> QED
  BY <1>5, <1>6, <1>7

\* A thread that changes, and whether it is past the quota then.
LEMMA HandlerChanged ==
  ASSUME HandlersInv, NEW h \in DOMAIN handlers, NEW m, SetHandler(h, m),
         HasFields(m),
         m.pc \in {"refuse", "deny"} => m.result.contact = 0
  PROVE  /\ HandlersInv'
         /\ Admitted' = IF m.pc \in {"forward", "forwarded"} THEN Admitted \cup {h} ELSE Admitted \ {h}
<1> DEFINE n == Len(handlers)
<1>1. n \in Nat /\ handlers = [i \in 1..n |-> handlers[i]] /\ DOMAIN handlers = 1..n
  BY DEF HandlersInv, IsSequence
<1>2. /\ handlers' = [i \in 1..n |-> IF i = h THEN m ELSE handlers[i]]
      /\ h \in 1..n
  BY <1>1 DEF SetHandler
<1>3. IsSequence(handlers') /\ Len(handlers') = n
  <2> DEFINE S == {handlers[i] : i \in 1..n} \cup {m}
  <2>1. handlers' \in [1..n -> S]
    BY <1>2
  <2>2. handlers' \in Seq(S) /\ DOMAIN handlers' = 1..n
    BY <1>1, <2>1
  <2>3. Len(handlers') = n
    BY <1>1, <2>2
  <2> QED
    BY <1>1, <2>1, <2>3 DEF IsSequence
<1>4. HandlersInv'
  BY <1>1, <1>2, <1>3 DEF HandlersInv
<1>5. ASSUME NEW i
      PROVE  i \in Admitted' <=> IF i = h THEN m.pc \in {"forward", "forwarded"} ELSE i \in Admitted
  BY <1>1, <1>2, <1>3 DEF Admitted
<1>6. Admitted' = IF m.pc \in {"forward", "forwarded"} THEN Admitted \cup {h} ELSE Admitted \ {h}
  BY <1>5
<1> QED
  BY <1>4, <1>6

\* Who leaves, and a row that is not forwarded, disturb nothing.
LEMMA Leaving ==
  ASSUME IInv, RowsInv', HandlersInv', Forwarded' = Forwarded, Admitted' \subseteq Admitted,
         peak' \in Nat, peak' >= peak
  PROVE  IInv'
<1>1. /\ IsFiniteSet(Admitted) /\ Cardinality(Admitted) \in Nat /\ Cardinality(Forwarded) \in Nat
      /\ Cardinality(Admitted') \in Nat
  BY Finite, FS_Subset, FS_CardinalityType DEF IInv
<1>2. Cardinality(Admitted') <= Cardinality(Admitted)
  BY <1>1, FS_Subset
<1> QED
  BY <1>1, <1>2, QuotaBound DEF IInv, QuotaInv, OverrunIsBounded

\* Nothing of what is counted has changed.
LEMMA Untouched ==
  ASSUME IInv, UNCHANGED <<events, cause, handlers, peak>>
  PROVE  IInv'
BY DEF IInv, RowsInv, HandlersInv, QuotaInv, OverrunIsBounded, Forwarded, Admitted

\* A thread that starts has not been let past the quota.
LEMMA Arriving ==
  ASSUME IInv, NEW m, handlers' = Append(handlers, m), HasFields(m), m.pc = "received",
         UNCHANGED <<events, cause, peak>>
  PROVE  IInv'
<1> DEFINE n == Len(handlers)
<1>1. /\ IsSequence(handlers') /\ Len(handlers') = n + 1 /\ n \in Nat
      /\ DOMAIN handlers = 1..n /\ DOMAIN handlers' = 1..(n + 1)
      /\ handlers'[n + 1] = m /\ \A i \in 1..n : handlers'[i] = handlers[i]
  BY Appended DEF IInv, HandlersInv, IsSequence
<1>2. \A i \in 1..(n + 1) : i \in 1..n \/ i = n + 1
  BY <1>1
<1>3. HandlersInv'
  BY <1>1, <1>2 DEF IInv, HandlersInv
<1>4. Admitted' \subseteq Admitted
  BY <1>1, <1>2 DEF Admitted
<1>5. RowsInv' /\ Forwarded' = Forwarded /\ peak' \in Nat /\ peak' >= peak
  BY DEF IInv, RowsInv, Forwarded, QuotaInv
<1> QED
  BY <1>3, <1>4, <1>5, Leaving

\* A row of another mode, or of a request that was not sent.
LEMMA Recorded ==
  ASSUME IInv, NEW row, NEW contact, RecordRow(row, contact), UNCHANGED <<handlers, peak>>,
         {"mode", "project", "golden"} \subseteq DOMAIN row, row.mode # "proxy"
  PROVE  IInv'
<1>1. RowsInv' /\ Forwarded' = Forwarded
  BY RowAppended DEF IInv
<1>2. HandlersInv' /\ Admitted' = Admitted
  BY DEF IInv, HandlersInv, Admitted
<1>3. peak' \in Nat /\ peak' >= peak
  BY DEF IInv, QuotaInv
<1> QED
  BY <1>1, <1>2, <1>3, Leaving

-----------------------------------------------------------------------------
(* The callers *)

\* A caller's rows are direct or shadow rows, which are not forwarded ones.
LEMMA CallStepInv ==
  ASSUME IInv, NEW c \in Callers, Start(c) \/ CallStep(c) \/ Abort(c)
  PROVE  IInv'
<1>1. CASE \/ Start(c) \/ RecordDecision(c) \/ AttemptHere(c) \/ AttemptByAdapter(c)
           \/ TakeAnswer(c) \/ GiveUp(c) \/ Abort(c)
  <2>1. UNCHANGED <<events, cause, handlers, peak>>
    BY <1>1 DEF Start, RecordDecision, AttemptHere, AttemptByAdapter, TakeAnswer, GiveUp, Abort
  <2> QED
    BY <2>1, Untouched
<1>2. CASE AttemptByProxy(c)
  <2>1. PICK m : /\ handlers' = Append(handlers, m) /\ m.pc = "received"
                 /\ HasFields(m)
    BY <1>2 DEF AttemptByProxy, HasFields
  <2>2. UNCHANGED <<events, cause, peak>>
    BY <1>2 DEF AttemptByProxy
  <2> QED
    BY <2>1, <2>2, Arriving
<1>3. CASE Settle(c)
  <2>1. UNCHANGED <<handlers, peak>>
    BY <1>3 DEF Settle
  <2>2. CASE UNCHANGED store
    BY <2>1, <2>2, Untouched DEF store
  <2>3. CASE ~UNCHANGED store
    <3> DEFINE k == call[c]
               mode == IF k.phase = "main" THEN "direct" ELSE "shadow"
               base == Row(k.decision, mode, Current(k), k.result, k.options.params)
    <3>1. PICK cost, runtime : RecordRow([base EXCEPT !.cost = cost, !.runtime = runtime], k.result.contact)
      BY <1>3, <2>3 DEF Settle
    <3>2. mode # "proxy"
      OBVIOUS
    <3> HIDE DEF mode
    <3> DEFINE row == [base EXCEPT !.cost = cost, !.runtime = runtime]
    <3>3. {"mode", "project", "golden"} \subseteq DOMAIN base /\ base.mode = mode
      BY RowColumns
    <3> HIDE DEF base
    <3>4. {"mode", "project", "golden"} \subseteq DOMAIN row /\ row.mode = mode
      BY <3>3
    <3> QED
      BY <2>1, <3>1, <3>2, <3>4, Recorded
  <2> QED
    BY <2>2, <2>3
<1>4. CASE SettleByAdapter(c)
  <2> DEFINE k == call[c]
             mode == IF k.phase = "main" THEN "direct" ELSE "shadow"
             base == Row(k.decision, mode, Current(k), k.result, k.options.params)
             row == [base EXCEPT !.runtime = "sdk"]
  <2>1. UNCHANGED <<handlers, peak>> /\ RecordRow(row, k.result.contact)
    BY <1>4 DEF SettleByAdapter
  <2>2. mode # "proxy"
    OBVIOUS
  <2> HIDE DEF mode
  <2>3. {"mode", "project", "golden"} \subseteq DOMAIN base /\ base.mode = mode
    BY RowColumns
  <2> HIDE DEF base
  <2>4. {"mode", "project", "golden"} \subseteq DOMAIN row /\ row.mode = mode
    BY <2>3
  <2> QED
    BY <2>1, <2>2, <2>4, Recorded
<1> QED
  BY <1>1, <1>2, <1>3, <1>4 DEF CallStep

-----------------------------------------------------------------------------
(* The proxy's threads *)

\* The rows of forwarded requests are among those the quota counts.
LEMMA CountsForwarded ==
  ASSUME RowsInv, HandlersInv
  PROVE  Count(events, Project) \in Nat /\ Cardinality(Forwarded) <= Count(events, Project)
<1> DEFINE counted == {i \in DOMAIN events : Project \in {Unfiltered, events[i].project}}
<1>1. Forwarded \in SUBSET counted
  BY Finite DEF Forwarded, RowsInv
<1>2. counted \in SUBSET (1..Len(events)) /\ Len(events) \in Int /\ 1 \in Int
  BY Finite DEF RowsInv, IsSequence
<1>3. IsFiniteSet(counted)
  <2> HIDE DEF counted
  <2> QED
    BY <1>2, FS_Interval, FS_Subset
<1>4. Cardinality(counted) \in Nat /\ Cardinality(Forwarded) <= Cardinality(counted)
  BY <1>1, <1>3, FS_Subset, FS_CardinalityType
<1> QED
  BY <1>4 DEF Count

\* A thread that is let in was let in below the quota.
LEMMA AdmitInv ==
  ASSUME IInv, NEW h \in DOMAIN handlers, HandlerAdmit(h)
  PROVE  IInv'
<1> DEFINE m == handlers[h]
<1>1. HasFields(m) /\ m.pc = "received" /\ h \notin Admitted
  BY Finite DEF IInv, HandlersInv, HandlerAdmit, HandlerIs, Admitted
<1>2. PICK pc, error, slots, reference, credential :
        /\ SetHandler(h, GoesOn(m, pc, error, slots, reference, credential))
        /\ pc \in {"refuse", "deny", "forward"}
        /\ pc = "forward" => ~(Quota # NoLimit /\ Count(events, Project) >= Quota)
  BY DEF HandlerAdmit
<1> DEFINE new == GoesOn(m, pc, error, slots, reference, credential)
           r   == [Failure(error) EXCEPT !.reference = reference, !.credential = credential]
<1>3. r.contact = 0
  BY FailureContact
<1>4. HasFields(new) /\ new.pc = pc /\ new.result = r
  <2>1. new = [m EXCEPT !.pc = pc, !.slots = slots, !.result = r]
    BY DEF GoesOn
  <2> HIDE DEF r
  <2> QED
    BY <1>1, <2>1 DEF HasFields
<1> HIDE DEF r
<1>5. SetHandler(h, new)
  BY <1>2
<1> HIDE DEF new
<1>6. /\ HandlersInv'
      /\ Admitted' = IF pc = "forward" THEN Admitted \cup {h} ELSE Admitted \ {h}
  BY <1>2, <1>3, <1>4, <1>5, HandlerChanged DEF IInv
<1>7. RowsInv' /\ Forwarded' = Forwarded /\ UNCHANGED events
  BY DEF HandlerAdmit, IInv, RowsInv, Forwarded
<1>8. /\ IsFiniteSet(Admitted) /\ Cardinality(Admitted) \in Nat /\ Cardinality(Forwarded) \in Nat
      /\ Cardinality(Admitted') \in Nat
  <2>1. IsFiniteSet(Admitted) /\ Cardinality(Admitted) \in Nat /\ Cardinality(Forwarded) \in Nat
    BY Finite DEF IInv
  <2>2. IsFiniteSet(Admitted \cup {h}) /\ IsFiniteSet(Admitted \ {h})
    BY <2>1, FS_AddElement, FS_RemoveElement
  <2> QED
    BY <1>6, <2>1, <2>2, FS_CardinalityType
<1>9. peak' \in Nat /\ peak' >= peak /\ peak' >= Cardinality(Admitted')
  <2>1. peak \in Int /\ Cardinality(Admitted') \in Int /\ peak >= 0
    BY <1>8 DEF IInv, QuotaInv
  <2>2. peak' = Max({peak, Cardinality(Admitted')})
    BY DEF HandlerAdmit
  <2>3. peak' \in {peak, Cardinality(Admitted')} /\ peak' >= peak /\ peak' >= Cardinality(Admitted')
    BY <2>1, <2>2, MaxOfTwo
  <2> QED
    BY <2>1, <2>3
<1>10. CASE pc # "forward"
  <2>1. Admitted' \subseteq Admitted
    BY <1>6, <1>10
  <2> QED
    BY <1>6, <1>7, <1>9, <2>1, Leaving
<1>11. CASE pc = "forward"
  <2>1. Quota # NoLimit => Count(events, Project) < Quota
    BY <1>2, <1>11, QuotaBound, CountsForwarded DEF IInv
  <2>2. Quota # NoLimit => Cardinality(Forwarded) <= Max({Quota - 1, 0})
    BY <1>8, <2>1, QuotaBound, CountsForwarded DEF IInv
  <2>3. OverrunIsBounded'
    BY <1>7, <1>8, <1>9, <2>2, QuotaBound DEF OverrunIsBounded
  <2> QED
    BY <1>6, <1>7, <1>9, <2>3 DEF IInv, QuotaInv
<1> QED
  BY <1>10, <1>11

\* The row takes the place of the thread.
LEMMA RecordInv ==
  ASSUME IInv, NEW h \in DOMAIN handlers, HandlerRecord(h)
  PROVE  IInv'
<1> DEFINE m == handlers[h]
           r == m.result
           base == Row(m.as.decision, "proxy", m.provider, r, {})
<1>1. /\ HasFields(m)
      /\ m.pc \in {"refuse", "deny"} => r.contact = 0
      /\ m.pc \in {"refuse", "deny", "forwarded"}
  BY Finite DEF IInv, HandlersInv, HandlerRecord
<1> DEFINE status == IF m.pc = "refuse" THEN 429 ELSE IF m.pc = "deny" THEN 401 ELSE r.status
           cost == IF m.pc = "forwarded" /\ r.error # "http_error" /\ m.caller # Operator
                   THEN CandidateOf(m.provider).cost.n ELSE 0
<1>2. RecordRow([base EXCEPT !.capability = m.as.capability, !.provider = m.as.provider,
                             !.status = status, !.cost = cost, !.runtime = "proxy:http"], r.contact)
  BY DEF HandlerRecord
<1> HIDE DEF status, cost
<1>3. UNCHANGED peak /\ SetHandler(h, [m EXCEPT !.pc = "answered", !.result = r])
  BY DEF HandlerRecord, Answered
<1> DEFINE row == [base EXCEPT !.capability = m.as.capability, !.provider = m.as.provider,
                               !.status = status, !.cost = cost, !.runtime = "proxy:http"]
           new == [m EXCEPT !.pc = "answered", !.result = r]
<1>4. {"mode", "project", "golden"} \subseteq DOMAIN base /\ base.mode = "proxy" /\ base.project = Project
  BY RowColumns
<1> HIDE DEF base
<1>5. {"mode", "project", "golden"} \subseteq DOMAIN row /\ row.mode = "proxy" /\ row.project = Project
  BY <1>4
<1>6. HasFields(new) /\ new.pc = "answered"
  BY <1>1 DEF HasFields
<1> HIDE DEF row, new
<1>7. /\ RowsInv'
      /\ r.contact = 0 => Forwarded' = Forwarded
      /\ Forwarded' \in {Forwarded, Forwarded \cup {Len(events) + 1}}
      /\ Len(events) + 1 \notin Forwarded
  BY <1>2, <1>5, RowAppended DEF IInv, row
<1>8. HandlersInv' /\ Admitted' = Admitted \ {h}
  BY <1>3, <1>6, HandlerChanged DEF IInv, new
<1>9. /\ IsFiniteSet(Admitted) /\ IsFiniteSet(Forwarded)
      /\ Cardinality(Admitted) \in Nat /\ Cardinality(Forwarded) \in Nat
  BY Finite DEF IInv
<1>10. CASE Forwarded' = Forwarded
  BY <1>3, <1>7, <1>8, <1>10, Leaving DEF IInv, QuotaInv
<1>11. CASE Forwarded' # Forwarded
  <2>1. m.pc = "forwarded" /\ h \in Admitted
    BY <1>1, <1>7, <1>11 DEF Admitted
  <2>2. Cardinality(Forwarded') = Cardinality(Forwarded) + 1
    BY <1>7, <1>9, <1>11, FS_AddElement
  <2>3. Cardinality(Admitted') = Cardinality(Admitted) - 1
    BY <1>8, <1>9, <2>1, FS_RemoveElement
  <2>4. peak \in Nat /\ peak' = peak /\ Cardinality(Admitted) <= peak /\ OverrunIsBounded
    BY <1>3 DEF IInv, QuotaInv
  <2>5. OverrunIsBounded' /\ Cardinality(Admitted') <= peak'
    BY <1>9, <2>2, <2>3, <2>4, QuotaBound DEF OverrunIsBounded
  <2> QED
    BY <1>7, <1>8, <2>4, <2>5 DEF IInv, QuotaInv
<1> QED
  BY <1>10, <1>11

\* A thread that moves on without a row, and is let in by no one.
LEMMA HandlerMoves ==
  ASSUME IInv, NEW h \in DOMAIN handlers, NEW new, SetHandler(h, new), UNCHANGED <<events, cause, peak>>,
         HasFields(new), new.pc \notin {"refuse", "deny", "forward"},
         new.pc = "forwarded" => handlers[h].pc = "forward"
  PROVE  IInv'
<1>1. /\ HandlersInv'
      /\ Admitted' = IF new.pc \in {"forward", "forwarded"} THEN Admitted \cup {h} ELSE Admitted \ {h}
  BY HandlerChanged DEF IInv
<1>2. Admitted' \subseteq Admitted
  BY <1>1 DEF Admitted
<1>3. RowsInv' /\ Forwarded' = Forwarded /\ peak' \in Nat /\ peak' >= peak
  BY DEF IInv, RowsInv, Forwarded, QuotaInv
<1> QED
  BY <1>1, <1>2, <1>3, Leaving

\* Every step of a thread, its death included.
LEMMA HandlerStepInv ==
  ASSUME IInv, NEW h \in DOMAIN handlers, HandlerStep(h) \/ HandlerFails(h)
  PROVE  IInv'
<1> DEFINE m == handlers[h]
<1>1. HasFields(m)
  BY Finite DEF IInv, HandlersInv
<1>2. CASE HandlerReject(h)
  <2> DEFINE new == [m EXCEPT !.pc = "answered", !.result = Failure("unauthorized")]
  <2>1. SetHandler(h, new) /\ UNCHANGED <<events, cause, peak>>
    BY <1>2 DEF HandlerReject, Answered
  <2>2. HasFields(new) /\ new.pc = "answered"
    BY <1>1 DEF HasFields
  <2> HIDE DEF new
  <2> QED
    BY <2>1, <2>2, HandlerMoves
<1>3. CASE HandlerForward(h)
  <2>1. PICK r : SetHandler(h, [m EXCEPT !.pc = "forwarded", !.result = r])
    BY <1>3 DEF HandlerForward
  <2> DEFINE new == [m EXCEPT !.pc = "forwarded", !.result = r]
  <2>2. UNCHANGED <<events, cause, peak>> /\ m.pc = "forward"
    BY <1>3 DEF HandlerForward, HandlerIs
  <2>3. HasFields(new) /\ new.pc = "forwarded"
    BY <1>1 DEF HasFields
  <2>4. SetHandler(h, new)
    BY <2>1
  <2> HIDE DEF new
  <2> QED
    BY <2>2, <2>3, <2>4, HandlerMoves
<1>4. CASE HandlerFails(h)
  <2> DEFINE new == [m EXCEPT !.pc = "lost"]
  <2>1. SetHandler(h, new) /\ UNCHANGED <<events, cause, peak>>
    BY <1>4 DEF HandlerFails
  <2>2. HasFields(new) /\ new.pc = "lost"
    BY <1>1 DEF HasFields
  <2> HIDE DEF new
  <2> QED
    BY <2>1, <2>2, HandlerMoves
<1> QED
  BY <1>2, <1>3, <1>4, AdmitInv, RecordInv DEF HandlerStep

-----------------------------------------------------------------------------
(* The operator *)

\* The row of a replay is of a mode of its own.
LEMMA ReplayRecorded ==
  ASSUME IInv, NEW e, {"mode", "project", "golden"} \subseteq DOMAIN e, NEW r,
         RecordRow(ReplayRow(e, r), r.contact), UNCHANGED <<handlers, peak>>
  PROVE  IInv'
<1>1. /\ {"mode", "project", "golden"} \subseteq DOMAIN ReplayRow(e, r)
      /\ ReplayRow(e, r).mode = "replay"
  BY DEF ReplayRow
<1> QED
  BY <1>1, Recorded

\* So is that of a replay by the proxy, whose thread is let in by no one.
LEMMA FinishInv ==
  ASSUME IInv, NEW h \in DOMAIN handlers, FinishReplay(h)
  PROVE  IInv'
<1> DEFINE m == handlers[h]
           new == [m EXCEPT !.source = <<>>]
           r == IF m.pc = "answered" THEN m.result ELSE Failure("proxy_error")
<1>1. HasFields(m) /\ (m.pc \in {"refuse", "deny"} => m.result.contact = 0) /\ m.source # <<>>
  BY Finite DEF IInv, HandlersInv, FinishReplay
<1>2. SetHandler(h, new) /\ UNCHANGED peak
  BY DEF FinishReplay
<1>3. \/ RecordRow(ReplayRow(m.source[1], r), r.contact)
      \/ UNCHANGED store
  BY DEF FinishReplay, ReplayRecords
<1>4. HasFields(new) /\ new.pc = m.pc /\ new.result = m.result
  BY <1>1 DEF HasFields
<1> HIDE DEF new, r
<1>5. HandlersInv' /\ Admitted' = IF m.pc \in {"forward", "forwarded"} THEN Admitted \cup {h} ELSE Admitted \ {h}
  BY <1>1, <1>2, <1>4, HandlerChanged DEF IInv
<1>6. Admitted' = Admitted
  BY <1>5 DEF Admitted
<1>7. peak' \in Nat /\ peak' >= peak
  BY <1>2 DEF IInv, QuotaInv
<1>8. RowsInv' /\ Forwarded' = Forwarded
  <2>1. CASE RecordRow(ReplayRow(m.source[1], r), r.contact)
    <3>1. /\ {"mode", "project", "golden"} \subseteq DOMAIN ReplayRow(m.source[1], r)
          /\ ReplayRow(m.source[1], r).mode = "replay"
      BY <1>1 DEF ReplayRow, HasFields
    <3> QED
      BY <2>1, <3>1, RowAppended DEF IInv
  <2>2. CASE UNCHANGED store
    BY <2>2 DEF store, IInv, RowsInv, Forwarded
  <2> QED
    BY <1>3, <2>1, <2>2
<1> QED
  BY <1>5, <1>6, <1>7, <1>8, Leaving

\* Replays are rows of their own mode, and a mark leaves mode and project alone.
LEMMA OperatorInv ==
  ASSUME IInv, NEW i \in DOMAIN events, Replay(i) \/ Mark(i)
  PROVE  IInv'
<1>1. {"mode", "project", "golden"} \subseteq DOMAIN events[i]
  BY Finite DEF IInv, RowsInv
<1>2. CASE Replay(i)
  <2>1. UNCHANGED peak
    BY <1>2 DEF Replay
  <2>2. CASE UNCHANGED store /\ UNCHANGED handlers
    BY <2>1, <2>2, Untouched DEF store
  <2>3. CASE \E r : RecordRow(ReplayRow(events[i], r), r.contact) /\ UNCHANGED handlers
    BY <1>1, <2>1, <2>3, ReplayRecorded
  <2>4. CASE \E m : /\ handlers' = Append(handlers, m) /\ HasFields(m) /\ m.pc = "received"
                    /\ UNCHANGED <<events, cause>>
    BY <2>1, <2>4, Arriving
  <2> QED
    BY <1>1, <1>2, <2>2, <2>3, <2>4 DEF Replay, ReplayRecords, store, HasFields
<1>3. CASE Mark(i)
  <2>1. PICK golden : events' = [events EXCEPT ![i] = [events[i] EXCEPT !.golden = golden]]
    BY <1>3 DEF Mark, MarkGolden
  <2> DEFINE n == Len(events)
             new == [events[i] EXCEPT !.golden = golden]
  <2>2. /\ DOMAIN new = DOMAIN events[i] /\ new.mode = events[i].mode /\ new.project = events[i].project
    BY <1>1
  <2> HIDE DEF new
  <2>3. n \in Nat /\ events = [j \in 1..n |-> events[j]] /\ i \in 1..n /\ DOMAIN events = 1..n
    BY Finite DEF IInv, RowsInv, IsSequence
  <2>4. events' = [j \in 1..n |-> IF j = i THEN new ELSE events[j]]
    BY <2>1, <2>3 DEF new
  <2>5. IsSequence(events') /\ Len(events') = n
    <3> DEFINE S == {events[j] : j \in 1..n} \cup {new}
    <3>1. events' \in [1..n -> S]
      BY <2>4
    <3>2. events' \in Seq(S) /\ DOMAIN events' = 1..n
      BY <2>3, <3>1
    <3>3. Len(events') = n
      BY <2>3, <3>2
    <3> QED
      BY <2>3, <3>1, <3>3 DEF IsSequence
  <2>6. UNCHANGED <<cause, handlers, peak>>
    BY <1>3 DEF Mark
  <2>7. RowsInv'
    BY <2>2, <2>3, <2>4, <2>5, <2>6 DEF IInv, RowsInv
  <2>8. Forwarded' = Forwarded /\ Admitted' = Admitted /\ HandlersInv'
    BY <2>2, <2>3, <2>4, <2>6 DEF IInv, HandlersInv, Forwarded, Admitted
  <2> QED
    BY <2>6, <2>7, <2>8, Leaving DEF IInv, QuotaInv
<1> QED
  BY <1>2, <1>3

-----------------------------------------------------------------------------
(* The theorems *)

\* Nothing is counted in the initial state.
LEMMA InitInv == Init => IInv
<1> SUFFICES ASSUME Init PROVE IInv
  OBVIOUS
<1>1. events = <<>> /\ cause = <<>> /\ handlers = <<>> /\ peak = 0
  BY DEF Init
<1>2. IsSequence(<<>>) /\ Len(<<>>) = 0
  BY DEF IsSequence
<1>3. RowsInv /\ HandlersInv
  BY <1>1, <1>2 DEF RowsInv, HandlersInv
<1>4. Forwarded = {} /\ Admitted = {}
  BY <1>1, <1>2, <1>3, Finite DEF Forwarded, Admitted
<1> QED
  BY <1>1, <1>3, <1>4, FS_EmptySet, QuotaBound DEF IInv, QuotaInv, OverrunIsBounded

\* IInv is inductive.
LEMMA NextInv == IInv /\ [Next]_vars => IInv'
<1> SUFFICES ASSUME IInv, [Next]_vars PROVE IInv'
  OBVIOUS
<1>1. CASE UNCHANGED vars
  BY <1>1, Untouched DEF vars
<1> QED
  BY <1>1, CallStepInv, HandlerStepInv, FinishInv, OperatorInv DEF Next

\* The proxy's quota is overrun by no more than the threads that were past it
\* together, for any callers, providers, workloads and quota, whoever fails or
\* gives up: the quota counts before it forwards and records after it
\* (control/proxy.py), and every row takes the place of one such thread.
THEOREM QuotaOverrun == Spec => []OverrunIsBounded
<1>1. IInv => OverrunIsBounded
  BY DEF IInv, QuotaInv
<1> QED
  BY <1>1, InitInv, NextInv, PTL DEF Spec

-----------------------------------------------------------------------------

(***************************************************************************)
(* The shapes of the state: tables and logs are sequences, rows, calls,    *)
(* threads and results have their fields.                                  *)
(***************************************************************************)
ResultFields  == {"ok", "error", "status", "unmapped", "known", "reference", "credential", "contact"}
CallFields    == {"pc", "options", "ranked", "policy", "decision", "phase", "turn", "result",
                  "handler", "tries", "ok"}
HandlerFields == {"pc", "caller", "decision", "provider", "as", "credential", "key", "twice",
                  "slots", "result", "source"}

TablesInv ==
  /\ IsSequence(events) /\ IsSequence(cause) /\ Len(cause) = Len(events)
  /\ IsSequence(contacts) /\ IsSequence(decisions)
  /\ \A e \in 1..Len(events) : DOMAIN events[e] = DOMAIN NoEvent

ThreadsInv ==
  /\ IsSequence(handlers)
  /\ \A h \in 1..Len(handlers) : /\ DOMAIN handlers[h] = HandlerFields
                                 /\ DOMAIN handlers[h].result = ResultFields
                                 /\ handlers[h].source # <<>> => DOMAIN handlers[h].source[1] = DOMAIN NoEvent

CallsInv ==
  /\ DOMAIN call = Callers
  /\ \A c \in Callers : /\ DOMAIN call[c] = CallFields /\ DOMAIN call[c].result = ResultFields
                        /\ IsSequence(call[c].tries)
                        /\ call[c].pc = "waiting" => call[c].handler \in 1..Len(handlers)

ShapeInv == TablesInv /\ ThreadsInv /\ CallsInv

(***************************************************************************)
(* Who accounts for a contact: the thread or the caller that has its       *)
(* answer, then the row.                                                   *)
(***************************************************************************)
\* A row is of the contact it accounts for, and only a contact makes a success.
RowsAgree ==
  \A e \in 1..Len(events) :
    /\ cause[e] \in 0..Len(contacts)
    /\ events[e].success => cause[e] # 0
    /\ cause[e] # 0 => RowIsOf(events[e], contacts[cause[e]])

\* Two rows of a contact are the proxy's and a caller's, or a replay's, that
\* went through the proxy unawares.
RowsApart ==
  \A e, f \in 1..Len(events) : e # f /\ cause[e] = cause[f] /\ cause[e] # 0 =>
    /\ contacts[cause[e]].twice
    /\ events[e].mode = "proxy" <=> events[f].mode # "proxy"

HasRow(made, i)           == \E e \in 1..Len(made) : made[e] = i
ProxysOnly(rows, made, i) == \A e \in 1..Len(made) : made[e] = i => rows[e].mode = "proxy"

\* What a result says of its contact.
Answers(reached, r, p, decision) ==
  /\ r.contact \in 0..Len(reached)
  /\ r.ok => r.contact # 0 /\ reached[r.contact].ok
  /\ r.contact # 0 => reached[r.contact].provider = p /\ reached[r.contact].decision = decision

\* A thread's contact goes by the names the thread was told, has a row as soon
\* as the thread has answered, and not before; no other thread has it. While a
\* replay waits for the thread, the row it will leave is of the contact, and
\* the proxy's is the only one.
ThreadAccounts(h, rows, made, reached, threads) ==
  LET m == threads[h]
      i == m.result.contact
  IN  /\ Answers(reached, m.result, m.provider, m.decision)
      /\ i # 0 => /\ reached[i].twice = m.twice /\ reached[i].as = m.as
                  /\ m.pc = "forwarded" => ~HasRow(made, i)
                  /\ m.pc = "answered" => HasRow(made, i)
                  /\ \A g \in 1..Len(threads) : threads[g].result.contact = i => g = h
      /\ m.source # <<>> =>
           /\ m.caller = Operator /\ m.twice
           /\ m.source[1].provider = m.provider /\ m.source[1].decision = m.decision
           /\ i # 0 => ProxysOnly(rows, made, i)

ThreadsAccount == \A h \in 1..Len(handlers) : ThreadAccounts(h, events, cause, contacts, handlers)

\* Whether the caller records its attempt.
Records(k) == IsSdk(k.options) \/ (k.options.proxyUrl # "url" /\ k.result.known)

\* A caller that has an answer has not recorded it, but the proxy may have: a
\* second row is one that the contact has room for, and there is one already
\* if the caller leaves it to the proxy.
CallAccounts(c, rows, made, reached, calls, threads) ==
  LET k == calls[c]
      i == k.result.contact
  IN  k.pc = "called" =>
        /\ Answers(reached, k.result, Current(k), k.decision)
        /\ i # 0 => /\ ProxysOnly(rows, made, i)
                    /\ IF Records(k) THEN HasRow(made, i) => reached[i].twice ELSE HasRow(made, i)
                    /\ \A d \in Callers : calls[d].pc = "called" /\ calls[d].result.contact = i => d = c
                    /\ \A h \in 1..Len(threads) : threads[h].result.contact = i =>
                         threads[h].pc = "answered" /\ threads[h].caller = c

\* The thread a caller waits for works for nobody else.
WaitAccounts(c, rows, made, calls, threads) ==
  LET k == calls[c]
      m == threads[k.handler]
  IN  k.pc = "waiting" =>
        /\ k.handler \in 1..Len(threads) /\ ~IsSdk(k.options)
        /\ m.caller = c /\ m.provider = Current(k) /\ m.decision = k.decision
        /\ m.twice = (k.options.proxyUrl # "url")
        /\ m.result.contact # 0 => ProxysOnly(rows, made, m.result.contact)

\* A contact that a call knows of and is done with has a row.
TriesAccount(c, made, calls) ==
  \A j \in 1..Len(calls[c].tries) : calls[c].tries[j].contact # 0 => HasRow(made, calls[c].tries[j].contact)

CallsAccount == \A c \in Callers : /\ CallAccounts(c, events, cause, contacts, call, handlers)
                                   /\ WaitAccounts(c, events, cause, call, handlers)
                                   /\ TriesAccount(c, cause, call)

EffectsInv == RowsAgree /\ RowsApart /\ ThreadsAccount /\ CallsAccount

-----------------------------------------------------------------------------
(* The operators *)

\* A result has its fields.
LEMMA ResultShape ==
  /\ \A ok, error, status : DOMAIN Result(ok, error, status) = ResultFields
  /\ \A error : DOMAIN Failure(error) = ResultFields /\ ~Failure(error).ok /\ Failure(error).contact = 0
  /\ DOMAIN NoResult = ResultFields /\ NoResult.contact = 0
BY DEF Result, Failure, NoResult, ResultFields

\* What a client or an adapter makes of an outcome is a success only if the
\* provider answered with one, and is then a result with a method and a path.
LEMMA OutcomeResult ==
  ASSUME NEW outcome, NEW r, r = HttpResult(outcome) \/ r = AdapterResult(outcome)
  PROVE  DOMAIN r = ResultFields /\ r.known /\ (r.ok => outcome.ok)
<1>1. \A ok, error, status : /\ DOMAIN Result(ok, error, status) = ResultFields
                             /\ Result(ok, error, status).known /\ Result(ok, error, status).ok = ok
  BY DEF Result, ResultFields
<1>2. \A error : DOMAIN Failure(error) = ResultFields /\ Failure(error).known /\ Failure(error).ok = FALSE
  BY <1>1 DEF Failure
<1>3. CASE r = HttpResult(outcome)
  <2> DEFINE base == Result(TRUE, NoError, outcome.status)
             answer == [base EXCEPT !.unmapped = outcome.unmapped]
  <2>1. DOMAIN base = ResultFields /\ base.known
    BY <1>1
  <2> HIDE DEF base
  <2>2. DOMAIN answer = ResultFields /\ answer.known
    BY <2>1 DEF ResultFields
  <2>3. r = IF outcome.ok THEN answer
            ELSE IF outcome.status # NoStatus THEN Result(FALSE, "http_status", outcome.status)
            ELSE Failure("http_error")
    BY <1>3 DEF HttpResult, base
  <2> HIDE DEF answer
  <2> QED
    BY <1>1, <1>2, <2>2, <2>3
<1>4. CASE r = AdapterResult(outcome)
  BY <1>1, <1>2, <1>4 DEF AdapterResult
<1> QED
  BY <1>3, <1>4

\* The columns of a row that an attempt leaves.
LEMMA RowShape ==
  ASSUME NEW d, NEW mode, NEW p, NEW r, NEW params
  PROVE  LET e == Row(d, mode, p, r, params)
         IN  /\ DOMAIN e = DOMAIN NoEvent /\ {"status", "cost", "runtime"} \subseteq DOMAIN NoEvent
             /\ e.mode = mode /\ e.decision = d /\ e.provider = p /\ e.success = r.ok
             /\ e.project = Project /\ e.capability = Capability
<1>1. DOMAIN NoEvent = {"decision", "mode", "project", "capability", "provider", "tool", "method", "status",
                        "success", "latency", "cost", "error", "region", "metadata", "reference",
                        "runtime", "golden"}
  BY DEF NoEvent
<1> QED
  BY <1>1, Zenon DEF Row

\* One call more is what it is set to, and every other call stays.
LEMMA CallSet ==
  ASSUME CallsInv, NEW c \in Callers, NEW new, Set(c, new)
  PROVE  /\ DOMAIN call' = Callers /\ call'[c] = new
         /\ \A d \in Callers : d # c => call'[d] = call[d]
BY DEF CallsInv, Set

\* And one thread.
LEMMA ThreadSet ==
  ASSUME ThreadsInv, NEW h \in DOMAIN handlers, NEW m, SetHandler(h, m)
  PROVE  /\ IsSequence(handlers') /\ Len(handlers') = Len(handlers) /\ h \in 1..Len(handlers)
         /\ handlers'[h] = m /\ \A g \in 1..Len(handlers) : g # h => handlers'[g] = handlers[g]
<1> DEFINE n == Len(handlers)
<1>1. n \in Nat /\ handlers = [i \in 1..n |-> handlers[i]] /\ DOMAIN handlers = 1..n
  BY DEF ThreadsInv, IsSequence
<1>2. handlers' = [i \in 1..n |-> IF i = h THEN m ELSE handlers[i]] /\ h \in 1..n
  BY <1>1 DEF SetHandler
<1> DEFINE S == {handlers[i] : i \in 1..n} \cup {m}
<1>3. handlers' \in [1..n -> S]
  BY <1>2
<1>4. handlers' \in Seq(S) /\ DOMAIN handlers' = 1..n
  BY <1>1, <1>3
<1>5. Len(handlers') = n
  BY <1>1, <1>4
<1> QED
  BY <1>1, <1>2, <1>3, <1>5 DEF IsSequence

\* What a step that only moves a call on leaves alone.
Kept(k, new) ==
  /\ DOMAIN new = CallFields
  /\ new.options = k.options /\ new.ranked = k.ranked /\ new.policy = k.policy
  /\ new.decision = k.decision /\ new.phase = k.phase /\ new.turn = k.turn /\ new.tries = k.tries

-----------------------------------------------------------------------------
(* The steps of a call, with what the argument needs of them *)

\* What a tool is stopped by, or how it is sent.
LEMMA SentBy ==
  ASSUME NEW package, NEW p, NEW params, NEW environ, NEW proxyUrl, NEW baseUrl, NEW injection
  PROVE  LET sent == ExecuteTool(package, p, Project, params, environ, proxyUrl, baseUrl, injection)
         IN  /\ sent.kind = "http" => proxyUrl # "url"
             /\ sent.kind = "proxy" => sent.credential = ProxyCredential(package, p, Project)
BY DEF ExecuteTool, Stops

\* Before anything is sent there is only a failure to report, and what
\* the proxy is not asked for is sent from here.
LEMMA Prepared ==
  ASSUME NEW o, NEW p
  PROVE  LET ready == Prepare(o, p)
         IN  /\ DOMAIN ready.result = ResultFields /\ ready.result.contact = 0 /\ ~ready.result.ok
             /\ ready.sent.kind = "http" => o.proxyUrl # "url"
             /\ ready.sent.kind = "proxy" => ready.sent.credential = ProxyCredential(Package[p], p, Project)
<1> DEFINE Failed(error, known, reference, credential) ==
             [Failure(error) EXCEPT !.known = known, !.reference = reference, !.credential = credential]
           verdict == Resolve(<<>>, RequestFor(Project, Capability, p, Tool(p), CredentialDefinitionOf(p)), Environ)
           tool == ExecuteTool(Package[p], p, Project, o.params, Environ, ProxyUrl(o), o.baseUrl,
                               Injecting(verdict.patch))
<1>1. \A error, known, reference, credential :
        LET r == Failed(error, known, reference, credential)
        IN  DOMAIN r = ResultFields /\ r.contact = 0 /\ ~r.ok
  <2> TAKE error, known, reference, credential
  <2> DEFINE f == Failure(error)
  <2>1. DOMAIN f = ResultFields /\ f.contact = 0 /\ ~f.ok
    BY ResultShape
  <2> HIDE DEF f
  <2>2. LET r == [f EXCEPT !.known = known, !.reference = reference, !.credential = credential]
        IN  DOMAIN r = ResultFields /\ r.contact = 0 /\ ~r.ok
    BY <2>1 DEF ResultFields
  <2> QED
    BY <2>2 DEF f
<1>2. /\ tool.kind = "http" => o.proxyUrl # "url"
      /\ tool.kind = "proxy" => tool.credential = ProxyCredential(Package[p], p, Project)
  BY SentBy DEF ProxyUrl
<1> HIDE DEF Failed, tool
<1>3. Prepare(o, p) =
        IF p \in PackageErrors
          THEN [sent |-> Stops(Package[p].problem), result |-> Failed(Package[p].problem, FALSE, <<>>, NoCredential)]
        ELSE IF ~verdict.resolved
          THEN [sent |-> Stops(verdict.error),
                result |-> Failed(verdict.error, Package[p].tool.known, verdict.reference, verdict.metadata)]
        ELSE [sent |-> tool,
              result |-> Failed(tool.error, Package[p].tool.known, verdict.reference, verdict.metadata)]
  BY DEF Prepare, Failed, tool
<1> HIDE DEF verdict
<1>4. \A error : Stops(error).kind = "error"
  BY DEF Stops
<1> DEFINE ready == Prepare(o, p)
<1>5. PICK sent, error, known, reference, credential :
        /\ ready = [sent |-> sent, result |-> Failed(error, known, reference, credential)]
        /\ sent = tool \/ sent.kind = "error"
  BY <1>3, <1>4
<1>6. ready.sent = sent /\ ready.result = Failed(error, known, reference, credential)
  BY <1>5
<1> HIDE DEF ready
<1>7. /\ ready.sent.kind = "http" => o.proxyUrl # "url"
      /\ ready.sent.kind = "proxy" => ready.sent.credential = ProxyCredential(Package[p], p, Project)
  BY <1>2, <1>5, <1>6
<1>8. DOMAIN ready.result = ResultFields /\ ready.result.contact = 0 /\ ~ready.result.ok
  BY <1>1, <1>6
<1> QED
  BY <1>7, <1>8 DEF ready

\* A call in this process, by the runner or an adapter: it fails before it
\* reaches the provider, or reaches it once.
LEMMA TriedHere ==
  ASSUME ShapeInv, NEW c \in Callers, AttemptHere(c) \/ AttemptByAdapter(c)
  PROVE  \E r, new :
           /\ call[c].pc = "attempt" /\ Set(c, new) /\ Kept(call[c], new)
           /\ new.pc = "called" /\ new.result = r /\ DOMAIN r = ResultFields
           /\ UNCHANGED <<events, decisions, handlers, cause>>
           /\ \/ r.contact = 0 /\ ~r.ok /\ UNCHANGED contacts
              \/ \E slots, outcome :
                   /\ Reaches(call[c].decision, Current(call[c]), CallNames(call[c].decision, Current(call[c])),
                              "direct", slots, outcome, FALSE)
                   /\ r.contact = Len(contacts) + 1 /\ (r.ok => outcome.ok) /\ Records(new)
                   /\ \/ IsSdk(call[c].options)
                      \/ /\ Prepare(call[c].options, Current(call[c])).sent.kind = "http"
                         /\ slots = Prepare(call[c].options, Current(call[c])).sent.slots
<1> DEFINE k == call[c]
           p == Current(k)
<1>1. DOMAIN k = CallFields
  BY DEF ShapeInv, CallsInv
<1>2. \A d, q, as, slots, outcome, twice :
        Reaches(d, q, as, "direct", slots, outcome, twice) => Len(contacts') = Len(contacts) + 1
  BY Appended DEF Reaches, ShapeInv, TablesInv
<1>3. ASSUME NEW r, DOMAIN r = ResultFields, Set(c, [k EXCEPT !.pc = "called", !.result = r])
      PROVE  \E new : /\ Set(c, new) /\ Kept(k, new) /\ new.pc = "called" /\ new.result = r
                      /\ Records(new) <=> (IsSdk(k.options) \/ (k.options.proxyUrl # "url" /\ r.known))
  <2> HIDE DEF k
  <2> DEFINE new == [k EXCEPT !.pc = "called", !.result = r]
  <2>1. Kept(k, new) /\ new.pc = "called" /\ new.result = r
    BY <1>1 DEF Kept, CallFields
  <2>2. Set(c, new)
    BY <1>3
  <2> HIDE DEF new
  <2>3. Records(new) <=> (IsSdk(k.options) \/ (k.options.proxyUrl # "url" /\ r.known))
    <3>1. new.options = k.options /\ new.result = r
      BY <2>1 DEF Kept
    <3> QED
      BY <3>1 DEF Records
  <2> QED
    BY <2>1, <2>2, <2>3
<1>4. CASE AttemptHere(c)
  <2> DEFINE ready == Prepare(k.options, p)
  <2>1. DOMAIN ready.result = ResultFields /\ ready.result.contact = 0 /\ ~ready.result.ok
    BY Prepared
  <2>2. k.pc = "attempt" /\ UNCHANGED <<events, decisions, handlers, cause>>
    BY <1>4 DEF AttemptHere, Is
  <2>3. CASE ready.sent.kind = "error" /\ UNCHANGED contacts /\ Set(c, [k EXCEPT !.pc = "called", !.result = ready.result])
    <3> HIDE DEF k, ready
    <3> QED
      BY <1>3, <2>1, <2>2, <2>3 DEF k
  <2>4. CASE /\ ready.sent.kind = "http"
             /\ \E outcome \in Outcomes[p] :
                  /\ Reaches(k.decision, p, CallNames(k.decision, p), "direct", ready.sent.slots, outcome, FALSE)
                  /\ Set(c, [k EXCEPT !.pc = "called",
                               !.result = [HttpResult(outcome) EXCEPT !.contact = Len(contacts'),
                                             !.reference = ready.result.reference,
                                             !.credential = ready.result.credential]])
    <3>1. PICK outcome \in Outcomes[p] :
             /\ Reaches(k.decision, p, CallNames(k.decision, p), "direct", ready.sent.slots, outcome, FALSE)
             /\ Set(c, [k EXCEPT !.pc = "called",
                          !.result = [HttpResult(outcome) EXCEPT !.contact = Len(contacts'),
                                        !.reference = ready.result.reference,
                                        !.credential = ready.result.credential]])
      BY <2>4
    <3> DEFINE base == HttpResult(outcome)
    <3>2. DOMAIN base = ResultFields /\ base.known /\ (base.ok => outcome.ok)
      BY OutcomeResult
    <3>3. Len(contacts') = Len(contacts) + 1 /\ k.options.proxyUrl # "url"
      BY <1>2, <2>4, <3>1, Prepared
    <3> DEFINE r == [base EXCEPT !.contact = Len(contacts'), !.reference = ready.result.reference,
                                 !.credential = ready.result.credential]
    <3>4. Set(c, [k EXCEPT !.pc = "called", !.result = r])
      BY <3>1
    <3> HIDE DEF base, k, ready
    <3>5. DOMAIN r = ResultFields /\ r.contact = Len(contacts) + 1 /\ (r.ok => outcome.ok) /\ r.known
      BY <3>2, <3>3 DEF ResultFields
    <3> HIDE DEF r
    <3>6. PICK new : /\ Set(c, new) /\ Kept(k, new) /\ new.pc = "called" /\ new.result = r /\ Records(new)
      BY <1>3, <3>3, <3>4, <3>5
    <3> QED
      BY <2>2, <2>4, <3>1, <3>5, <3>6 DEF k, ready
  <2> QED
    BY <1>4, <2>3, <2>4 DEF AttemptHere
<1>5. CASE AttemptByAdapter(c)
  <2>1. k.pc = "attempt" /\ UNCHANGED <<events, decisions, handlers, cause>> /\ IsSdk(k.options)
    BY <1>5 DEF AttemptByAdapter, Is
  <2>2. CASE /\ UNCHANGED contacts
             /\ Set(c, [k EXCEPT !.pc = "called", !.result = [Failure("INVALID_REQUEST") EXCEPT !.reference = <<>>]])
    <3> DEFINE base == Failure("INVALID_REQUEST")
               r == [base EXCEPT !.reference = <<>>]
    <3>1. DOMAIN base = ResultFields /\ ~base.ok /\ base.contact = 0
      BY ResultShape
    <3>2. Set(c, [k EXCEPT !.pc = "called", !.result = r])
      BY <2>2
    <3> HIDE DEF base, k
    <3>3. DOMAIN r = ResultFields /\ r.contact = 0 /\ ~r.ok
      BY <3>1 DEF ResultFields
    <3> HIDE DEF r
    <3> QED
      BY <1>3, <2>1, <2>2, <3>2, <3>3 DEF k
  <2>3. CASE \E outcome \in Outcomes[p] :
               /\ Reaches(k.decision, p, CallNames(k.decision, p), "direct", {}, outcome, FALSE)
               /\ Set(c, [k EXCEPT !.pc = "called",
                            !.result = [[AdapterResult(outcome) EXCEPT !.contact = Len(contacts')] EXCEPT !.reference = <<>>]])
    <3>1. PICK outcome \in Outcomes[p] :
            /\ Reaches(k.decision, p, CallNames(k.decision, p), "direct", {}, outcome, FALSE)
            /\ Set(c, [k EXCEPT !.pc = "called",
                         !.result = [[AdapterResult(outcome) EXCEPT !.contact = Len(contacts')] EXCEPT !.reference = <<>>]])
      BY <2>3
    <3> DEFINE base == AdapterResult(outcome)
    <3>2. DOMAIN base = ResultFields /\ base.known /\ (base.ok => outcome.ok)
      BY OutcomeResult
    <3>3. Len(contacts') = Len(contacts) + 1
      BY <1>2, <3>1
    <3> DEFINE r == [[base EXCEPT !.contact = Len(contacts')] EXCEPT !.reference = <<>>]
    <3>4. Set(c, [k EXCEPT !.pc = "called", !.result = r])
      BY <3>1
    <3> HIDE DEF base, k
    <3>5. DOMAIN r = ResultFields /\ r.contact = Len(contacts) + 1 /\ (r.ok => outcome.ok)
      BY <3>2, <3>3 DEF ResultFields
    <3> HIDE DEF r
    <3>6. PICK new : /\ Set(c, new) /\ Kept(k, new) /\ new.pc = "called" /\ new.result = r /\ Records(new)
      BY <1>3, <2>1, <3>4, <3>5
    <3> QED
      BY <2>1, <3>1, <3>5, <3>6 DEF k
  <2> QED
    BY <1>5, <2>2, <2>3 DEF AttemptByAdapter
<1> QED
  BY <1>4, <1>5

\* A call handed to a new thread of the proxy.
LEMMA HandedOver ==
  ASSUME ShapeInv, NEW c \in Callers, AttemptByProxy(c)
  PROVE  \E m, new :
           /\ call[c].pc = "attempt" /\ ~IsSdk(call[c].options)
           /\ Set(c, new) /\ Kept(call[c], new)
           /\ new.pc = "waiting" /\ new.handler = Len(handlers) + 1 /\ DOMAIN new.result = ResultFields
           /\ handlers' = Append(handlers, m) /\ DOMAIN m = HandlerFields /\ m.pc = "received" /\ m.caller = c
           /\ m.decision = call[c].decision /\ m.provider = Current(call[c])
           /\ m.as = CallNames(call[c].decision, Current(call[c])) /\ m.source = <<>>
           /\ m.twice = (call[c].options.proxyUrl # "url") /\ m.result = NoResult
           /\ m.credential = ProxyCredential(Package[Current(call[c])], Current(call[c]), Project)
           /\ UNCHANGED <<events, decisions, contacts, cause>>
<1> DEFINE k == call[c]
           p == Current(k)
           ready == Prepare(k.options, p)
           m == [pc |-> "received", caller |-> c, decision |-> k.decision, provider |-> p,
                 as |-> CallNames(k.decision, p), credential |-> ready.sent.credential, key |-> k.options.key,
                 twice |-> k.options.proxyUrl # "url", slots |-> {}, result |-> NoResult, source |-> <<>>]
           r == ready.result
           new == [k EXCEPT !.pc = "waiting", !.handler = Len(handlers'), !.result = r]
<1>1. DOMAIN k = CallFields
  BY DEF ShapeInv, CallsInv
<1>2. /\ k.pc = "attempt" /\ ~IsSdk(k.options) /\ ready.sent.kind = "proxy"
      /\ handlers' = Append(handlers, m) /\ Set(c, new) /\ UNCHANGED <<events, decisions, contacts, cause>>
  BY DEF AttemptByProxy, Is
<1>3. DOMAIN r = ResultFields /\ ready.sent.credential = ProxyCredential(Package[p], p, Project)
  BY <1>2, Prepared
<1>4. Len(handlers') = Len(handlers) + 1
  BY <1>2, Appended DEF ShapeInv, ThreadsInv
<1> HIDE DEF k, ready
<1>5. /\ DOMAIN m = HandlerFields /\ m.pc = "received" /\ m.caller = c
      /\ m.decision = k.decision /\ m.provider = p /\ m.as = CallNames(k.decision, p) /\ m.source = <<>>
      /\ m.twice = (k.options.proxyUrl # "url") /\ m.result = NoResult
      /\ m.credential = ProxyCredential(Package[p], p, Project)
  BY <1>3 DEF HandlerFields
<1> HIDE DEF r, m
<1>6. Kept(k, new) /\ new.pc = "waiting" /\ new.handler = Len(handlers) + 1 /\ DOMAIN new.result = ResultFields
  BY <1>1, <1>3, <1>4 DEF Kept, CallFields
<1> HIDE DEF new
<1> QED
  BY <1>2, <1>5, <1>6 DEF k

\* A wait that ends, with what the thread answered or without a contact.
LEMMA Waited ==
  ASSUME ShapeInv, NEW c \in Callers, TakeAnswer(c) \/ GiveUp(c)
  PROVE  \E r, new :
           /\ call[c].pc = "waiting" /\ Set(c, new) /\ Kept(call[c], new)
           /\ new.pc = "called" /\ new.result = r /\ DOMAIN r = ResultFields
           /\ UNCHANGED <<events, decisions, handlers, contacts, cause>>
           /\ \/ r.contact = 0 /\ ~r.ok
              \/ /\ handlers[call[c].handler].pc = "answered"
                 /\ r.contact = handlers[call[c].handler].result.contact
                 /\ r.ok = handlers[call[c].handler].result.ok
<1> DEFINE k == call[c]
           answer == IF TakeAnswer(c) THEN handlers[k.handler].result ELSE Failure("proxy_error")
           r == [answer EXCEPT !.known = k.result.known, !.reference = k.result.reference,
                               !.credential = k.result.credential]
           new == [k EXCEPT !.pc = "called", !.result = r]
<1>1. DOMAIN k = CallFields /\ k.pc = "waiting" /\ k.handler \in 1..Len(handlers)
  BY DEF ShapeInv, CallsInv, TakeAnswer, GiveUp, Is
<1>2. /\ DOMAIN answer = ResultFields
      /\ \/ answer.contact = 0 /\ ~answer.ok
         \/ handlers[k.handler].pc = "answered" /\ answer = handlers[k.handler].result
  <2>1. DOMAIN Failure("proxy_error") = ResultFields /\ Failure("proxy_error").contact = 0 /\ ~Failure("proxy_error").ok
    BY ResultShape
  <2>2. DOMAIN handlers[k.handler].result = ResultFields
    BY <1>1 DEF ShapeInv, ThreadsInv
  <2>3. CASE TakeAnswer(c)
    <3>1. answer = handlers[k.handler].result
      BY <2>3
    <3>2. handlers[k.handler].pc = "answered"
      BY <2>3 DEF TakeAnswer
    <3> QED
      BY <2>2, <3>1, <3>2
  <2>4. CASE ~TakeAnswer(c)
    <3>1. answer = Failure("proxy_error")
      BY <2>4
    <3> QED
      BY <2>1, <3>1
  <2> QED
    BY <2>3, <2>4
<1>3. Set(c, new) /\ UNCHANGED <<events, decisions, handlers, contacts, cause>>
  <2>1. CASE TakeAnswer(c)
    BY <2>1 DEF TakeAnswer
  <2>2. CASE ~TakeAnswer(c)
    BY <2>2 DEF GiveUp
  <2> QED
    BY <2>1, <2>2
<1> HIDE DEF k, answer
<1>4. DOMAIN r = ResultFields /\ r.contact = answer.contact /\ r.ok = answer.ok
  BY <1>2 DEF ResultFields
<1> HIDE DEF r
<1>5. Kept(k, new) /\ new.pc = "called" /\ new.result = r
  BY <1>1 DEF Kept, CallFields
<1> HIDE DEF new
<1> QED
  BY <1>1, <1>2, <1>3, <1>4, <1>5 DEF k

\* A call that starts, records its decision, or dies.
LEMMA Moved ==
  ASSUME ShapeInv, NEW c \in Callers, Start(c) \/ RecordDecision(c) \/ Abort(c)
  PROVE  \E new :
           /\ Set(c, new) /\ DOMAIN new = CallFields /\ new.pc \notin {"waiting", "called"}
           /\ new.result = call[c].result /\ new.tries = call[c].tries /\ new.options = call[c].options
           /\ UNCHANGED <<events, handlers, contacts, cause>>
<1> DEFINE k == call[c]
<1>1. DOMAIN k = CallFields
  BY DEF ShapeInv, CallsInv
<1>2. UNCHANGED <<events, handlers, contacts, cause>>
  BY DEF Start, RecordDecision, Abort
<1>3. CASE Start(c)
  <2>1. \/ Set(c, [k EXCEPT !.pc = "refused"])
        \/ \E policy, ranked : Set(c, [k EXCEPT !.pc = "routed", !.policy = policy, !.ranked = ranked])
    BY <1>3 DEF Start
  <2> HIDE DEF k
  <2>2. CASE Set(c, [k EXCEPT !.pc = "refused"])
    <3> DEFINE new == [k EXCEPT !.pc = "refused"]
    <3>1. DOMAIN new = CallFields /\ new.pc = "refused" /\ new.result = k.result /\ new.tries = k.tries /\ new.options = k.options
      BY <1>1 DEF CallFields
    <3>2. Set(c, new)
      BY <2>2
    <3> HIDE DEF new
    <3> QED
      BY <1>2, <3>1, <3>2 DEF k
  <2>3. CASE \E policy, ranked : Set(c, [k EXCEPT !.pc = "routed", !.policy = policy, !.ranked = ranked])
    <3>1. PICK policy, ranked : Set(c, [k EXCEPT !.pc = "routed", !.policy = policy, !.ranked = ranked])
      BY <2>3
    <3> DEFINE new == [k EXCEPT !.pc = "routed", !.policy = policy, !.ranked = ranked]
    <3>2. DOMAIN new = CallFields /\ new.pc = "routed" /\ new.result = k.result /\ new.tries = k.tries /\ new.options = k.options
      BY <1>1 DEF CallFields
    <3>3. Set(c, new)
      BY <3>1
    <3> HIDE DEF new
    <3> QED
      BY <1>2, <3>2, <3>3 DEF k
  <2> QED
    BY <2>1, <2>2, <2>3
<1>4. CASE RecordDecision(c)
  <2>1. PICK pc : Set(c, [k EXCEPT !.pc = pc, !.decision = Len(decisions')]) /\ pc \in {"attempt", "raised", "done"}
    BY <1>4 DEF RecordDecision
  <2> HIDE DEF k
  <2> DEFINE new == [k EXCEPT !.pc = pc, !.decision = Len(decisions')]
  <2>2. DOMAIN new = CallFields /\ new.pc = pc /\ new.result = k.result /\ new.tries = k.tries /\ new.options = k.options
    BY <1>1 DEF CallFields
  <2>3. Set(c, new)
    BY <2>1
  <2> HIDE DEF new
  <2> QED
    BY <1>2, <2>1, <2>2, <2>3 DEF k
<1>5. CASE Abort(c)
  <2> DEFINE new == [k EXCEPT !.pc = "raised"]
  <2>1. Set(c, new)
    BY <1>5 DEF Abort
  <2> HIDE DEF k
  <2>2. DOMAIN new = CallFields /\ new.pc = "raised" /\ new.result = k.result /\ new.tries = k.tries /\ new.options = k.options
    BY <1>1 DEF CallFields
  <2> HIDE DEF new
  <2> QED
    BY <1>2, <2>1, <2>2 DEF k
<1> QED
  BY <1>3, <1>4, <1>5

\* The shadows that are left concern only where a call is.
LEMMA NextShadowKeeps ==
  ASSUME NEW k, DOMAIN k = CallFields, NEW from, NEW new, new = NextShadow(k, from)
  PROVE  /\ DOMAIN new = CallFields /\ new.pc \in {"attempt", "done", "raised"} /\ new.result = NoResult
         /\ new.options = k.options /\ new.ranked = k.ranked /\ new.policy = k.policy
         /\ new.decision = k.decision /\ new.tries = k.tries /\ new.phase = "shadow"
<1> DEFINE next == [k EXCEPT !.phase = "shadow", !.result = NoResult]
           left == {i \in from..Len(ShadowIds(k)) : MayShadow(k, ShadowIds(k)[i])}
           goes == IsSdk(k.options) /\ ShadowIds(k)[Min(left)] \notin Range(Adapters)
<1>1. /\ DOMAIN next = CallFields /\ next.result = NoResult /\ next.phase = "shadow"
      /\ next.options = k.options /\ next.ranked = k.ranked /\ next.policy = k.policy
      /\ next.decision = k.decision /\ next.tries = k.tries
  BY DEF CallFields
<1>2. new = IF left = {} THEN [next EXCEPT !.pc = "done", !.turn = 0]
            ELSE [next EXCEPT !.turn = Min(left), !.pc = IF goes THEN "raised" ELSE "attempt"]
  BY DEF NextShadow
<1> HIDE DEF next, left, goes
<1>3. PICK pc \in {"attempt", "done", "raised"} :
        \E turn : \/ new = [next EXCEPT !.pc = pc, !.turn = turn]
                 \/ new = [next EXCEPT !.turn = turn, !.pc = pc]
  BY <1>2
<1>4. ASSUME NEW turn, new = [next EXCEPT !.pc = pc, !.turn = turn]
      PROVE  /\ DOMAIN new = CallFields /\ new.pc = pc /\ new.result = NoResult /\ new.phase = "shadow"
             /\ new.options = k.options /\ new.ranked = k.ranked /\ new.policy = k.policy
             /\ new.decision = k.decision /\ new.tries = k.tries
  <2> DEFINE on == [next EXCEPT !.pc = pc, !.turn = turn]
  <2>1. /\ DOMAIN on = CallFields /\ on.pc = pc /\ on.result = NoResult /\ on.phase = "shadow"
        /\ on.options = k.options /\ on.ranked = k.ranked /\ on.policy = k.policy
        /\ on.decision = k.decision /\ on.tries = k.tries
    BY <1>1 DEF CallFields
  <2> QED
    BY <1>3, <1>4, <2>1
<1>5. ASSUME NEW turn, new = [next EXCEPT !.turn = turn, !.pc = pc]
      PROVE  /\ DOMAIN new = CallFields /\ new.pc = pc /\ new.result = NoResult /\ new.phase = "shadow"
             /\ new.options = k.options /\ new.ranked = k.ranked /\ new.policy = k.policy
             /\ new.decision = k.decision /\ new.tries = k.tries
  <2> DEFINE on == [next EXCEPT !.turn = turn, !.pc = pc]
  <2>1. /\ DOMAIN on = CallFields /\ on.pc = pc /\ on.result = NoResult /\ on.phase = "shadow"
        /\ on.options = k.options /\ on.ranked = k.ranked /\ on.policy = k.policy
        /\ on.decision = k.decision /\ on.tries = k.tries
    BY <1>1 DEF CallFields
  <2> QED
    BY <1>3, <1>5, <2>1
<1> QED
  BY <1>3, <1>4, <1>5

\* The call after an attempt of either phase.
Tried(k, p, r, again) ==
  IF k.phase = "main" THEN AfterAttempt(k, p, r, again) ELSE AfterShadow(k, p, r)

OneTryMore(k, new, p, contact, t) ==
  /\ DOMAIN new = CallFields /\ new.pc \in {"attempt", "done", "raised"} /\ new.result = NoResult
  /\ new.options = k.options /\ new.ranked = k.ranked /\ new.policy = k.policy
  /\ new.decision = k.decision /\ new.tries = Append(k.tries, t)
  /\ t.provider = p /\ t.contact = contact /\ t.main = (k.phase = "main")

\* After an attempt a call has one try more, no result, and goes on or has
\* ended.
LEMMA AfterTry ==
  ASSUME NEW k, DOMAIN k = CallFields, NEW p, NEW r, NEW again, NEW new,
         new = Tried(k, p, r, again)
  PROVE  \E t : OneTryMore(k, new, p, r.contact, t)
<1> USE DEF OneTryMore
<1>1. CASE k.phase = "main"
  <2> DEFINE t == [provider |-> p, ok |-> r.ok, again |-> again, main |-> TRUE, contact |-> r.contact]
             next == [k EXCEPT !.tries = Append(k.tries, t), !.ok = r.ok, !.result = NoResult]
             on == [next EXCEPT !.pc = "attempt", !.turn = next.turn + 1]
  <2>1. t.provider = p /\ t.contact = r.contact /\ t.main = TRUE
    OBVIOUS
  <2>2. new = IF ~r.ok /\ k.turn < Attempts(k) /\ again THEN on ELSE NextShadow(next, 1)
    BY <1>1 DEF Tried, AfterAttempt
  <2> HIDE DEF t
  <2>3. /\ DOMAIN next = CallFields /\ next.options = k.options /\ next.ranked = k.ranked /\ next.policy = k.policy
        /\ next.decision = k.decision /\ next.tries = Append(k.tries, t) /\ next.result = NoResult
    BY DEF CallFields
  <2> HIDE DEF next
  <2>4. /\ DOMAIN on = CallFields /\ on.pc = "attempt" /\ on.options = k.options /\ on.ranked = k.ranked
        /\ on.policy = k.policy /\ on.decision = k.decision /\ on.tries = Append(k.tries, t) /\ on.result = NoResult
    BY <2>3 DEF CallFields
  <2> HIDE DEF on
  <2>5. CASE new = on
    BY <1>1, <2>1, <2>4, <2>5
  <2>6. CASE new = NextShadow(next, 1)
    <3>1. /\ DOMAIN new = CallFields /\ new.pc \in {"attempt", "done", "raised"} /\ new.result = NoResult
          /\ new.options = next.options /\ new.ranked = next.ranked /\ new.policy = next.policy
          /\ new.decision = next.decision /\ new.tries = next.tries
      BY <2>3, <2>6, NextShadowKeeps
    <3> QED
      BY <1>1, <2>1, <2>3, <3>1
  <2> QED
    BY <2>2, <2>5, <2>6
<1>2. CASE k.phase # "main"
  <2> DEFINE t == [provider |-> p, ok |-> r.ok, again |-> TRUE, main |-> FALSE, contact |-> r.contact]
             next == [k EXCEPT !.tries = Append(k.tries, t)]
  <2>1. t.provider = p /\ t.contact = r.contact /\ t.main = FALSE
    OBVIOUS
  <2>2. new = NextShadow(next, k.turn + 1)
    BY <1>2 DEF Tried, AfterShadow
  <2> HIDE DEF t
  <2>3. /\ DOMAIN next = CallFields /\ next.options = k.options /\ next.ranked = k.ranked /\ next.policy = k.policy
        /\ next.decision = k.decision /\ next.tries = Append(k.tries, t)
    BY DEF CallFields
  <2> HIDE DEF next
  <2>4. /\ DOMAIN new = CallFields /\ new.pc \in {"attempt", "done", "raised"} /\ new.result = NoResult
        /\ new.options = next.options /\ new.ranked = next.ranked /\ new.policy = next.policy
        /\ new.decision = next.decision /\ new.tries = next.tries
    BY <2>2, <2>3, NextShadowKeeps
  <2> QED
    BY <1>2, <2>1, <2>3, <2>4
<1> QED
  BY <1>1, <1>2

\* A row of an attempt: who, for what, and whether it came to something.
RowOf(row, mode, decision, p, ok) ==
  /\ DOMAIN row = DOMAIN NoEvent /\ row.mode = mode /\ row.decision = decision /\ row.provider = p
  /\ row.success = ok

\* An attempt that is settled: its row, unless that is the proxy's, and the
\* call after it.
LEMMA Settled ==
  ASSUME ShapeInv, NEW c \in Callers, Settle(c) \/ SettleByAdapter(c)
  PROVE  LET k == call[c]
             p == Current(k)
             r == k.result
         IN  /\ k.pc = "called" /\ UNCHANGED <<decisions, handlers, contacts>>
             /\ IF Records(k)
                  THEN \E row, mode : /\ RecordRow(row, r.contact) /\ RowOf(row, mode, k.decision, p, r.ok)
                                      /\ mode \in {"direct", "shadow"}
                  ELSE UNCHANGED store
             /\ \E final, again :
                  /\ Set(c, Tried(k, p, final, again))
                  /\ final.contact = r.contact /\ (again => k.policy.enabled)
<1> DEFINE k == call[c]
           p == Current(k)
           r == k.result
           mode == IF k.phase = "main" THEN "direct" ELSE "shadow"
           base == Row(k.decision, mode, p, r, k.options.params)
<1>1. DOMAIN k = CallFields /\ DOMAIN r = ResultFields
  BY DEF ShapeInv, CallsInv
<1>2. k.pc = "called" /\ UNCHANGED <<decisions, handlers, contacts>>
  BY DEF Settle, SettleByAdapter, Is
<1>3. RowOf(base, mode, k.decision, p, r.ok) /\ {"cost", "runtime"} \subseteq DOMAIN NoEvent
  BY RowShape DEF RowOf
<1>4. mode \in {"direct", "shadow"}
  OBVIOUS
<1>5. CASE Settle(c)
  <2> DEFINE final == Normalized(p, r)
             after == IF k.phase = "main" THEN final ELSE r
  <2>1. ~IsSdk(k.options)
    BY <1>5 DEF Settle
  <2>2. IF k.options.proxyUrl # "url" /\ r.known
        THEN \E cost, runtime : RecordRow([base EXCEPT !.cost = cost, !.runtime = runtime], r.contact)
        ELSE UNCHANGED store
    BY <1>5 DEF Settle
  <2>3. Set(c, IF k.phase = "main" THEN AfterAttempt(k, p, final, ShouldFailover(final, k.policy))
               ELSE AfterShadow(k, p, r))
    BY <1>5 DEF Settle
  <2>4. ShouldFailover(final, k.policy) => k.policy.enabled
    BY DEF ShouldFailover
  <2>5. final.contact = r.contact
    <3>1. \A error : DOMAIN Failure(error) = ResultFields
      BY ResultShape
    <3> DEFINE f == Failure("output_normalization")
    <3>2. DOMAIN f = ResultFields
      BY <3>1
    <3>3. final = [f EXCEPT !.contact = r.contact] \/ final = r
      BY DEF Normalized
    <3> HIDE DEF f, final
    <3> QED
      BY <3>2, <3>3 DEF ResultFields
  <2> HIDE DEF final, base, mode, p, r, k
  <2>6. IF Records(k)
        THEN \E row, m : /\ RecordRow(row, r.contact) /\ RowOf(row, m, k.decision, p, r.ok) /\ m \in {"direct", "shadow"}
        ELSE UNCHANGED store
    <3>1. CASE k.options.proxyUrl # "url" /\ r.known
      <4>1. PICK cost, runtime : RecordRow([base EXCEPT !.cost = cost, !.runtime = runtime], r.contact)
        BY <2>2, <3>1
      <4> DEFINE row == [base EXCEPT !.cost = cost, !.runtime = runtime]
      <4>2. RowOf(row, mode, k.decision, p, r.ok)
        BY <1>3 DEF RowOf, NoEvent
      <4>3. RecordRow(row, r.contact)
        BY <4>1
      <4> HIDE DEF row
      <4>4. Records(k)
        BY <3>1 DEF Records, r
      <4> QED
        BY <1>4, <4>2, <4>3, <4>4
    <3>2. CASE ~(k.options.proxyUrl # "url" /\ r.known)
      <4>1. ~Records(k)
        BY <2>1, <3>2 DEF Records, r
      <4> QED
        BY <2>2, <3>2, <4>1
    <3> QED
      BY <3>1, <3>2
  <2>7. Set(c, IF k.phase = "main" THEN AfterAttempt(k, p, after, ShouldFailover(final, k.policy))
               ELSE AfterShadow(k, p, after))
    BY <2>3
  <2>8. after.contact = r.contact
    BY <2>5
  <2> HIDE DEF after
  <2>9. \E f, again : /\ Set(c, Tried(k, p, f, again))
                      /\ f.contact = r.contact /\ (again => k.policy.enabled)
    BY <2>4, <2>7, <2>8 DEF Tried
  <2> QED
    BY <1>2, <2>6, <2>9 DEF k, p, r
<1>6. CASE SettleByAdapter(c)
  <2> DEFINE again == ShouldFailoverAdapterResult(r, k.policy)
             row == [base EXCEPT !.runtime = "sdk"]
  <2>1. IsSdk(k.options)
    BY <1>6 DEF SettleByAdapter
  <2>2. RecordRow(row, r.contact)
    BY <1>6 DEF SettleByAdapter
  <2>3. Set(c, Tried(k, p, r, again))
    BY <1>6 DEF SettleByAdapter, Tried
  <2>4. again => k.policy.enabled
    BY DEF ShouldFailoverAdapterResult
  <2> HIDE DEF base, mode, p, r, k, again
  <2>5. RowOf(row, mode, k.decision, p, r.ok)
    BY <1>3 DEF RowOf, NoEvent
  <2> HIDE DEF row
  <2>6. Records(k)
    BY <2>1 DEF Records
  <2>7. \E w, m : RecordRow(w, r.contact) /\ RowOf(w, m, k.decision, p, r.ok) /\ m \in {"direct", "shadow"}
    BY <1>4, <2>2, <2>5
  <2>8. \E f, g : /\ Set(c, Tried(k, p, f, g))
                      /\ f.contact = r.contact /\ (g => k.policy.enabled)
    BY <2>3, <2>4
  <2> QED
    BY <1>2, <2>6, <2>7, <2>8 DEF k, p, r
<1> QED
  BY <1>5, <1>6

-----------------------------------------------------------------------------
(* The steps of a thread and of the operator *)

\* Whose a thread is, and for what.
Serves(m, new) ==
  /\ DOMAIN new = HandlerFields /\ DOMAIN new.result = ResultFields
  /\ new.caller = m.caller /\ new.decision = m.decision /\ new.provider = m.provider
  /\ new.twice = m.twice /\ new.credential = m.credential /\ new.as = m.as
  /\ new.source = m.source \/ new.source = <<>>

\* A thread that refuses, admits or dies has no new contact.
LEMMA ThreadMoves ==
  ASSUME ShapeInv, NEW h \in DOMAIN handlers, HandlerReject(h) \/ HandlerAdmit(h) \/ HandlerFails(h)
  PROVE  \E new :
           /\ SetHandler(h, new) /\ Serves(handlers[h], new)
           /\ UNCHANGED <<events, decisions, call, contacts, cause>>
           /\ \/ /\ handlers[h].pc = "received" /\ new.pc \in {"answered", "refuse", "deny", "forward"}
                 /\ new.result.contact = 0 /\ ~new.result.ok
              \/ handlers[h].pc # "answered" /\ new.pc = "lost" /\ new.result = handlers[h].result
<1> DEFINE m == handlers[h]
<1>1. DOMAIN m = HandlerFields /\ DOMAIN m.result = ResultFields
  BY DEF ShapeInv, ThreadsInv, IsSequence
<1>2. UNCHANGED <<events, decisions, call, contacts, cause>>
  BY DEF HandlerReject, HandlerAdmit, HandlerFails
<1>3. CASE HandlerReject(h)
  <2> DEFINE r == Failure("unauthorized")
             new == [m EXCEPT !.pc = "answered", !.result = r]
  <2>1. SetHandler(h, new) /\ m.pc = "received"
    BY <1>3 DEF HandlerReject, Answered, HandlerIs
  <2>2. DOMAIN r = ResultFields /\ r.contact = 0 /\ ~r.ok
    BY ResultShape
  <2> HIDE DEF r, m
  <2>3. Serves(m, new) /\ new.pc = "answered" /\ new.result = r
    BY <1>1, <2>2 DEF Serves, HandlerFields
  <2> HIDE DEF new
  <2> QED
    BY <1>2, <2>1, <2>2, <2>3 DEF m
<1>4. CASE HandlerAdmit(h)
  <2>1. PICK pc, error, slots, reference, credential :
          SetHandler(h, GoesOn(m, pc, error, slots, reference, credential)) /\ pc \in {"refuse", "deny", "forward"}
    BY <1>4 DEF HandlerAdmit
  <2>2. m.pc = "received"
    BY <1>4 DEF HandlerAdmit, HandlerIs
  <2> DEFINE f == Failure(error)
             r == [f EXCEPT !.reference = reference, !.credential = credential]
             new == [m EXCEPT !.pc = pc, !.slots = slots, !.result = r]
  <2>3. SetHandler(h, new)
    BY <2>1 DEF GoesOn
  <2>4. DOMAIN f = ResultFields /\ f.contact = 0 /\ ~f.ok
    BY ResultShape
  <2> HIDE DEF f, m
  <2>5. DOMAIN r = ResultFields /\ r.contact = 0 /\ ~r.ok
    BY <2>4 DEF ResultFields
  <2> HIDE DEF r
  <2>6. Serves(m, new) /\ new.pc = pc /\ new.result = r
    BY <1>1, <2>5 DEF Serves, HandlerFields
  <2> HIDE DEF new
  <2> QED
    BY <1>2, <2>1, <2>2, <2>3, <2>5, <2>6 DEF m
<1>5. CASE HandlerFails(h)
  <2> DEFINE new == [m EXCEPT !.pc = "lost"]
  <2>1. SetHandler(h, new) /\ m.pc # "answered"
    BY <1>5 DEF HandlerFails
  <2> HIDE DEF m
  <2>2. Serves(m, new) /\ new.pc = "lost" /\ new.result = m.result
    BY <1>1 DEF Serves, HandlerFields
  <2> HIDE DEF new
  <2> QED
    BY <1>2, <2>1, <2>2 DEF m
<1> QED
  BY <1>3, <1>4, <1>5

\* What a thread's contact is for.
ThreadEntry(m) == IF m.caller = Operator THEN "replay" ELSE "proxy"

\* A thread that forwards reaches its provider once.
LEMMA ThreadSends ==
  ASSUME ShapeInv, NEW h \in DOMAIN handlers, HandlerForward(h)
  PROVE  LET m == handlers[h]
         IN  \E outcome, new :
               /\ m.pc = "forward" /\ SetHandler(h, new) /\ Serves(m, new) /\ new.pc = "forwarded"
               /\ Reaches(m.decision, m.provider, m.as, ThreadEntry(m), m.slots, outcome, m.twice)
               /\ new.result.contact = Len(contacts) + 1 /\ (new.result.ok => outcome.ok)
               /\ UNCHANGED <<events, decisions, call, cause>>
<1> DEFINE m == handlers[h]
<1>1. DOMAIN m = HandlerFields /\ DOMAIN m.result = ResultFields
  BY DEF ShapeInv, ThreadsInv, IsSequence
<1>2. PICK outcome \in Outcomes[m.provider] :
        /\ Reaches(m.decision, m.provider, m.as, ThreadEntry(m), m.slots, outcome, m.twice)
        /\ SetHandler(h, [m EXCEPT !.pc = "forwarded",
                            !.result = [HttpResult(outcome) EXCEPT !.contact = Len(contacts'),
                                          !.reference = m.result.reference,
                                          !.credential = m.result.credential]])
  BY DEF HandlerForward, ThreadEntry
<1>3. m.pc = "forward" /\ UNCHANGED <<events, decisions, call, cause>>
  BY DEF HandlerForward, HandlerIs
<1>4. Len(contacts') = Len(contacts) + 1
  BY <1>2, Appended DEF Reaches, ShapeInv, TablesInv
<1> DEFINE base == HttpResult(outcome)
           r == [base EXCEPT !.contact = Len(contacts'), !.reference = m.result.reference,
                             !.credential = m.result.credential]
           new == [m EXCEPT !.pc = "forwarded", !.result = r]
<1>5. DOMAIN base = ResultFields /\ (base.ok => outcome.ok)
  BY OutcomeResult
<1>6. SetHandler(h, new)
  BY <1>2
<1> HIDE DEF base, m
<1>7. DOMAIN r = ResultFields /\ r.contact = Len(contacts) + 1 /\ (r.ok => outcome.ok)
  BY <1>4, <1>5 DEF ResultFields
<1> HIDE DEF r
<1>8. Serves(m, new) /\ new.pc = "forwarded" /\ new.result = r
  BY <1>1, <1>7 DEF Serves, HandlerFields
<1> HIDE DEF new
<1> QED
  BY <1>2, <1>3, <1>6, <1>7, <1>8 DEF m

\* A thread that records and answers.
LEMMA ThreadRecords ==
  ASSUME ShapeInv, NEW h \in DOMAIN handlers, HandlerRecord(h)
  PROVE  LET m == handlers[h]
         IN  \E row, new :
               /\ m.pc \in {"refuse", "deny", "forwarded"}
               /\ SetHandler(h, new) /\ Serves(m, new) /\ new.pc = "answered" /\ new.result = m.result
               /\ RecordRow(row, m.result.contact) /\ RowOf(row, "proxy", m.as.decision, m.as.provider, m.result.ok)
               /\ UNCHANGED <<decisions, call, contacts>>
<1> DEFINE m == handlers[h]
           r == m.result
           base == Row(m.as.decision, "proxy", m.provider, r, {})
<1>1. DOMAIN m = HandlerFields /\ DOMAIN r = ResultFields
  BY DEF ShapeInv, ThreadsInv, IsSequence
<1> DEFINE status == IF m.pc = "refuse" THEN 429 ELSE IF m.pc = "deny" THEN 401 ELSE r.status
           cost == IF m.pc = "forwarded" /\ r.error # "http_error" /\ m.caller # Operator
                   THEN CandidateOf(m.provider).cost.n ELSE 0
<1>2. RecordRow([base EXCEPT !.capability = m.as.capability, !.provider = m.as.provider,
                             !.status = status, !.cost = cost, !.runtime = "proxy:http"], r.contact)
  BY DEF HandlerRecord
<1> HIDE DEF status, cost
<1>3. m.pc \in {"refuse", "deny", "forwarded"} /\ UNCHANGED <<decisions, call, contacts>>
  BY Zenon DEF HandlerRecord
<1> DEFINE row == [base EXCEPT !.capability = m.as.capability, !.provider = m.as.provider,
                               !.status = status, !.cost = cost, !.runtime = "proxy:http"]
           new == [m EXCEPT !.pc = "answered", !.result = r]
<1>4. SetHandler(h, new)
  BY DEF HandlerRecord, Answered
<1>5. RowOf(base, "proxy", m.as.decision, m.provider, r.ok)
  BY RowShape DEF RowOf
<1> HIDE DEF base, m, r
<1>6. RowOf(row, "proxy", m.as.decision, m.as.provider, r.ok)
  BY <1>5 DEF RowOf, NoEvent
<1>7. RecordRow(row, r.contact)
  BY <1>2
<1>8. Serves(m, new) /\ new.pc = "answered" /\ new.result = r
  BY <1>1 DEF Serves, HandlerFields, r
<1> HIDE DEF row, new
<1> QED
  BY <1>3, <1>4, <1>6, <1>7, <1>8 DEF m, r

\* A replay that does not wait for the proxy is a contact of its own, or none,
\* and at most one row of it.
RepliedHere(e, r) ==
  /\ \/ r.contact = 0 /\ ~r.ok /\ UNCHANGED contacts
     \/ \E slots, outcome :
          /\ Reaches(e.decision, e.provider, CallNames(e.decision, e.provider), "replay", slots, outcome, FALSE)
          /\ r.contact = Len(contacts) + 1 /\ (r.ok => outcome.ok)
  /\ \/ UNCHANGED store
     \/ RecordRow(ReplayRow(e, r), r.contact)

\* One that does is a new thread of the proxy, which has the row.
HandedBack(e, m) ==
  /\ handlers' = Append(handlers, m) /\ DOMAIN m = HandlerFields /\ m.pc = "received" /\ m.caller = Operator
  /\ m.decision = e.decision /\ m.provider = e.provider /\ m.as = OwnNames(e.provider)
  /\ m.twice = TRUE /\ m.result = NoResult /\ m.source = <<e>>
  /\ UNCHANGED <<events, cause, contacts>>

LEMMA Replayed ==
  ASSUME ShapeInv, NEW i \in DOMAIN events, Replay(i)
  PROVE  /\ UNCHANGED <<decisions, call>>
         /\ \/ UNCHANGED handlers /\ \E r : RepliedHere(events[i], r)
            \/ \E m : HandedBack(events[i], m)
<1> DEFINE e == events[i]
           p == Target(e)
<1>1. UNCHANGED <<decisions, call>>
  BY DEF Replay
<1>2. ASSUME NEW error, ReplayRecords(e, Failure(error)), UNCHANGED contacts
      PROVE  \E r : RepliedHere(e, r)
  <2>1. Failure(error).contact = 0 /\ ~Failure(error).ok
    BY ResultShape
  <2>2. RepliedHere(e, Failure(error))
    BY <1>2, <2>1 DEF RepliedHere, ReplayRecords
  <2> QED
    BY <2>2
<1>3. ASSUME NEW slots, NEW outcome,
             Reaches(e.decision, e.provider, CallNames(e.decision, e.provider), "replay", slots, outcome, FALSE),
             \/ UNCHANGED store
             \/ ReplayRecords(e, [ReplayResult(e, outcome) EXCEPT !.contact = Len(contacts')])
      PROVE  \E r : RepliedHere(e, r)
  <2> DEFINE base == ReplayResult(e, outcome)
             r == [base EXCEPT !.contact = Len(contacts')]
  <2>1. DOMAIN base = ResultFields /\ (base.ok => outcome.ok)
    BY OutcomeResult DEF ReplayResult
  <2>2. Len(contacts') = Len(contacts) + 1
    BY <1>3, Appended DEF Reaches, ShapeInv, TablesInv
  <2>3. UNCHANGED store \/ RecordRow(ReplayRow(e, r), r.contact)
    BY <1>3 DEF ReplayRecords
  <2> HIDE DEF base, e
  <2>4. r.contact = Len(contacts) + 1 /\ (r.ok => outcome.ok)
    BY <2>1, <2>2 DEF ResultFields
  <2> HIDE DEF r
  <2> QED
    BY <1>3, <2>3, <2>4 DEF RepliedHere
<1>4. ASSUME NEW env \in OperatorEnviron, NEW credential,
             handlers' = Append(handlers,
               [pc |-> "received", caller |-> Operator, decision |-> e.decision, provider |-> e.provider,
                as |-> OwnNames(e.provider), credential |-> credential, key |-> env.key,
                twice |-> TRUE, slots |-> {}, result |-> NoResult, source |-> <<e>>]),
             UNCHANGED <<events, cause, contacts>>
      PROVE  \E m : HandedBack(e, m)
  <2> DEFINE m == [pc |-> "received", caller |-> Operator, decision |-> e.decision, provider |-> e.provider,
                   as |-> OwnNames(e.provider), credential |-> credential, key |-> env.key,
                   twice |-> TRUE, slots |-> {}, result |-> NoResult, source |-> <<e>>]
  <2>1. /\ DOMAIN m = HandlerFields /\ m.pc = "received" /\ m.caller = Operator
        /\ m.decision = e.decision /\ m.provider = e.provider /\ m.as = OwnNames(e.provider)
        /\ m.twice = TRUE /\ m.result = NoResult /\ m.source = <<e>>
    BY DEF HandlerFields
  <2>2. handlers' = Append(handlers, m)
    BY <1>4
  <2> HIDE DEF m
  <2> QED
    BY <1>4, <2>1, <2>2 DEF HandedBack
<1>5. PICK env \in OperatorEnviron :
        LET sent == ReplaySent(e, env)
        IN  \/ /\ ReplayRecords(e, Failure(sent.error))
               /\ UNCHANGED <<contacts, handlers>>
            \/ /\ \E outcome \in Outcomes[p] :
                    LET r == ReplayResult(e, outcome)
                    IN  /\ Reaches(e.decision, e.provider, CallNames(e.decision, e.provider), "replay",
                                   sent.slots, outcome, FALSE)
                        /\ \/ UNCHANGED store
                           \/ ReplayRecords(e, [r EXCEPT !.contact = Len(contacts')])
               /\ UNCHANGED handlers
            \/ /\ handlers' = Append(handlers,
                    [pc |-> "received", caller |-> Operator, decision |-> e.decision, provider |-> e.provider,
                     as |-> OwnNames(e.provider), credential |-> sent.credential, key |-> env.key,
                     twice |-> TRUE, slots |-> {}, result |-> NoResult, source |-> <<e>>])
               /\ UNCHANGED <<events, cause, contacts>>
  BY DEF Replay
<1> DEFINE sent == ReplaySent(e, env)
<1> HIDE DEF sent, e, p
<1>6. CASE ReplayRecords(e, Failure(sent.error)) /\ UNCHANGED <<contacts, handlers>>
  BY <1>1, <1>2, <1>6 DEF e
<1>7. CASE /\ \E outcome \in Outcomes[p] :
                /\ Reaches(e.decision, e.provider, CallNames(e.decision, e.provider), "replay",
                           sent.slots, outcome, FALSE)
                /\ \/ UNCHANGED store
                   \/ ReplayRecords(e, [ReplayResult(e, outcome) EXCEPT !.contact = Len(contacts')])
           /\ UNCHANGED handlers
  BY <1>1, <1>3, <1>7 DEF e
<1>8. CASE /\ handlers' = Append(handlers,
                [pc |-> "received", caller |-> Operator, decision |-> e.decision, provider |-> e.provider,
                 as |-> OwnNames(e.provider), credential |-> sent.credential, key |-> env.key,
                 twice |-> TRUE, slots |-> {}, result |-> NoResult, source |-> <<e>>])
           /\ UNCHANGED <<events, cause, contacts>>
  <2>1. \E m : HandedBack(e, m)
    BY <1>4, <1>8
  <2> QED
    BY <1>1, <2>1 DEF e
<1> QED
  BY <1>5, <1>6, <1>7, <1>8 DEF sent, e, p

\* A replay that has waited leaves the thread to itself, and at most one row:
\* of the answer, or of none.
LEMMA Finished ==
  ASSUME ShapeInv, NEW h \in DOMAIN handlers, FinishReplay(h)
  PROVE  LET m == handlers[h]
         IN  \E r, new :
               /\ m.source # <<>> /\ SetHandler(h, new) /\ Serves(m, new)
               /\ new.pc = m.pc /\ new.result = m.result /\ new.source = <<>> /\ new.slots = m.slots
               /\ UNCHANGED <<decisions, call, contacts>>
               /\ \/ r.contact = 0 /\ ~r.ok
                  \/ m.pc = "answered" /\ r = m.result
               /\ UNCHANGED store \/ RecordRow(ReplayRow(m.source[1], r), r.contact)
<1> DEFINE m == handlers[h]
           new == [m EXCEPT !.source = <<>>]
           r == IF m.pc = "answered" THEN m.result ELSE Failure("proxy_error")
<1>1. DOMAIN m = HandlerFields /\ DOMAIN m.result = ResultFields
  BY DEF ShapeInv, ThreadsInv, IsSequence
<1>2. /\ m.source # <<>> /\ SetHandler(h, new)
      /\ UNCHANGED <<decisions, call, contacts>>
  BY DEF FinishReplay
<1>3. UNCHANGED store \/ RecordRow(ReplayRow(m.source[1], r), r.contact)
  BY DEF FinishReplay, ReplayRecords
<1>4. \/ r.contact = 0 /\ ~r.ok
      \/ m.pc = "answered" /\ r = m.result
  BY ResultShape
<1> HIDE DEF m, r
<1>5. Serves(m, new) /\ new.pc = m.pc /\ new.result = m.result /\ new.source = <<>> /\ new.slots = m.slots
  BY <1>1 DEF Serves, HandlerFields
<1> HIDE DEF new
<1> QED
  BY <1>2, <1>3, <1>4, <1>5 DEF m

\* What a replay leaves in its row.
LEMMA ReplayRowOf ==
  ASSUME NEW e, DOMAIN e = DOMAIN NoEvent, NEW r
  PROVE  LET row == ReplayRow(e, r)
         IN  /\ DOMAIN row = DOMAIN NoEvent /\ row.mode = "replay" /\ row.decision = e.decision
             /\ row.provider = e.provider /\ row.success = r.ok
<1> QED
  BY DEF ReplayRow, NoEvent

-----------------------------------------------------------------------------
(* The shapes are kept *)

\* The ledger with a row more.
RowsGrow(row, i) ==
  /\ IsSequence(events') /\ IsSequence(cause')
  /\ Len(events') = Len(events) + 1 /\ Len(cause') = Len(events) + 1
  /\ events'[Len(events) + 1] = row /\ cause'[Len(events) + 1] = i
  /\ \A e \in 1..Len(events) : events'[e] = events[e] /\ cause'[e] = cause[e]

LEMMA RowAdded ==
  ASSUME TablesInv, NEW row, NEW i, RecordRow(row, i)
  PROVE  RowsGrow(row, i) /\ Len(events) \in Nat
<1>1. Len(events) \in Nat /\ IsSequence(events) /\ IsSequence(cause) /\ Len(cause) = Len(events)
  BY DEF TablesInv, IsSequence
<1>2. events' = Append(events, row) /\ cause' = Append(cause, i)
  BY DEF RecordRow, Record
<1> QED
  BY <1>1, <1>2, Appended DEF RowsGrow

\* The contacts with one more.
ContactsGrow(decision, p, as, entry, slots, ok, twice) ==
  /\ IsSequence(contacts') /\ Len(contacts') = Len(contacts) + 1
  /\ \A i \in 1..Len(contacts) : contacts'[i] = contacts[i]
  /\ LET new == contacts'[Len(contacts) + 1]
     IN  /\ new.decision = decision /\ new.provider = p /\ new.as = as /\ new.entry = entry
         /\ new.slots = slots /\ new.ok = ok /\ new.twice = twice

LEMMA ContactAdded ==
  ASSUME TablesInv, NEW d, NEW p, NEW as, NEW entry, NEW slots, NEW outcome, NEW twice,
         Reaches(d, p, as, entry, slots, outcome, twice)
  PROVE  ContactsGrow(d, p, as, entry, slots, outcome.ok, twice) /\ Len(contacts) \in Nat
<1> DEFINE new == [decision |-> d, provider |-> p, as |-> as, entry |-> entry, slots |-> slots,
                   ok |-> outcome.ok, twice |-> twice]
<1>1. contacts' = Append(contacts, new) /\ IsSequence(contacts) /\ Len(contacts) \in Nat
  BY DEF Reaches, TablesInv, IsSequence
<1>2. /\ new.decision = d /\ new.provider = p /\ new.as = as /\ new.entry = entry /\ new.slots = slots
      /\ new.ok = outcome.ok /\ new.twice = twice
  OBVIOUS
<1> HIDE DEF new
<1>3. /\ IsSequence(contacts') /\ Len(contacts') = Len(contacts) + 1 /\ contacts'[Len(contacts) + 1] = new
      /\ \A i \in 1..Len(contacts) : contacts'[i] = contacts[i]
  BY <1>1, Appended
<1> QED
  BY <1>1, <1>2, <1>3 DEF ContactsGrow

LEMMA RowsKeepShape ==
  ASSUME TablesInv, UNCHANGED <<contacts, decisions>>,
         NEW row, NEW i, RecordRow(row, i), DOMAIN row = DOMAIN NoEvent
  PROVE  TablesInv'
<1>1. RowsGrow(row, i) /\ Len(events) \in Nat
  BY RowAdded
<1>2. \A e \in 1..Len(events) + 1 : e \in 1..Len(events) \/ e = Len(events) + 1
  BY <1>1
<1> QED
  BY <1>1, <1>2 DEF TablesInv, RowsGrow

LEMMA CallsKeepShape ==
  ASSUME ShapeInv, NEW c \in Callers, NEW new, Set(c, new), DOMAIN new = CallFields,
         DOMAIN new.result = ResultFields, IsSequence(new.tries),
         new.pc = "waiting" => new.handler \in 1..Len(handlers'),
         Len(handlers') \in Nat, Len(handlers') >= Len(handlers)
  PROVE  CallsInv'
<1>1. /\ DOMAIN call' = Callers /\ call'[c] = new
      /\ \A d \in Callers : d # c => call'[d] = call[d]
  BY CallSet DEF ShapeInv
<1>2. Len(handlers) \in Nat
  BY DEF ShapeInv, ThreadsInv, IsSequence
<1> QED
  BY <1>1, <1>2 DEF ShapeInv, CallsInv

LEMMA ThreadsKeepShape ==
  ASSUME ShapeInv, NEW h \in DOMAIN handlers, NEW m, SetHandler(h, m), UNCHANGED call,
         Serves(handlers[h], m)
  PROVE  ThreadsInv' /\ CallsInv'
<1>1. /\ IsSequence(handlers') /\ Len(handlers') = Len(handlers) /\ h \in 1..Len(handlers)
      /\ handlers'[h] = m /\ \A g \in 1..Len(handlers) : g # h => handlers'[g] = handlers[g]
  BY ThreadSet DEF ShapeInv
<1>2. \A g \in 1..Len(handlers) :
        /\ DOMAIN handlers'[g] = HandlerFields /\ DOMAIN handlers'[g].result = ResultFields
        /\ handlers'[g].source # <<>> => DOMAIN handlers'[g].source[1] = DOMAIN NoEvent
  BY <1>1 DEF ShapeInv, ThreadsInv, Serves
<1>3. ThreadsInv'
  BY <1>1, <1>2 DEF ThreadsInv
<1> QED
  BY <1>1, <1>3 DEF ShapeInv, CallsInv

\* A table that only the record of contacts or decisions is added to.
LEMMA LogsKeepShape ==
  ASSUME TablesInv, UNCHANGED <<events, cause>>, IsSequence(contacts'), IsSequence(decisions')
  PROVE  TablesInv'
BY DEF TablesInv

LEMMA CallShape ==
  ASSUME ShapeInv, NEW c \in Callers, Start(c) \/ CallStep(c) \/ Abort(c)
  PROVE  ShapeInv'
<1>0. /\ Len(handlers) \in Nat /\ IsSequence(call[c].tries) /\ IsSequence(contacts) /\ IsSequence(decisions)
      /\ DOMAIN call[c].result = ResultFields /\ TablesInv
  BY DEF ShapeInv, ThreadsInv, CallsInv, TablesInv, IsSequence
<1>1. CASE Start(c) \/ RecordDecision(c) \/ Abort(c)
  <2>1. PICK new :
           /\ Set(c, new) /\ DOMAIN new = CallFields /\ new.pc \notin {"waiting", "called"}
           /\ new.result = call[c].result /\ new.tries = call[c].tries /\ new.options = call[c].options
           /\ UNCHANGED <<events, handlers, contacts, cause>>
    BY <1>1, Moved
  <2>2. IsSequence(decisions')
    <3>1. decisions' = decisions \/ \E d : decisions' = Append(decisions, d)
      BY <1>1 DEF Start, RecordDecision, Abort
    <3>2. IsSequence(decisions)
      BY <1>0
    <3>3. \A d : IsSequence(Append(decisions, d))
      BY <3>2, Appended
    <3> QED
      BY <3>1, <3>2, <3>3
  <2>3. CallsInv'
    BY <1>0, <2>1, CallsKeepShape
  <2>4. TablesInv'
    BY <1>0, <2>1, <2>2, LogsKeepShape
  <2> QED
    BY <2>1, <2>3, <2>4 DEF ShapeInv, ThreadsInv
<1>2. CASE AttemptHere(c) \/ AttemptByAdapter(c)
  <2>1. PICK r, new :
           /\ call[c].pc = "attempt" /\ Set(c, new) /\ Kept(call[c], new)
           /\ new.pc = "called" /\ new.result = r /\ DOMAIN r = ResultFields
           /\ UNCHANGED <<events, decisions, handlers, cause>>
           /\ \/ UNCHANGED contacts
              \/ \E as, slots, outcome :
                   Reaches(call[c].decision, Current(call[c]), as, "direct", slots, outcome, FALSE)
    BY <1>2, TriedHere
  <2>2. IsSequence(contacts')
    BY <1>0, <2>1, ContactAdded DEF ContactsGrow
  <2>3. CallsInv'
    BY <1>0, <2>1, CallsKeepShape DEF Kept
  <2>4. TablesInv'
    BY <1>0, <2>1, <2>2, LogsKeepShape
  <2> QED
    BY <2>1, <2>3, <2>4 DEF ShapeInv, ThreadsInv
<1>3. CASE AttemptByProxy(c)
  <2>1. PICK m, new :
           /\ Set(c, new) /\ Kept(call[c], new)
           /\ new.pc = "waiting" /\ new.handler = Len(handlers) + 1 /\ DOMAIN new.result = ResultFields
           /\ handlers' = Append(handlers, m) /\ DOMAIN m = HandlerFields /\ m.result = NoResult
           /\ m.source = <<>> /\ UNCHANGED <<events, decisions, contacts, cause>>
    BY <1>3, HandedOver
  <2>2. /\ IsSequence(handlers') /\ Len(handlers') = Len(handlers) + 1
        /\ handlers'[Len(handlers) + 1] = m /\ \A i \in 1..Len(handlers) : handlers'[i] = handlers[i]
    BY <2>1, Appended DEF ShapeInv, ThreadsInv
  <2>3. CallsInv'
    BY <1>0, <2>1, <2>2, CallsKeepShape DEF Kept
  <2>4. \A i \in 1..Len(handlers) + 1 : i \in 1..Len(handlers) \/ i = Len(handlers) + 1
    BY <1>0
  <2>5. ThreadsInv'
    BY <2>1, <2>2, <2>4, ResultShape DEF ShapeInv, ThreadsInv
  <2>6. TablesInv'
    BY <1>0, <2>1, LogsKeepShape
  <2> QED
    BY <2>3, <2>5, <2>6 DEF ShapeInv
<1>4. CASE TakeAnswer(c) \/ GiveUp(c)
  <2>1. PICK r, new :
           /\ Set(c, new) /\ Kept(call[c], new)
           /\ new.pc = "called" /\ new.result = r /\ DOMAIN r = ResultFields
           /\ UNCHANGED <<events, decisions, handlers, contacts, cause>>
    BY <1>4, Waited
  <2>2. CallsInv'
    BY <1>0, <2>1, CallsKeepShape DEF Kept
  <2>3. TablesInv'
    BY <1>0, <2>1, LogsKeepShape
  <2> QED
    BY <2>1, <2>2, <2>3 DEF ShapeInv, ThreadsInv
<1>5. CASE Settle(c) \/ SettleByAdapter(c)
  <2> DEFINE k == call[c]
             p == Current(k)
             r == k.result
  <2>1. /\ UNCHANGED <<decisions, handlers, contacts>>
        /\ UNCHANGED store \/ \E row : RecordRow(row, r.contact) /\ DOMAIN row = DOMAIN NoEvent
        /\ \E final, again :
             Set(c, Tried(k, p, final, again))
    BY <1>5, Settled DEF RowOf
  <2>2. PICK final, again :
          Set(c, Tried(k, p, final, again))
    BY <2>1
  <2> DEFINE new == Tried(k, p, final, again)
  <2>3. Set(c, new)
    BY <2>2
  <2>4. DOMAIN k = CallFields
    BY DEF ShapeInv, CallsInv
  <2> HIDE DEF k, p, new
  <2>5. PICK t : OneTryMore(k, new, p, final.contact, t)
    <3>1. new = Tried(k, p, final, again)
      BY DEF new
    <3> QED
      BY <2>4, <3>1, AfterTry
  <2>6. IsSequence(new.tries) /\ DOMAIN new.result = ResultFields
    <3>1. IsSequence(k.tries)
      BY <1>0 DEF k
    <3>2. IsSequence(Append(k.tries, t))
      BY <3>1, Appended
    <3>3. DOMAIN NoResult = ResultFields
      BY ResultShape
    <3> QED
      BY <2>5, <3>2, <3>3 DEF OneTryMore
  <2>7. CallsInv'
    <3>1. handlers' = handlers
      BY <2>1
    <3>2. DOMAIN new = CallFields /\ new.pc # "waiting"
      BY <2>5 DEF OneTryMore
    <3> QED
      BY <1>0, <2>3, <2>6, <3>1, <3>2, CallsKeepShape
  <2>8. TablesInv'
    <3>1. CASE UNCHANGED store
      BY <1>0, <2>1, <3>1, LogsKeepShape DEF store
    <3>2. CASE \E row : RecordRow(row, r.contact) /\ DOMAIN row = DOMAIN NoEvent
      <4>1. PICK row : RecordRow(row, r.contact) /\ DOMAIN row = DOMAIN NoEvent
        BY <3>2
      <4>2. UNCHANGED <<contacts, decisions>>
        BY <2>1
      <4> HIDE DEF r
      <4> QED
        BY <1>0, <4>1, <4>2, RowsKeepShape
    <3> QED
      BY <2>1, <3>1, <3>2
  <2> QED
    BY <2>1, <2>7, <2>8 DEF ShapeInv, ThreadsInv
<1> QED
  BY <1>1, <1>2, <1>3, <1>4, <1>5 DEF CallStep

LEMMA ThreadShape ==
  ASSUME ShapeInv, NEW h \in DOMAIN handlers, HandlerStep(h) \/ HandlerFails(h) \/ FinishReplay(h)
  PROVE  ShapeInv'
<1>0. IsSequence(contacts) /\ IsSequence(decisions) /\ TablesInv
  BY DEF ShapeInv, TablesInv
<1>1. CASE HandlerReject(h) \/ HandlerAdmit(h) \/ HandlerFails(h)
  <2>1. PICK new : /\ SetHandler(h, new) /\ Serves(handlers[h], new)
                   /\ UNCHANGED <<events, decisions, call, contacts, cause>>
    BY <1>1, ThreadMoves
  <2>2. ThreadsInv' /\ CallsInv'
    BY <2>1, ThreadsKeepShape
  <2> QED
    BY <1>0, <2>1, <2>2, LogsKeepShape DEF ShapeInv
<1>2. CASE HandlerForward(h)
  <2>1. PICK outcome, new :
          /\ SetHandler(h, new) /\ Serves(handlers[h], new)
          /\ Reaches(handlers[h].decision, handlers[h].provider, handlers[h].as, ThreadEntry(handlers[h]),
                     handlers[h].slots, outcome, handlers[h].twice)
          /\ UNCHANGED <<events, decisions, call, cause>>
    BY <1>2, ThreadSends
  <2>2. ThreadsInv' /\ CallsInv'
    BY <2>1, ThreadsKeepShape
  <2>3. IsSequence(contacts')
    BY <1>0, <2>1, ContactAdded DEF ContactsGrow
  <2> QED
    BY <1>0, <2>1, <2>2, <2>3, LogsKeepShape DEF ShapeInv
<1>3. CASE HandlerRecord(h)
  <2>1. PICK row, new :
          /\ SetHandler(h, new) /\ Serves(handlers[h], new)
          /\ RecordRow(row, handlers[h].result.contact) /\ DOMAIN row = DOMAIN NoEvent
          /\ UNCHANGED <<decisions, call, contacts>>
    BY <1>3, ThreadRecords DEF RowOf
  <2>2. ThreadsInv' /\ CallsInv'
    BY <2>1, ThreadsKeepShape
  <2> QED
    BY <1>0, <2>1, <2>2, RowsKeepShape DEF ShapeInv
<1>4. CASE FinishReplay(h)
  <2>1. PICK r, new :
          /\ handlers[h].source # <<>> /\ SetHandler(h, new) /\ Serves(handlers[h], new)
          /\ UNCHANGED <<decisions, call, contacts>>
          /\ UNCHANGED store \/ RecordRow(ReplayRow(handlers[h].source[1], r), r.contact)
    BY <1>4, Finished
  <2>2. ThreadsInv' /\ CallsInv'
    BY <2>1, ThreadsKeepShape
  <2>3. CASE UNCHANGED store
    BY <1>0, <2>1, <2>2, <2>3, LogsKeepShape DEF ShapeInv, store
  <2>4. CASE RecordRow(ReplayRow(handlers[h].source[1], r), r.contact)
    <3>1. DOMAIN handlers[h].source[1] = DOMAIN NoEvent
      BY <2>1 DEF ShapeInv, ThreadsInv, IsSequence
    <3>2. DOMAIN ReplayRow(handlers[h].source[1], r) = DOMAIN NoEvent
      BY <3>1, ReplayRowOf
    <3> QED
      BY <1>0, <2>1, <2>2, <2>4, <3>2, RowsKeepShape DEF ShapeInv
  <2> QED
    BY <2>1, <2>3, <2>4
<1> QED
  BY <1>1, <1>2, <1>3, <1>4 DEF HandlerStep

\* A golden mark is all that is rewritten in a row.
LEMMA Marked ==
  ASSUME TablesInv, NEW i \in DOMAIN events, Mark(i)
  PROVE  /\ IsSequence(events') /\ Len(events') = Len(events) /\ i \in 1..Len(events)
         /\ \A e \in 1..Len(events) : e # i => events'[e] = events[e]
         /\ \E golden : events'[i] = [events[i] EXCEPT !.golden = golden]
         /\ UNCHANGED <<decisions, call, handlers, contacts, cause>>
<1>1. PICK golden : events' = [events EXCEPT ![i] = [events[i] EXCEPT !.golden = golden]]
  BY DEF Mark, MarkGolden
<1> DEFINE n == Len(events)
           new == [events[i] EXCEPT !.golden = golden]
<1>2. n \in Nat /\ events = [e \in 1..n |-> events[e]] /\ DOMAIN events = 1..n /\ i \in 1..n
  BY DEF TablesInv, IsSequence
<1> HIDE DEF new
<1>3. events' = [e \in 1..n |-> IF e = i THEN new ELSE events[e]]
  BY <1>1, <1>2 DEF new
<1> DEFINE S == {events[e] : e \in 1..n} \cup {new}
<1>4. events' \in [1..n -> S]
  BY <1>3
<1>5. events' \in Seq(S) /\ DOMAIN events' = 1..n
  BY <1>2, <1>4
<1>6. Len(events') = n
  BY <1>2, <1>5
<1>7. IsSequence(events')
  BY <1>2, <1>3, <1>6 DEF IsSequence
<1>8. events'[i] = new /\ \A e \in 1..n : e # i => events'[e] = events[e]
  BY <1>2, <1>3
<1>9. UNCHANGED <<decisions, call, handlers, contacts, cause>>
  BY DEF Mark
<1> QED
  BY <1>2, <1>6, <1>7, <1>8, <1>9 DEF new

LEMMA OperatorShape ==
  ASSUME ShapeInv, NEW i \in DOMAIN events, Replay(i) \/ Mark(i)
  PROVE  ShapeInv'
<1>0. /\ IsSequence(contacts) /\ IsSequence(decisions) /\ TablesInv /\ DOMAIN events[i] = DOMAIN NoEvent
      /\ IsSequence(handlers) /\ Len(handlers) \in Nat
  BY DEF ShapeInv, TablesInv, ThreadsInv, IsSequence
<1>1. CASE Replay(i)
  <2>1. UNCHANGED <<decisions, call>>
    BY <1>1, Replayed
  <2>2. ASSUME NEW r, RepliedHere(events[i], r), UNCHANGED handlers PROVE ShapeInv'
    <3>1. IsSequence(contacts') /\ IsSequence(decisions')
      BY <1>0, <2>1, <2>2, ContactAdded DEF ContactsGrow, RepliedHere
    <3>2. ThreadsInv' /\ CallsInv'
      BY <2>1, <2>2 DEF ShapeInv, ThreadsInv, CallsInv
    <3>3. CASE UNCHANGED store
      BY <1>0, <3>1, <3>2, <3>3, LogsKeepShape DEF ShapeInv, store
    <3>4. CASE RecordRow(ReplayRow(events[i], r), r.contact)
      <4> DEFINE row == ReplayRow(events[i], r)
      <4>1. DOMAIN row = DOMAIN NoEvent
        BY <1>0, ReplayRowOf
      <4> HIDE DEF row
      <4>2. RowsGrow(row, r.contact) /\ Len(events) \in Nat
        BY <1>0, <3>4, RowAdded DEF row
      <4>3. \A e \in 1..Len(events) + 1 : e \in 1..Len(events) \/ e = Len(events) + 1
        BY <4>2
      <4>4. TablesInv'
        BY <1>0, <3>1, <4>1, <4>2, <4>3 DEF TablesInv, RowsGrow
      <4> QED
        BY <3>2, <4>4 DEF ShapeInv
    <3> QED
      BY <2>2, <3>3, <3>4 DEF RepliedHere
  <2>3. ASSUME NEW m, HandedBack(events[i], m) PROVE ShapeInv'
    <3>1. /\ handlers' = Append(handlers, m) /\ DOMAIN m = HandlerFields /\ m.result = NoResult
          /\ m.source = <<events[i]>> /\ UNCHANGED <<events, cause, contacts>>
      BY <2>3 DEF HandedBack
    <3>2. /\ IsSequence(handlers') /\ Len(handlers') = Len(handlers) + 1
          /\ handlers'[Len(handlers) + 1] = m /\ \A g \in 1..Len(handlers) : handlers'[g] = handlers[g]
      BY <1>0, <3>1, Appended
    <3>3. \A g \in 1..Len(handlers) + 1 : g \in 1..Len(handlers) \/ g = Len(handlers) + 1
      BY <1>0
    <3>4. DOMAIN m.source[1] = DOMAIN NoEvent /\ DOMAIN m.result = ResultFields
      BY <1>0, <3>1, ResultShape
    <3>5. ThreadsInv'
      BY <3>1, <3>2, <3>3, <3>4 DEF ShapeInv, ThreadsInv
    <3>6. TablesInv'
      BY <1>0, <2>1, <3>1, LogsKeepShape
    <3>7. CallsInv'
      BY <1>0, <2>1, <3>2 DEF ShapeInv, CallsInv
    <3> QED
      BY <3>5, <3>6, <3>7 DEF ShapeInv
  <2> QED
    BY <1>1, <2>2, <2>3, Replayed
<1>2. CASE Mark(i)
  <2>1. /\ IsSequence(events') /\ Len(events') = Len(events) /\ i \in 1..Len(events)
        /\ \A e \in 1..Len(events) : e # i => events'[e] = events[e]
        /\ \E golden : events'[i] = [events[i] EXCEPT !.golden = golden]
        /\ UNCHANGED <<decisions, call, handlers, contacts, cause>>
    BY <1>0, <1>2, Marked
  <2>2. DOMAIN events'[i] = DOMAIN NoEvent
    BY <1>0, <2>1
  <2>3. TablesInv'
    BY <1>0, <2>1, <2>2 DEF TablesInv
  <2> QED
    BY <2>1, <2>3 DEF ShapeInv, ThreadsInv, CallsInv
<1> QED
  BY <1>1, <1>2

\* In the initial state every table is empty and every call idle.
LEMMA InitShape == Init => ShapeInv
<1> SUFFICES ASSUME Init PROVE ShapeInv
  OBVIOUS
<1>1. /\ events = <<>> /\ cause = <<>> /\ decisions = <<>> /\ handlers = <<>> /\ contacts = <<>>
      /\ \E w \in Workloads : call = [c \in Callers |-> [NoCall EXCEPT !.options = w[c]]]
  BY DEF Init
<1>2. IsSequence(<<>>) /\ Len(<<>>) = 0
  BY DEF IsSequence
<1>3. /\ DOMAIN NoCall = CallFields /\ NoCall.result = NoResult /\ NoCall.tries = <<>> /\ NoCall.pc = "idle"
  BY DEF NoCall, CallFields
<1>4. CallsInv
  BY <1>1, <1>2, <1>3, ResultShape DEF CallsInv, CallFields
<1> QED
  BY <1>1, <1>2, <1>4 DEF ShapeInv, TablesInv, ThreadsInv

\* The state keeps its shape.
LEMMA NextShape == ShapeInv /\ [Next]_vars => ShapeInv'
<1> SUFFICES ASSUME ShapeInv, [Next]_vars PROVE ShapeInv'
  OBVIOUS
<1>1. CASE UNCHANGED vars
  BY <1>1 DEF vars, ShapeInv, TablesInv, ThreadsInv, CallsInv
<1> QED
  BY <1>1, CallShape, ThreadShape, OperatorShape DEF Next

LEMMA ShapesHold == Spec => [](ShapeInv /\ IInv)
<1>1. Init => ShapeInv /\ IInv
  BY InitShape, InitInv
<1>2. ShapeInv /\ IInv /\ [Next]_vars => (ShapeInv /\ IInv)'
  BY NextShape, NextInv
<1> QED
  BY <1>1, <1>2, PTL DEF Spec

-----------------------------------------------------------------------------
(* What a step does to the ledger *)

\* The contacts that there were.
ContactsKept ==
  /\ Len(contacts) \in Nat /\ Len(contacts') \in Nat /\ Len(contacts) <= Len(contacts')
  /\ \A i \in 1..Len(contacts) : contacts'[i] = contacts[i]

\* Each contact in `new` has a row more, written in this mode.
LedgerStep(new, mode) ==
  /\ ContactsKept
  /\ \A i : HasRow(cause', i) <=> HasRow(cause, i) \/ i \in new
  /\ \A i : ProxysOnly(events', cause', i) <=> ProxysOnly(events, cause, i) /\ (i \in new => mode = "proxy")

\* What is marked, or not touched.
RowsKept ==
  /\ Len(events') = Len(events) /\ cause' = cause
  /\ \A e \in 1..Len(events) : /\ events'[e].mode = events[e].mode
                               /\ events'[e].provider = events[e].provider
                               /\ events'[e].decision = events[e].decision
                               /\ events'[e].success = events[e].success

LEMMA LedgerKept ==
  ASSUME TablesInv, RowsAgree, RowsApart, ContactsKept, RowsKept
  PROVE  RowsAgree' /\ RowsApart' /\ LedgerStep({}, "proxy")
<1>1. Len(cause) = Len(events) /\ Len(events) \in Nat
  BY DEF TablesInv, IsSequence
<1>2. \A e \in 1..Len(events) : cause[e] \in 0..Len(contacts) /\ (cause[e] # 0 => cause[e] \in 1..Len(contacts))
  BY DEF RowsAgree, ContactsKept
<1>3. RowsAgree'
  BY <1>1, <1>2 DEF RowsAgree, RowIsOf, ProviderFor, DecisionFor, RowsKept, ContactsKept
<1>4. RowsApart'
  BY <1>1, <1>2 DEF RowsApart, RowsKept, ContactsKept
<1>5. LedgerStep({}, "proxy")
  BY <1>1 DEF LedgerStep, RowsKept, HasRow, ProxysOnly
<1> QED
  BY <1>3, <1>4, <1>5

\* A row more, of contact i or of none: it agrees with the contact, and is
\* the second one only beside the proxy's.
LEMMA LedgerGrows ==
  ASSUME TablesInv, RowsAgree, RowsApart, ContactsKept, NEW row, NEW i, RowsGrow(row, i),
         i \in 0..Len(contacts'), row.success => i # 0,
         i # 0 => /\ RowIsOf(row, contacts'[i])
                  /\ HasRow(cause, i) => /\ contacts'[i].twice /\ row.mode # "proxy"
                                         /\ ProxysOnly(events, cause, i)
  PROVE  RowsAgree' /\ RowsApart' /\ LedgerStep({i}, row.mode)
<1> DEFINE n == Len(events)
<1>1. /\ Len(cause) = n /\ n \in Nat /\ Len(events') = n + 1 /\ Len(cause') = n + 1
      /\ events'[n + 1] = row /\ cause'[n + 1] = i
      /\ \A e \in 1..n : events'[e] = events[e] /\ cause'[e] = cause[e]
  BY DEF TablesInv, IsSequence, RowsGrow
<1> HIDE DEF n
<1>2. /\ \A e \in 1..n + 1 : e \in 1..n \/ e = n + 1
      /\ \A e \in 1..n : e \in 1..n + 1 /\ e # n + 1
      /\ n + 1 \in 1..n + 1
  BY <1>1
<1>3. \A e \in 1..n : cause[e] \in 0..Len(contacts) /\ (cause[e] # 0 => cause[e] \in 1..Len(contacts))
  BY DEF RowsAgree, ContactsKept, n
<1>4. \A j \in 0..Len(contacts) : j \in 0..Len(contacts')
  BY DEF ContactsKept
<1>5. \A e \in 1..n : /\ cause[e] \in 0..Len(contacts')
                      /\ cause[e] # 0 => contacts'[cause[e]] = contacts[cause[e]]
  BY <1>3, <1>4 DEF ContactsKept
<1>6. RowsAgree'
  <2> SUFFICES ASSUME NEW e \in 1..n + 1
               PROVE  /\ cause'[e] \in 0..Len(contacts')
                      /\ events'[e].success => cause'[e] # 0
                      /\ cause'[e] # 0 => RowIsOf(events'[e], contacts'[cause'[e]])
    BY <1>1 DEF RowsAgree
  <2>1. CASE e \in 1..n
    BY <1>1, <1>5, <2>1 DEF RowsAgree, n
  <2>2. CASE e = n + 1
    BY <1>1, <2>2
  <2> QED
    BY <1>2, <2>1, <2>2
<1>7. \A e \in 1..n : cause[e] = i /\ i # 0 => /\ contacts'[i].twice /\ row.mode # "proxy"
                                               /\ events[e].mode = "proxy"
  BY <1>1 DEF HasRow, ProxysOnly
<1>8. RowsApart'
  <2> SUFFICES ASSUME NEW e \in 1..n + 1, NEW f \in 1..n + 1, e # f, cause'[e] = cause'[f], cause'[e] # 0
               PROVE  contacts'[cause'[e]].twice /\ (events'[e].mode = "proxy" <=> events'[f].mode # "proxy")
    BY <1>1 DEF RowsApart
  <2>1. CASE e \in 1..n /\ f \in 1..n
    BY <1>1, <1>5, <2>1 DEF RowsApart, n
  <2>2. CASE e = n + 1 /\ f \in 1..n
    BY <1>1, <1>7, <2>2
  <2>3. CASE e \in 1..n /\ f = n + 1
    BY <1>1, <1>7, <2>3
  <2> QED
    BY <1>2, <2>1, <2>2, <2>3
<1>9. ASSUME NEW j PROVE HasRow(cause', j) <=> HasRow(cause, j) \/ j \in {i}
  BY <1>1, <1>2 DEF HasRow
<1>10. ASSUME NEW j
       PROVE  ProxysOnly(events', cause', j) <=> ProxysOnly(events, cause, j) /\ (j \in {i} => row.mode = "proxy")
  BY <1>1, <1>2 DEF ProxysOnly
<1> QED
  BY <1>6, <1>8, <1>9, <1>10 DEF LedgerStep

-----------------------------------------------------------------------------
(* Every effect keeps its account *)

\* A contact that a thread or a call knows of is not a new one.
LEMMA KnownContacts ==
  ASSUME ThreadsAccount, CallsAccount, ContactsKept
  PROVE  /\ \A h \in 1..Len(handlers) : handlers[h].result.contact \in 0..Len(contacts)
         /\ \A c \in Callers : call[c].pc = "called" => call[c].result.contact \in 0..Len(contacts)
         /\ \A i \in 0..Len(contacts) : i \in 0..Len(contacts') /\ (i # 0 => contacts'[i] = contacts[i])
BY DEF ThreadsAccount, ThreadAccounts, CallsAccount, CallAccounts, Answers, ContactsKept

\* A thread that does not move, when its contact gets no row before it has
\* recorded, and none but the proxy's while a replay waits for it.
LEMMA ThreadStands ==
  ASSUME NEW h, ThreadAccounts(h, events, cause, contacts, handlers), handlers'[h] = handlers[h],
         NEW new, NEW mode, LedgerStep(new, mode),
         handlers[h].result.contact # 0 =>
           /\ \A g \in 1..Len(handlers') : handlers'[g].result.contact = handlers[h].result.contact => g = h
           /\ handlers[h].pc = "forwarded" => handlers[h].result.contact \notin new
           /\ handlers[h].source # <<>> => (handlers[h].result.contact \in new => mode = "proxy")
  PROVE  ThreadAccounts(h, events', cause', contacts', handlers')
<1> DEFINE m == handlers[h]
           i == m.result.contact
<1>1. /\ Answers(contacts, m.result, m.provider, m.decision)
      /\ i # 0 => /\ contacts[i].twice = m.twice /\ contacts[i].as = m.as
                  /\ m.pc = "forwarded" => ~HasRow(cause, i)
                  /\ m.pc = "answered" => HasRow(cause, i)
      /\ m.source # <<>> =>
           /\ m.caller = Operator /\ m.twice
           /\ m.source[1].provider = m.provider /\ m.source[1].decision = m.decision
           /\ i # 0 => ProxysOnly(events, cause, i)
  BY DEF ThreadAccounts
<1>2. i \in 0..Len(contacts') /\ (i # 0 => contacts'[i] = contacts[i])
  BY <1>1 DEF Answers, LedgerStep, ContactsKept
<1>3. Answers(contacts', m.result, m.provider, m.decision)
  BY <1>1, <1>2 DEF Answers
<1>4. /\ HasRow(cause', i) <=> HasRow(cause, i) \/ i \in new
      /\ ProxysOnly(events', cause', i) <=> ProxysOnly(events, cause, i) /\ (i \in new => mode = "proxy")
  BY DEF LedgerStep
<1>5. handlers'[h] = m
  OBVIOUS
<1> QED
  BY <1>1, <1>2, <1>3, <1>4, <1>5 DEF ThreadAccounts

\* The threads, when none of them moves.
LEMMA ThreadsStand ==
  ASSUME ThreadsAccount, UNCHANGED handlers, NEW new, NEW mode, LedgerStep(new, mode),
         \A h \in 1..Len(handlers) : handlers[h].result.contact \in new \ {0} =>
           /\ handlers[h].pc # "forwarded"
           /\ handlers[h].source # <<>> => mode = "proxy"
  PROVE  ThreadsAccount'
<1>1. handlers' = handlers
  OBVIOUS
<1>2. ASSUME NEW h \in 1..Len(handlers) PROVE ThreadAccounts(h, events', cause', contacts', handlers')
  <2>1. ThreadAccounts(h, events, cause, contacts, handlers)
    BY DEF ThreadsAccount
  <2>2. handlers[h].result.contact # 0 =>
          \A g \in 1..Len(handlers) : handlers[g].result.contact = handlers[h].result.contact => g = h
    BY <2>1 DEF ThreadAccounts
  <2> QED
    BY <1>1, <2>1, <2>2, ThreadStands
<1> QED
  BY <1>1, <1>2 DEF ThreadsAccount

\* A caller that does not move, when no row of its contact is written but by
\* the proxy it waits for, nobody else gets its contact, and no thread that
\* has it changes.
LEMMA CallerStands ==
  ASSUME ThreadsAccount, CallsAccount, NEW d \in Callers, call'[d] = call[d],
         NEW new, NEW mode, LedgerStep(new, mode), Len(handlers) \in Nat, Len(handlers') \in Nat,
         Len(handlers') >= Len(handlers),
         call[d].pc = "called" /\ call[d].result.contact # 0 =>
           /\ call[d].result.contact \notin new
           /\ \A b \in Callers : call'[b].pc = "called" /\ call'[b].result.contact = call[d].result.contact => b = d
           /\ \A h \in 1..Len(handlers') : handlers'[h].result.contact = call[d].result.contact =>
                handlers'[h].pc = "answered" /\ handlers'[h].caller = d,
         call[d].pc = "waiting" =>
           LET m == handlers[call[d].handler]
               n == handlers'[call[d].handler]
           IN  /\ n.caller = m.caller /\ n.provider = m.provider /\ n.decision = m.decision /\ n.twice = m.twice
               /\ n.result.contact # 0 =>
                    /\ n.result.contact \in new => mode = "proxy"
                    /\ n.result.contact = m.result.contact \/ ProxysOnly(events, cause, n.result.contact)
  PROVE  /\ CallAccounts(d, events', cause', contacts', call', handlers')
         /\ WaitAccounts(d, events', cause', call', handlers')
         /\ TriesAccount(d, cause', call')
<1>0. /\ CallAccounts(d, events, cause, contacts, call, handlers)
      /\ WaitAccounts(d, events, cause, call, handlers)
      /\ TriesAccount(d, cause, call)
  BY DEF CallsAccount
<1>1. CallAccounts(d, events', cause', contacts', call', handlers')
  <2> DEFINE k == call[d]
             i == k.result.contact
  <2> SUFFICES ASSUME k.pc = "called"
               PROVE  /\ Answers(contacts', k.result, Current(k), k.decision)
                      /\ i # 0 => /\ ProxysOnly(events', cause', i)
                                  /\ IF Records(k) THEN HasRow(cause', i) => contacts'[i].twice ELSE HasRow(cause', i)
    BY DEF CallAccounts
  <2>1. /\ Answers(contacts, k.result, Current(k), k.decision)
        /\ i # 0 => /\ ProxysOnly(events, cause, i)
                    /\ IF Records(k) THEN HasRow(cause, i) => contacts[i].twice ELSE HasRow(cause, i)
    BY <1>0 DEF CallAccounts
  <2>2. i \in 0..Len(contacts') /\ (i # 0 => contacts'[i] = contacts[i])
    BY KnownContacts DEF LedgerStep
  <2>3. Answers(contacts', k.result, Current(k), k.decision)
    BY <2>1, <2>2 DEF Answers
  <2>4. i # 0 => /\ HasRow(cause', i) <=> HasRow(cause, i)
                 /\ ProxysOnly(events', cause', i) <=> ProxysOnly(events, cause, i)
    BY DEF LedgerStep
  <2> QED
    BY <2>1, <2>2, <2>3, <2>4
<1>2. WaitAccounts(d, events', cause', call', handlers')
  BY <1>0 DEF WaitAccounts, LedgerStep
<1>3. TriesAccount(d, cause', call')
  BY <1>0 DEF TriesAccount, LedgerStep
<1> QED
  BY <1>1, <1>2, <1>3

\* A step that writes no row, whether or not it reaches a provider.
LEMMA NoRow ==
  ASSUME ShapeInv, EffectsInv, UNCHANGED <<events, cause>>,
         \/ contacts' = contacts
         \/ \E d, p, as, entry, slots, outcome, twice : Reaches(d, p, as, entry, slots, outcome, twice)
  PROVE  RowsAgree' /\ RowsApart' /\ LedgerStep({}, "proxy")
<1>1. TablesInv /\ Len(contacts) \in Nat
  BY DEF ShapeInv, TablesInv, IsSequence
<1>2. ContactsKept
  <2>1. CASE contacts' = contacts
    BY <1>1, <2>1 DEF ContactsKept
  <2>2. CASE \E d, p, as, entry, slots, outcome, twice : Reaches(d, p, as, entry, slots, outcome, twice)
    <3>1. PICK d, p, as, entry, slots, outcome, twice : Reaches(d, p, as, entry, slots, outcome, twice)
      BY <2>2
    <3>2. ContactsGrow(d, p, as, entry, slots, outcome.ok, twice)
      BY <1>1, <3>1, ContactAdded
    <3> QED
      BY <1>1, <3>2 DEF ContactsGrow, ContactsKept
  <2> QED
    BY <2>1, <2>2
<1>3. RowsKept
  BY DEF RowsKept
<1> QED
  BY <1>1, <1>2, <1>3, LedgerKept DEF EffectsInv

\* A caller that starts, records its decision or dies.
LEMMA MovedKeepsEffects ==
  ASSUME ShapeInv, EffectsInv, NEW c \in Callers, Start(c) \/ RecordDecision(c) \/ Abort(c)
  PROVE  EffectsInv'
<1>1. PICK new :
         /\ Set(c, new) /\ new.pc \notin {"waiting", "called"} /\ new.tries = call[c].tries
         /\ UNCHANGED <<events, handlers, contacts, cause>>
  BY Moved
<1>2. /\ call'[c] = new /\ \A d \in Callers : d # c => call'[d] = call[d]
      /\ Len(handlers) \in Nat /\ handlers' = handlers
  BY <1>1, CallSet DEF ShapeInv, ThreadsInv, IsSequence
<1>3. RowsAgree' /\ RowsApart' /\ LedgerStep({}, "proxy")
  BY <1>1, NoRow
<1>4. ThreadsAccount'
  BY <1>1, <1>3, ThreadsStand DEF EffectsInv
<1>5. ASSUME NEW d \in Callers
      PROVE  /\ CallAccounts(d, events', cause', contacts', call', handlers')
             /\ WaitAccounts(d, events', cause', call', handlers')
             /\ TriesAccount(d, cause', call')
  <2>1. CASE d = c
    <3>1. TriesAccount(c, cause, call)
      BY DEF EffectsInv, CallsAccount
    <3> QED
      BY <1>1, <1>2, <1>3, <2>1, <3>1 DEF CallAccounts, WaitAccounts, TriesAccount, LedgerStep
  <2>2. CASE d # c
    <3>1. CallAccounts(d, events, cause, contacts, call, handlers)
      BY DEF EffectsInv, CallsAccount
    <3>2. call[d].pc = "called" /\ call[d].result.contact # 0 =>
           /\ \A b \in Callers : call'[b].pc = "called" /\ call'[b].result.contact = call[d].result.contact => b = d
           /\ \A h \in 1..Len(handlers') : handlers'[h].result.contact = call[d].result.contact =>
                handlers'[h].pc = "answered" /\ handlers'[h].caller = d
      BY <1>1, <1>2, <3>1 DEF CallAccounts
    <3> QED
      BY <1>2, <1>3, <2>2, <3>2, CallerStands DEF EffectsInv
  <2> QED
    BY <2>1, <2>2
<1> QED
  BY <1>3, <1>4, <1>5 DEF EffectsInv, CallsAccount

\* An attempt from this process: a contact it is called back from has no row
\* and belongs to nobody else.
LEMMA TriedKeepsEffects ==
  ASSUME ShapeInv, EffectsInv, NEW c \in Callers, AttemptHere(c) \/ AttemptByAdapter(c)
  PROVE  EffectsInv'
<1> DEFINE k == call[c]
           n == Len(contacts) + 1
<1>1. PICK r, new :
         /\ Set(c, new) /\ Kept(k, new) /\ new.pc = "called" /\ new.result = r
         /\ UNCHANGED <<events, handlers, cause>>
         /\ \/ r.contact = 0 /\ ~r.ok /\ UNCHANGED contacts
            \/ \E slots, outcome :
                 /\ Reaches(k.decision, Current(k), CallNames(k.decision, Current(k)), "direct", slots, outcome, FALSE)
                 /\ r.contact = n /\ (r.ok => outcome.ok) /\ Records(new)
  BY TriedHere
<1>2. /\ call'[c] = new /\ \A d \in Callers : d # c => call'[d] = call[d]
      /\ Len(handlers) \in Nat /\ handlers' = handlers /\ Len(contacts) \in Nat
  BY <1>1, CallSet DEF ShapeInv, TablesInv, ThreadsInv, IsSequence
<1>3. RowsAgree' /\ RowsApart' /\ LedgerStep({}, "proxy")
  BY <1>1, NoRow
<1>4. ThreadsAccount'
  BY <1>1, <1>3, ThreadsStand DEF EffectsInv
<1>5. /\ \A h \in 1..Len(handlers) : handlers[h].result.contact \in 0..Len(contacts)
      /\ \A d \in Callers : call[d].pc = "called" => call[d].result.contact \in 0..Len(contacts)
  BY <1>3, KnownContacts DEF EffectsInv, LedgerStep
<1>6. /\ r.contact \notin 1..Len(contacts) /\ r.contact \in {0, n} /\ n # 0
      /\ r.contact = 0 => ~r.ok
  <2>1. n \notin 0..Len(contacts) /\ 0 \notin 1..Len(contacts)
    BY <1>2
  <2> HIDE DEF n, k
  <2>2. (r.contact = 0 /\ ~r.ok) \/ r.contact = n
    BY <1>1
  <2> QED
    BY <1>2, <2>1, <2>2
<1>7. r.contact = n => ~HasRow(cause, n) /\ ProxysOnly(events, cause, n)
  BY <1>2 DEF EffectsInv, RowsAgree, HasRow, ProxysOnly, ShapeInv, TablesInv
<1>8. /\ r.contact = 0 => ~r.ok
      /\ r.contact = n => /\ contacts'[n].provider = Current(k) /\ contacts'[n].decision = k.decision
                          /\ (r.ok => contacts'[n].ok) /\ Len(contacts') = n /\ Records(new)
  <2>1. CASE r.contact = 0
    BY <1>6, <2>1
  <2>2. CASE r.contact # 0
    <3>1. PICK slots, outcome :
             /\ Reaches(k.decision, Current(k), CallNames(k.decision, Current(k)), "direct", slots, outcome, FALSE)
             /\ r.contact = n /\ (r.ok => outcome.ok) /\ Records(new)
      BY <1>1, <2>2
    <3>2. ContactsGrow(k.decision, Current(k), CallNames(k.decision, Current(k)), "direct", slots,
                       outcome.ok, FALSE)
      BY <3>1, ContactAdded DEF ShapeInv
    <3> QED
      BY <2>2, <3>1, <3>2 DEF ContactsGrow
  <2> QED
    BY <2>1, <2>2
<1>9. Current(new) = Current(k) /\ new.decision = k.decision /\ new.tries = k.tries
  BY <1>1 DEF Kept, Current, ShadowIds
<1>10. ASSUME NEW d \in Callers
       PROVE  /\ CallAccounts(d, events', cause', contacts', call', handlers')
              /\ WaitAccounts(d, events', cause', call', handlers')
              /\ TriesAccount(d, cause', call')
  <2>1. CASE d = c
    <3>1. TriesAccount(c, cause, call)
      BY DEF EffectsInv, CallsAccount
    <3>2. TriesAccount(c, cause', call') /\ WaitAccounts(c, events', cause', call', handlers')
      BY <1>1, <1>2, <1>3, <1>9, <3>1 DEF TriesAccount, WaitAccounts, LedgerStep
    <3>3. Answers(contacts', r, Current(k), k.decision)
      BY <1>2, <1>3, <1>6, <1>8 DEF Answers, LedgerStep, ContactsKept
    <3>4. r.contact # 0 =>
            /\ ProxysOnly(events', cause', r.contact)
            /\ Records(new) /\ ~HasRow(cause', r.contact)
            /\ \A b \in Callers : call'[b].pc = "called" /\ call'[b].result.contact = r.contact => b = c
            /\ \A h \in 1..Len(handlers) : handlers[h].result.contact # r.contact
      BY <1>1, <1>2, <1>3, <1>5, <1>6, <1>7, <1>8 DEF LedgerStep
    <3> QED
      BY <1>1, <1>2, <1>9, <2>1, <3>2, <3>3, <3>4 DEF CallAccounts
  <2>2. CASE d # c
    <3>1. CallAccounts(d, events, cause, contacts, call, handlers)
      BY DEF EffectsInv, CallsAccount
    <3>2. call[d].pc = "called" /\ call[d].result.contact # 0 =>
           /\ \A b \in Callers : call'[b].pc = "called" /\ call'[b].result.contact = call[d].result.contact => b = d
           /\ \A h \in 1..Len(handlers') : handlers'[h].result.contact = call[d].result.contact =>
                handlers'[h].pc = "answered" /\ handlers'[h].caller = d
      BY <1>1, <1>2, <1>5, <1>6, <3>1 DEF CallAccounts
    <3> QED
      BY <1>2, <1>3, <2>2, <3>2, CallerStands DEF EffectsInv
  <2> QED
    BY <2>1, <2>2
<1> QED
  BY <1>3, <1>4, <1>10 DEF EffectsInv, CallsAccount

\* A call handed to the proxy: its thread has no contact yet.
LEMMA HandedKeepsEffects ==
  ASSUME ShapeInv, EffectsInv, NEW c \in Callers, AttemptByProxy(c)
  PROVE  EffectsInv'
<1> DEFINE k == call[c]
           n == Len(handlers)
<1>1. PICK m, new :
         /\ ~IsSdk(k.options) /\ Set(c, new) /\ Kept(k, new) /\ new.pc = "waiting" /\ new.handler = n + 1
         /\ handlers' = Append(handlers, m) /\ m.caller = c /\ m.pc = "received"
         /\ m.decision = k.decision /\ m.provider = Current(k)
         /\ m.twice = (k.options.proxyUrl # "url") /\ m.result = NoResult /\ m.source = <<>>
         /\ UNCHANGED <<events, contacts, cause>>
  BY HandedOver
<1>2. /\ call'[c] = new /\ \A d \in Callers : d # c => call'[d] = call[d]
      /\ n \in Nat /\ Len(handlers') = n + 1 /\ handlers'[n + 1] = m
      /\ \A h \in 1..n : handlers'[h] = handlers[h]
      /\ \A h \in 1..n + 1 : h \in 1..n \/ h = n + 1
  BY <1>1, CallSet, Appended DEF ShapeInv, ThreadsInv, IsSequence
<1>3. RowsAgree' /\ RowsApart' /\ LedgerStep({}, "proxy")
  BY <1>1, NoRow
<1>4. m.result.contact = 0 /\ ~m.result.ok
  BY <1>1, ResultShape DEF NoResult
<1> HIDE DEF n
<1>5. ThreadsAccount'
  <2>1. ThreadAccounts(n + 1, events', cause', contacts', handlers')
    BY <1>1, <1>2, <1>3, <1>4 DEF ThreadAccounts, Answers, LedgerStep, ContactsKept
  <2>2. ASSUME NEW h \in 1..n PROVE ThreadAccounts(h, events', cause', contacts', handlers')
    <3>1. ThreadAccounts(h, events, cause, contacts, handlers)
      BY DEF EffectsInv, ThreadsAccount, n
    <3>2. handlers[h].result.contact # 0 =>
            \A g \in 1..Len(handlers') : handlers'[g].result.contact = handlers[h].result.contact => g = h
      BY <1>2, <1>4, <3>1 DEF ThreadAccounts, n
    <3> QED
      BY <1>2, <1>3, <3>1, <3>2, ThreadStands
  <2> QED
    BY <1>2, <2>1, <2>2 DEF ThreadsAccount
<1>6. Current(new) = Current(k) /\ new.decision = k.decision /\ new.tries = k.tries /\ new.options = k.options
  BY <1>1 DEF Kept, Current, ShadowIds
<1>7. ASSUME NEW d \in Callers
      PROVE  /\ CallAccounts(d, events', cause', contacts', call', handlers')
             /\ WaitAccounts(d, events', cause', call', handlers')
             /\ TriesAccount(d, cause', call')
  <2>0. /\ CallAccounts(d, events, cause, contacts, call, handlers) /\ TriesAccount(d, cause, call)
        /\ WaitAccounts(d, events, cause, call, handlers)
    BY DEF EffectsInv, CallsAccount
  <2>1. CASE d = c
    <3>1. TriesAccount(c, cause', call') /\ CallAccounts(c, events', cause', contacts', call', handlers')
      BY <1>1, <1>2, <1>3, <1>6, <2>0, <2>1 DEF TriesAccount, CallAccounts, LedgerStep
    <3>2. WaitAccounts(c, events', cause', call', handlers')
      BY <1>1, <1>2, <1>4, <1>6 DEF WaitAccounts, n
    <3> QED
      BY <2>1, <3>1, <3>2
  <2>2. CASE d # c
    <3>1. call[d].pc = "called" /\ call[d].result.contact # 0 =>
           /\ \A b \in Callers : call'[b].pc = "called" /\ call'[b].result.contact = call[d].result.contact => b = d
           /\ \A h \in 1..Len(handlers') : handlers'[h].result.contact = call[d].result.contact =>
                handlers'[h].pc = "answered" /\ handlers'[h].caller = d
      BY <1>1, <1>2, <1>4, <2>0 DEF CallAccounts, n
    <3>2. call[d].pc = "waiting" => handlers'[call[d].handler] = handlers[call[d].handler]
      BY <1>2, <2>0 DEF WaitAccounts, n
    <3>3. Len(handlers') >= Len(handlers) /\ Len(handlers) \in Nat /\ Len(handlers') \in Nat
      BY <1>2 DEF n
    <3> QED
      BY <1>2, <1>3, <2>2, <3>1, <3>2, <3>3, CallerStands DEF EffectsInv
  <2> QED
    BY <2>1, <2>2
<1> QED
  BY <1>3, <1>5, <1>7 DEF EffectsInv, CallsAccount

\* A wait that ends: the thread's contact, if there is one, is now the caller's.
LEMMA WaitedKeepsEffects ==
  ASSUME ShapeInv, EffectsInv, NEW c \in Callers, TakeAnswer(c) \/ GiveUp(c)
  PROVE  EffectsInv'
<1> DEFINE k == call[c]
           m == handlers[k.handler]
<1>1. PICK r, new :
         /\ k.pc = "waiting" /\ Set(c, new) /\ Kept(k, new) /\ new.pc = "called" /\ new.result = r
         /\ UNCHANGED <<events, handlers, contacts, cause>>
         /\ \/ r.contact = 0 /\ ~r.ok
            \/ m.pc = "answered" /\ r.contact = m.result.contact /\ r.ok = m.result.ok
  BY Waited
<1>2. /\ call'[c] = new /\ \A d \in Callers : d # c => call'[d] = call[d]
      /\ Len(handlers) \in Nat /\ handlers' = handlers
  BY <1>1, CallSet DEF ShapeInv, ThreadsInv, IsSequence
<1>3. RowsAgree' /\ RowsApart' /\ LedgerStep({}, "proxy")
  BY <1>1, NoRow
<1>4. ThreadsAccount'
  BY <1>1, <1>3, ThreadsStand DEF EffectsInv
<1>5. /\ k.handler \in 1..Len(handlers) /\ ~IsSdk(k.options)
      /\ m.caller = c /\ m.provider = Current(k) /\ m.decision = k.decision
      /\ m.twice = (k.options.proxyUrl # "url")
      /\ m.result.contact # 0 => ProxysOnly(events, cause, m.result.contact)
  BY <1>1 DEF EffectsInv, CallsAccount, WaitAccounts
<1>6. /\ Answers(contacts, m.result, m.provider, m.decision)
      /\ m.result.contact # 0 =>
           /\ contacts[m.result.contact].twice = m.twice
           /\ m.pc = "answered" => HasRow(cause, m.result.contact)
           /\ \A g \in 1..Len(handlers) : handlers[g].result.contact = m.result.contact => g = k.handler
  BY <1>5 DEF EffectsInv, ThreadsAccount, ThreadAccounts
<1>7. Current(new) = Current(k) /\ new.decision = k.decision /\ new.tries = k.tries /\ new.options = k.options
  BY <1>1 DEF Kept, Current, ShadowIds
<1>8. r.contact # 0 => m.pc = "answered" /\ r.contact = m.result.contact /\ r.ok = m.result.ok
  BY <1>1
<1>9. contacts' = contacts /\ cause' = cause /\ events' = events
  BY <1>1
<1>10. ASSUME NEW d \in Callers, d # c, call[d].pc = "called", call[d].result.contact # 0
       PROVE  call[d].result.contact # r.contact
  <2>1. CallAccounts(d, events, cause, contacts, call, handlers)
    BY DEF EffectsInv, CallsAccount
  <2> QED
    BY <1>5, <1>8, <1>10, <2>1 DEF CallAccounts
<1>11. ASSUME NEW d \in Callers
       PROVE  /\ CallAccounts(d, events', cause', contacts', call', handlers')
              /\ WaitAccounts(d, events', cause', call', handlers')
              /\ TriesAccount(d, cause', call')
  <2>0. /\ CallAccounts(d, events, cause, contacts, call, handlers) /\ TriesAccount(d, cause, call)
    BY DEF EffectsInv, CallsAccount
  <2>1. CASE d = c
    <3>1. TriesAccount(c, cause', call') /\ WaitAccounts(c, events', cause', call', handlers')
      BY <1>1, <1>2, <1>7, <1>9, <2>0, <2>1 DEF TriesAccount, WaitAccounts
    <3>2. Answers(contacts, r, Current(k), k.decision)
      <4>1. CASE r.contact = 0
        BY <1>1, <1>6, <4>1 DEF Answers, ShapeInv, TablesInv, IsSequence
      <4>2. CASE r.contact # 0
        BY <1>5, <1>6, <1>8, <4>2 DEF Answers
      <4> QED
        BY <4>1, <4>2
    <3>3. r.contact # 0 =>
            /\ ProxysOnly(events, cause, r.contact) /\ HasRow(cause, r.contact)
            /\ Records(new) => contacts[r.contact].twice
            /\ \A b \in Callers : call'[b].pc = "called" /\ call'[b].result.contact = r.contact => b = c
            /\ \A h \in 1..Len(handlers) : handlers[h].result.contact = r.contact =>
                 handlers[h].pc = "answered" /\ handlers[h].caller = c
      <4>1. Records(new) => m.twice
        BY <1>5, <1>7 DEF Records
      <4>2. \A b \in Callers : r.contact # 0 /\ call'[b].pc = "called" /\ call'[b].result.contact = r.contact => b = c
        BY <1>2, <1>10
      <4> QED
        BY <1>5, <1>6, <1>8, <4>1, <4>2
    <3> QED
      BY <1>1, <1>2, <1>7, <1>9, <2>1, <3>1, <3>2, <3>3 DEF CallAccounts
  <2>2. CASE d # c
    <3>1. call[d].pc = "called" /\ call[d].result.contact # 0 =>
           /\ \A b \in Callers : call'[b].pc = "called" /\ call'[b].result.contact = call[d].result.contact => b = d
           /\ \A h \in 1..Len(handlers') : handlers'[h].result.contact = call[d].result.contact =>
                handlers'[h].pc = "answered" /\ handlers'[h].caller = d
      BY <1>1, <1>2, <1>10, <2>0, <2>2 DEF CallAccounts
    <3> QED
      BY <1>2, <1>3, <2>2, <3>1, CallerStands DEF EffectsInv
  <2> QED
    BY <2>1, <2>2
<1> QED
  BY <1>3, <1>4, <1>11 DEF EffectsInv, CallsAccount

\* An attempt that is settled: its row, or the proxy's that is there already.
LEMMA SettledKeepsEffects ==
  ASSUME ShapeInv, EffectsInv, NEW c \in Callers, Settle(c) \/ SettleByAdapter(c)
  PROVE  EffectsInv'
<1> DEFINE k == call[c]
           p == Current(k)
           i == k.result.contact
<1>1. /\ k.pc = "called" /\ UNCHANGED <<handlers, contacts>>
      /\ IF Records(k) THEN \E row, mode : /\ RecordRow(row, i) /\ RowOf(row, mode, k.decision, p, k.result.ok)
                                           /\ mode \in {"direct", "shadow"}
         ELSE UNCHANGED store
      /\ \E final, again : Set(c, Tried(k, p, final, again)) /\ final.contact = i
  BY Settled
<1>2. PICK new, t : Set(c, new) /\ OneTryMore(k, new, p, i, t)
  <2>1. PICK final, again : Set(c, Tried(k, p, final, again)) /\ final.contact = i
    BY <1>1
  <2>2. DOMAIN k = CallFields
    BY DEF ShapeInv, CallsInv
  <2> HIDE DEF k, p, i
  <2>3. \E t : OneTryMore(k, Tried(k, p, final, again), p, final.contact, t)
    BY <2>2, AfterTry
  <2> QED
    BY <2>1, <2>3
<1>3. /\ call'[c] = new /\ \A d \in Callers : d # c => call'[d] = call[d]
      /\ Len(handlers) \in Nat /\ handlers' = handlers /\ contacts' = contacts /\ Len(contacts) \in Nat
  BY <1>1, <1>2, CallSet DEF ShapeInv, TablesInv, ThreadsInv, IsSequence
<1>4. /\ Answers(contacts, k.result, p, k.decision)
      /\ i # 0 => /\ ProxysOnly(events, cause, i)
                  /\ IF Records(k) THEN HasRow(cause, i) => contacts[i].twice ELSE HasRow(cause, i)
                  /\ \A d \in Callers : call[d].pc = "called" /\ call[d].result.contact = i => d = c
                  /\ \A h \in 1..Len(handlers) : handlers[h].result.contact = i =>
                       handlers[h].pc = "answered" /\ handlers[h].caller = c
  BY <1>1 DEF EffectsInv, CallsAccount, CallAccounts
<1>5. ContactsKept
  BY <1>3 DEF ContactsKept
<1>6. \E more, mode : /\ RowsAgree' /\ RowsApart' /\ LedgerStep(more, mode)
                      /\ more \subseteq {i} /\ (i # 0 => HasRow(cause', i))
  <2>1. CASE Records(k)
    <3>1. PICK row, mode : /\ RecordRow(row, i) /\ RowOf(row, mode, k.decision, p, k.result.ok)
                           /\ mode \in {"direct", "shadow"}
      BY <1>1, <2>1
    <3>2. RowsGrow(row, i)
      BY <3>1, RowAdded DEF ShapeInv
    <3>3. /\ i \in 0..Len(contacts') /\ (row.success => i # 0)
          /\ i # 0 => /\ RowIsOf(row, contacts'[i])
                      /\ HasRow(cause, i) => /\ contacts'[i].twice /\ row.mode # "proxy"
                                             /\ ProxysOnly(events, cause, i)
      BY <1>3, <1>4, <2>1, <3>1 DEF RowOf, RowIsOf, ProviderFor, DecisionFor, Answers
    <3> HIDE DEF i
    <3>4. RowsAgree' /\ RowsApart' /\ LedgerStep({i}, row.mode)
      BY <1>5, <3>2, <3>3, LedgerGrows DEF EffectsInv, ShapeInv
    <3> QED
      BY <3>4 DEF LedgerStep
  <2>2. CASE ~Records(k)
    <3>1. UNCHANGED <<events, cause>>
      BY <1>1, <2>2 DEF store
    <3>2. RowsAgree' /\ RowsApart' /\ LedgerStep({}, "proxy")
      BY <1>3, <3>1, NoRow
    <3>3. i # 0 => HasRow(cause', i)
      BY <1>4, <2>2, <3>1
    <3> QED
      BY <3>2, <3>3
  <2> QED
    BY <2>1, <2>2
<1>7. PICK more, mode : /\ RowsAgree' /\ RowsApart' /\ LedgerStep(more, mode)
                        /\ more \subseteq {i} /\ (i # 0 => HasRow(cause', i))
  BY <1>6
<1>8. ThreadsAccount'
  <2>1. ASSUME NEW h \in 1..Len(handlers), handlers[h].result.contact \in more \ {0}
        PROVE  handlers[h].pc # "forwarded" /\ handlers[h].source = <<>>
    <3>1. handlers[h].pc = "answered" /\ handlers[h].caller = c
      BY <1>4, <1>7, <2>1
    <3>2. handlers[h].source # <<>> => handlers[h].caller = Operator
      BY DEF EffectsInv, ThreadsAccount, ThreadAccounts
    <3> QED
      BY <3>1, <3>2, ShapeAssumption
  <2> QED
    BY <1>1, <1>7, <2>1, ThreadsStand DEF EffectsInv
<1>9. /\ new.pc \notin {"waiting", "called"} /\ new.tries = Append(k.tries, t) /\ t.contact = i
      /\ IsSequence(k.tries)
  BY <1>2 DEF OneTryMore, ShapeInv, CallsInv
<1>10. ASSUME NEW d \in Callers
       PROVE  /\ CallAccounts(d, events', cause', contacts', call', handlers')
              /\ WaitAccounts(d, events', cause', call', handlers')
              /\ TriesAccount(d, cause', call')
  <2>0. /\ CallAccounts(d, events, cause, contacts, call, handlers) /\ TriesAccount(d, cause, call)
        /\ WaitAccounts(d, events, cause, call, handlers)
    BY DEF EffectsInv, CallsAccount
  <2>1. CASE d = c
    <3>1. /\ CallAccounts(c, events', cause', contacts', call', handlers')
          /\ WaitAccounts(c, events', cause', call', handlers')
      BY <1>3, <1>9 DEF CallAccounts, WaitAccounts
    <3>2. /\ Len(new.tries) = Len(k.tries) + 1 /\ new.tries[Len(k.tries) + 1] = t /\ Len(k.tries) \in Nat
          /\ \A j \in 1..Len(k.tries) : new.tries[j] = k.tries[j]
      BY <1>9, Appended DEF IsSequence
    <3>3. \A j \in 1..Len(k.tries) + 1 : j \in 1..Len(k.tries) \/ j = Len(k.tries) + 1
      BY <3>2
    <3>4. \A j \in 1..Len(k.tries) : k.tries[j].contact # 0 => HasRow(cause', k.tries[j].contact)
      BY <1>7, <2>0, <2>1 DEF TriesAccount, LedgerStep
    <3>5. TriesAccount(c, cause', call')
      BY <1>3, <1>7, <1>9, <3>2, <3>3, <3>4 DEF TriesAccount
    <3> QED
      BY <2>1, <3>1, <3>5
  <2>2. CASE d # c
    <3>1. call[d].pc = "called" /\ call[d].result.contact # 0 =>
           /\ call[d].result.contact \notin more
           /\ \A b \in Callers : call'[b].pc = "called" /\ call'[b].result.contact = call[d].result.contact => b = d
           /\ \A h \in 1..Len(handlers') : handlers'[h].result.contact = call[d].result.contact =>
                handlers'[h].pc = "answered" /\ handlers'[h].caller = d
      BY <1>3, <1>4, <1>7, <1>9, <2>0, <2>2 DEF CallAccounts
    <3>2. call[d].pc = "waiting" /\ handlers[call[d].handler].result.contact # 0 =>
            handlers[call[d].handler].result.contact \notin more
      BY <1>4, <1>7, <2>0, <2>2 DEF WaitAccounts
    <3> QED
      BY <1>3, <1>7, <2>2, <3>1, <3>2, CallerStands DEF EffectsInv
  <2> QED
    BY <2>1, <2>2
<1> QED
  BY <1>7, <1>8, <1>10 DEF EffectsInv, CallsAccount

\* The callers, when one thread moves and has no contact that is a caller's.
LEMMA CallersStand ==
  ASSUME ShapeInv, EffectsInv, NEW h \in DOMAIN handlers, NEW m, SetHandler(h, m), Serves(handlers[h], m),
         UNCHANGED call, NEW new, NEW mode, LedgerStep(new, mode),
         \A d \in Callers : call[d].pc = "called" /\ call[d].result.contact # 0 =>
           /\ call[d].result.contact \notin new
           /\ m.result.contact = call[d].result.contact => m.pc = "answered" /\ m.caller = d,
         \A g \in 1..Len(handlers) : handlers'[g].result.contact # 0 /\ handlers[g].caller \in Callers =>
           /\ handlers'[g].result.contact \in new => mode = "proxy"
           /\ \/ handlers'[g].result.contact = handlers[g].result.contact
              \/ ProxysOnly(events, cause, handlers'[g].result.contact)
  PROVE  CallsAccount'
<1>1. /\ Len(handlers') = Len(handlers) /\ h \in 1..Len(handlers) /\ Len(handlers) \in Nat
      /\ handlers'[h] = m /\ \A g \in 1..Len(handlers) : g # h => handlers'[g] = handlers[g]
  BY ThreadSet DEF ShapeInv, ThreadsInv, IsSequence
<1>2. call' = call
  OBVIOUS
<1> SUFFICES ASSUME NEW d \in Callers
             PROVE  /\ CallAccounts(d, events', cause', contacts', call', handlers')
                    /\ WaitAccounts(d, events', cause', call', handlers')
                    /\ TriesAccount(d, cause', call')
  BY DEF CallsAccount
<1>3. /\ CallAccounts(d, events, cause, contacts, call, handlers)
      /\ WaitAccounts(d, events, cause, call, handlers)
  BY DEF EffectsInv, CallsAccount
<1>4. call[d].pc = "called" /\ call[d].result.contact # 0 =>
       /\ call[d].result.contact \notin new
       /\ \A b \in Callers : call'[b].pc = "called" /\ call'[b].result.contact = call[d].result.contact => b = d
       /\ \A g \in 1..Len(handlers') : handlers'[g].result.contact = call[d].result.contact =>
            handlers'[g].pc = "answered" /\ handlers'[g].caller = d
  BY <1>1, <1>2, <1>3 DEF CallAccounts
<1>5. call[d].pc = "waiting" => call[d].handler \in 1..Len(handlers) /\ handlers[call[d].handler].caller = d
  BY <1>3 DEF WaitAccounts
<1>6. \A g \in 1..Len(handlers) : /\ handlers'[g].caller = handlers[g].caller
                                  /\ handlers'[g].provider = handlers[g].provider
                                  /\ handlers'[g].decision = handlers[g].decision
                                  /\ handlers'[g].twice = handlers[g].twice
  BY <1>1 DEF Serves
<1> QED
  BY <1>1, <1>2, <1>4, <1>5, <1>6, CallerStands DEF EffectsInv

\* The other threads, when one of them moves.
LEMMA OthersStand ==
  ASSUME ShapeInv, ThreadsAccount, NEW h \in 1..Len(handlers), NEW m, SetHandler(h, m),
         m.result.contact = handlers[h].result.contact \/ m.result.contact \notin 1..Len(contacts),
         NEW new, NEW mode, LedgerStep(new, mode), new \cap 1..Len(contacts) \subseteq {handlers[h].result.contact},
         ThreadAccounts(h, events', cause', contacts', handlers')
  PROVE  ThreadsAccount'
<1>1. /\ Len(handlers') = Len(handlers) /\ Len(contacts) \in Nat
      /\ handlers'[h] = m /\ \A g \in 1..Len(handlers) : g # h => handlers'[g] = handlers[g]
  BY ThreadSet DEF ShapeInv, ThreadsInv, IsSequence, LedgerStep, ContactsKept
<1>2. ASSUME NEW g \in 1..Len(handlers), g # h PROVE ThreadAccounts(g, events', cause', contacts', handlers')
  <2> DEFINE j == handlers[g].result.contact
  <2>1. ThreadAccounts(g, events, cause, contacts, handlers)
    BY DEF ThreadsAccount
  <2>2. j # 0 => j \in 1..Len(contacts) /\ \A f \in 1..Len(handlers) : handlers[f].result.contact = j => f = g
    BY <1>1, <2>1 DEF ThreadAccounts, Answers
  <2>3. j # 0 => j # handlers[h].result.contact
    BY <1>2, <2>2
  <2>4. j # 0 => j \notin new
    BY <2>2, <2>3
  <2>5. j # 0 => \A f \in 1..Len(handlers') : handlers'[f].result.contact = j => f = g
    BY <1>1, <2>2, <2>3
  <2>6. handlers'[g] = handlers[g]
    BY <1>1, <1>2
  <2> QED
    BY <2>1, <2>4, <2>5, <2>6, ThreadStands
<1> QED
  BY <1>1, <1>2 DEF ThreadsAccount

\* A thread that refuses, admits or dies.
LEMMA ThreadMovesKeepEffects ==
  ASSUME ShapeInv, EffectsInv, NEW h \in DOMAIN handlers, HandlerReject(h) \/ HandlerAdmit(h) \/ HandlerFails(h)
  PROVE  EffectsInv'
<1> DEFINE m == handlers[h]
<1>1. PICK new :
           /\ SetHandler(h, new) /\ Serves(m, new)
           /\ UNCHANGED <<events, call, contacts, cause>>
           /\ \/ m.pc = "received" /\ new.pc # "forwarded" /\ new.result.contact = 0 /\ ~new.result.ok
              \/ m.pc # "answered" /\ new.pc = "lost" /\ new.result = m.result
  BY ThreadMoves
<1>2. /\ Len(handlers') = Len(handlers) /\ h \in 1..Len(handlers) /\ Len(handlers) \in Nat
      /\ handlers'[h] = new /\ \A g \in 1..Len(handlers) : g # h => handlers'[g] = handlers[g]
      /\ Len(contacts) \in Nat
  BY <1>1, ThreadSet DEF ShapeInv, TablesInv, ThreadsInv, IsSequence
<1>3. RowsAgree' /\ RowsApart' /\ LedgerStep({}, "proxy")
  BY <1>1, NoRow
<1>4. contacts' = contacts /\ cause' = cause /\ new.provider = m.provider /\ new.decision = m.decision /\ new.twice = m.twice
  BY <1>1 DEF Serves
<1>5. ThreadsAccount'
  <2>1. ThreadAccounts(h, events, cause, contacts, handlers)
    BY <1>2 DEF EffectsInv, ThreadsAccount
  <2>2. CASE new.result.contact = 0 /\ ~new.result.ok
    <3>1. new.source # <<>> => new.source = m.source /\ new.caller = m.caller
      BY <1>1 DEF Serves
    <3>2. ThreadAccounts(h, events', cause', contacts', handlers')
      BY <1>2, <1>4, <2>1, <2>2, <3>1 DEF ThreadAccounts, Answers
    <3>3. new.result.contact \notin 1..Len(contacts)
      BY <2>2
    <3> QED
      BY <1>1, <1>2, <1>3, <3>2, <3>3, OthersStand DEF EffectsInv
  <2>3. CASE new.pc = "lost" /\ new.result = m.result
    <3>1. new.source # <<>> => new.source = m.source /\ new.caller = m.caller
      BY <1>1 DEF Serves
    <3>2. \A f \in 1..Len(handlers) : handlers'[f].result = handlers[f].result
      BY <1>2, <2>3
    <3>3. ThreadAccounts(h, events', cause', contacts', handlers')
      BY <1>1, <1>2, <1>4, <2>1, <2>3, <3>1, <3>2 DEF ThreadAccounts, Serves
    <3> QED
      BY <1>1, <1>2, <1>3, <2>3, <3>3, OthersStand DEF EffectsInv
  <2> QED
    BY <1>1, <2>2, <2>3
<1>6. \A d \in Callers : call[d].pc = "called" /\ call[d].result.contact # 0 => new.result.contact # call[d].result.contact
  BY <1>1, <1>2 DEF EffectsInv, CallsAccount, CallAccounts
<1>7. \A g \in 1..Len(handlers) : handlers'[g].result.contact # 0 =>
        handlers'[g].result.contact = handlers[g].result.contact
  BY <1>1, <1>2
<1>8. CallsAccount'
  BY <1>1, <1>3, <1>6, <1>7, CallersStand
<1> QED
  BY <1>3, <1>5, <1>8 DEF EffectsInv

\* A thread that forwards: its contact is new, and has no row.
LEMMA ThreadSendsKeepsEffects ==
  ASSUME ShapeInv, EffectsInv, NEW h \in DOMAIN handlers, HandlerForward(h)
  PROVE  EffectsInv'
<1> DEFINE m == handlers[h]
           n == Len(contacts) + 1
<1>1. PICK outcome, new :
        /\ SetHandler(h, new) /\ Serves(m, new) /\ new.pc = "forwarded"
        /\ Reaches(m.decision, m.provider, m.as, ThreadEntry(m), m.slots, outcome, m.twice)
        /\ new.result.contact = n /\ (new.result.ok => outcome.ok)
        /\ UNCHANGED <<events, call, cause>>
  BY ThreadSends
<1>2. /\ Len(handlers') = Len(handlers) /\ h \in 1..Len(handlers) /\ Len(handlers) \in Nat
      /\ handlers'[h] = new /\ \A g \in 1..Len(handlers) : g # h => handlers'[g] = handlers[g]
      /\ Len(contacts) \in Nat
  BY <1>1, ThreadSet DEF ShapeInv, TablesInv, ThreadsInv, IsSequence
<1>3. RowsAgree' /\ RowsApart' /\ LedgerStep({}, "proxy")
  BY <1>1, NoRow
<1>4. /\ Len(contacts') = n /\ contacts'[n].provider = m.provider /\ contacts'[n].decision = m.decision
      /\ contacts'[n].ok = outcome.ok /\ contacts'[n].twice = m.twice /\ contacts'[n].as = m.as
  BY <1>1, ContactAdded DEF ContactsGrow, ShapeInv
<1>5. ~HasRow(cause, n) /\ ProxysOnly(events, cause, n) /\ n # 0 /\ n \notin 0..Len(contacts) /\ n \in 0..n
  BY <1>2 DEF EffectsInv, RowsAgree, HasRow, ProxysOnly, ShapeInv, TablesInv
<1>6. /\ \A g \in 1..Len(handlers) : handlers[g].result.contact \in 0..Len(contacts)
      /\ \A d \in Callers : call[d].pc = "called" => call[d].result.contact \in 0..Len(contacts)
      /\ \A i \in 0..Len(contacts) : i \in 0..Len(contacts') /\ (i # 0 => contacts'[i] = contacts[i])
  BY <1>3, KnownContacts DEF EffectsInv, LedgerStep
<1> HIDE DEF n
<1>7. new.provider = m.provider /\ new.decision = m.decision /\ new.twice = m.twice /\ cause' = cause
  BY <1>1 DEF Serves
<1>8. ThreadsAccount'
  <2>1. Answers(contacts', new.result, m.provider, m.decision)
    BY <1>1, <1>4, <1>5 DEF Answers
  <2>2. \A f \in 1..Len(handlers) : handlers'[f].result.contact = n => f = h
    BY <1>2, <1>5, <1>6
  <2>3. new.source # <<>> => /\ m.source # <<>> /\ new.source = m.source /\ new.caller = m.caller
    BY <1>1 DEF Serves
  <2>4. m.source # <<>> => /\ m.caller = Operator /\ m.twice
                           /\ m.source[1].provider = m.provider /\ m.source[1].decision = m.decision
    BY <1>2 DEF EffectsInv, ThreadsAccount, ThreadAccounts
  <2>5. ~HasRow(cause', n) /\ ProxysOnly(events', cause', n) /\ new.as = m.as
    BY <1>1, <1>5 DEF Serves
  <2>6. ThreadAccounts(h, events', cause', contacts', handlers')
    BY <1>1, <1>2, <1>4, <1>5, <1>7, <2>1, <2>2, <2>3, <2>4, <2>5 DEF ThreadAccounts
  <2>7. new.result.contact \notin 1..Len(contacts)
    BY <1>1, <1>2, <1>5
  <2> QED
    BY <1>1, <1>2, <1>3, <2>6, <2>7, OthersStand DEF EffectsInv
<1>9. \A d \in Callers : call[d].pc = "called" => call[d].result.contact # new.result.contact
  BY <1>1, <1>5, <1>6
<1>10. \A g \in 1..Len(handlers) :
         \/ handlers'[g].result.contact = handlers[g].result.contact
         \/ ProxysOnly(events, cause, handlers'[g].result.contact)
  BY <1>1, <1>2, <1>5
<1>11. CallsAccount'
  BY <1>1, <1>3, <1>9, <1>10, CallersStand
<1> QED
  BY <1>3, <1>8, <1>11 DEF EffectsInv

\* A thread that records: the first row of its contact.
LEMMA ThreadRecordsKeepsEffects ==
  ASSUME ShapeInv, IInv, EffectsInv, NEW h \in DOMAIN handlers, HandlerRecord(h)
  PROVE  EffectsInv'
<1> DEFINE m == handlers[h]
           i == m.result.contact
<1>1. PICK row, new :
        /\ m.pc \in {"refuse", "deny", "forwarded"}
        /\ SetHandler(h, new) /\ Serves(m, new) /\ new.pc = "answered" /\ new.result = m.result
        /\ RecordRow(row, i) /\ RowOf(row, "proxy", m.as.decision, m.as.provider, m.result.ok)
        /\ UNCHANGED <<call, contacts>>
  BY ThreadRecords
<1>2. /\ Len(handlers') = Len(handlers) /\ h \in 1..Len(handlers) /\ Len(handlers) \in Nat
      /\ handlers'[h] = new /\ \A g \in 1..Len(handlers) : g # h => handlers'[g] = handlers[g]
      /\ Len(contacts) \in Nat /\ contacts' = contacts
  BY <1>1, ThreadSet DEF ShapeInv, TablesInv, ThreadsInv, IsSequence
<1>3. /\ Answers(contacts, m.result, m.provider, m.decision)
      /\ i # 0 => /\ contacts[i].twice = m.twice /\ contacts[i].as = m.as
                  /\ m.pc = "forwarded" => ~HasRow(cause, i)
                  /\ \A g \in 1..Len(handlers) : handlers[g].result.contact = i => g = h
      /\ m.source # <<>> =>
           /\ m.caller = Operator /\ m.twice
           /\ m.source[1].provider = m.provider /\ m.source[1].decision = m.decision
           /\ i # 0 => ProxysOnly(events, cause, i)
  BY <1>2 DEF EffectsInv, ThreadsAccount, ThreadAccounts
<1>4. i # 0 => m.pc = "forwarded" /\ ~HasRow(cause, i)
  BY <1>1, <1>2, <1>3 DEF IInv, HandlersInv
<1>5. new.provider = m.provider /\ new.decision = m.decision /\ new.twice = m.twice
  BY <1>1 DEF Serves
<1>6. RowsAgree' /\ RowsApart' /\ LedgerStep({i}, "proxy")
  <2>1. RowsGrow(row, i) /\ TablesInv
    BY <1>1, RowAdded DEF ShapeInv
  <2>2. /\ i \in 0..Len(contacts') /\ (row.success => i # 0) /\ row.mode = "proxy"
        /\ i # 0 => RowIsOf(row, contacts'[i])
    BY <1>1, <1>2, <1>3 DEF RowOf, RowIsOf, ProviderFor, DecisionFor, Answers
  <2>3. ContactsKept
    BY <1>2 DEF ContactsKept
  <2> HIDE DEF i
  <2>4. RowsAgree' /\ RowsApart' /\ LedgerStep({i}, row.mode)
    BY <1>4, <2>1, <2>2, <2>3, LedgerGrows DEF EffectsInv
  <2> QED
    BY <2>2, <2>4
<1>7. ThreadsAccount'
  <2>1. \A f \in 1..Len(handlers) : handlers'[f].result = handlers[f].result
    BY <1>1, <1>2
  <2>2. /\ HasRow(cause', i) /\ (ProxysOnly(events, cause, i) => ProxysOnly(events', cause', i))
    BY <1>6 DEF LedgerStep
  <2>3. /\ new.as = m.as
        /\ new.source # <<>> => m.source # <<>> /\ new.source = m.source /\ new.caller = m.caller
    BY <1>1 DEF Serves
  <2>4. ThreadAccounts(h, events', cause', contacts', handlers')
    BY <1>1, <1>2, <1>3, <1>5, <2>1, <2>2, <2>3 DEF ThreadAccounts
  <2>5. {i} \cap 1..Len(contacts) \subseteq {i}
    OBVIOUS
  <2> QED
    BY <1>1, <1>2, <1>6, <2>4, <2>5, OthersStand DEF EffectsInv
<1>8. \A d \in Callers : call[d].pc = "called" /\ call[d].result.contact # 0 => call[d].result.contact # i
  BY <1>1, <1>2 DEF EffectsInv, CallsAccount, CallAccounts
<1>9. \A g \in 1..Len(handlers) : handlers'[g].result.contact = handlers[g].result.contact
  BY <1>1, <1>2
<1>10. CallsAccount'
  BY <1>1, <1>6, <1>8, <1>9, CallersStand
<1> QED
  BY <1>6, <1>7, <1>10 DEF EffectsInv

\* A replay: a contact of its own, and at most one row of it.
LEMMA RepliedKeepsEffects ==
  ASSUME ShapeInv, EffectsInv, NEW i \in DOMAIN events, NEW r, RepliedHere(events[i], r),
         UNCHANGED <<call, handlers>>
  PROVE  EffectsInv'
<1> DEFINE e == events[i]
           n == Len(contacts) + 1
           names == CallNames(e.decision, e.provider)
<1>1. /\ UNCHANGED <<call, handlers>>
      /\ \/ r.contact = 0 /\ ~r.ok /\ UNCHANGED contacts
         \/ \E slots, outcome : /\ Reaches(e.decision, e.provider, names, "replay", slots, outcome, FALSE)
                                /\ r.contact = n /\ (r.ok => outcome.ok)
      /\ UNCHANGED store \/ RecordRow(ReplayRow(e, r), r.contact)
  BY DEF RepliedHere
<1> HIDE DEF names
<1>2. Len(contacts) \in Nat /\ DOMAIN e = DOMAIN NoEvent /\ TablesInv /\ Len(handlers) \in Nat
  BY DEF ShapeInv, TablesInv, ThreadsInv, IsSequence
<1>3. /\ ContactsKept
      /\ r.contact \in 0..Len(contacts') /\ r.contact \notin 1..Len(contacts) /\ (r.ok => r.contact # 0)
      /\ r.contact # 0 => /\ contacts'[r.contact].provider = e.provider
                          /\ contacts'[r.contact].decision = e.decision
                          /\ r.ok => contacts'[r.contact].ok
  <2>1. CASE r.contact = 0 /\ ~r.ok /\ UNCHANGED contacts
    BY <1>2, <2>1 DEF ContactsKept
  <2>2. CASE \E slots, outcome : /\ Reaches(e.decision, e.provider, names, "replay", slots, outcome, FALSE)
                                 /\ r.contact = n /\ (r.ok => outcome.ok)
    <3>1. PICK slots, outcome : /\ Reaches(e.decision, e.provider, names, "replay", slots, outcome, FALSE)
                                /\ r.contact = n /\ (r.ok => outcome.ok)
      BY <2>2
    <3>2. ContactsGrow(e.decision, e.provider, names, "replay", slots, outcome.ok, FALSE)
      BY <1>2, <3>1, ContactAdded
    <3> HIDE DEF e
    <3> QED
      BY <1>2, <3>1, <3>2 DEF ContactsGrow, ContactsKept
  <2> QED
    BY <1>1, <2>1, <2>2
<1>4. /\ \A h \in 1..Len(handlers) : handlers[h].result.contact \in 0..Len(contacts)
      /\ \A c \in Callers : call[c].pc = "called" => call[c].result.contact \in 0..Len(contacts)
  BY <1>3, KnownContacts DEF EffectsInv
<1>5. \E new, mode : /\ RowsAgree' /\ RowsApart' /\ LedgerStep(new, mode)
                     /\ new \subseteq {r.contact}
  <2>1. CASE UNCHANGED store
    <3>1. RowsKept
      BY <2>1 DEF RowsKept, store
    <3>2. RowsAgree' /\ RowsApart' /\ LedgerStep({}, "proxy")
      BY <1>2, <1>3, <3>1, LedgerKept DEF EffectsInv
    <3> QED
      BY <3>2
  <2>2. CASE RecordRow(ReplayRow(e, r), r.contact)
    <3> DEFINE row == ReplayRow(e, r)
    <3>1. row.mode = "replay" /\ row.decision = e.decision /\ row.provider = e.provider /\ row.success = r.ok
      BY <1>2, ReplayRowOf
    <3>2. RowsGrow(row, r.contact)
      BY <1>2, <2>2, RowAdded
    <3> HIDE DEF row, e
    <3>3. r.contact # 0 => ~HasRow(cause, r.contact)
      BY <1>2, <1>3 DEF EffectsInv, RowsAgree, HasRow, TablesInv, ContactsKept
    <3>4. r.contact # 0 => RowIsOf(row, contacts'[r.contact])
      BY <1>3, <3>1 DEF RowIsOf, ProviderFor, DecisionFor
    <3>5. RowsAgree' /\ RowsApart' /\ LedgerStep({r.contact}, row.mode)
      BY <1>2, <1>3, <3>1, <3>2, <3>3, <3>4, LedgerGrows DEF EffectsInv
    <3> QED
      BY <3>5
  <2> QED
    BY <1>1, <2>1, <2>2
<1>6. PICK new, mode : /\ RowsAgree' /\ RowsApart' /\ LedgerStep(new, mode)
                       /\ new \subseteq {r.contact}
  BY <1>5
<1>7. \A j \in 0..Len(contacts) : j \notin new \ {0}
  BY <1>2, <1>3, <1>6
<1>8. ThreadsAccount'
  BY <1>1, <1>4, <1>6, <1>7, ThreadsStand DEF EffectsInv
<1>9. ASSUME NEW d \in Callers
      PROVE  /\ CallAccounts(d, events', cause', contacts', call', handlers')
             /\ WaitAccounts(d, events', cause', call', handlers')
             /\ TriesAccount(d, cause', call')
  <2>1. /\ CallAccounts(d, events, cause, contacts, call, handlers)
        /\ WaitAccounts(d, events, cause, call, handlers)
    BY DEF EffectsInv, CallsAccount
  <2>2. call' = call /\ handlers' = handlers
    BY <1>1
  <2>3. call[d].pc = "called" /\ call[d].result.contact # 0 =>
         /\ call[d].result.contact \notin new
         /\ \A b \in Callers : call'[b].pc = "called" /\ call'[b].result.contact = call[d].result.contact => b = d
         /\ \A h \in 1..Len(handlers') : handlers'[h].result.contact = call[d].result.contact =>
              handlers'[h].pc = "answered" /\ handlers'[h].caller = d
    BY <1>4, <1>7, <2>1, <2>2 DEF CallAccounts
  <2>4. call[d].pc = "waiting" /\ handlers[call[d].handler].result.contact # 0 =>
          handlers[call[d].handler].result.contact \notin new
    BY <1>4, <1>7, <2>1 DEF WaitAccounts
  <2> QED
    BY <1>2, <1>6, <2>2, <2>3, <2>4, CallerStands DEF EffectsInv
<1> QED
  BY <1>6, <1>8, <1>9 DEF EffectsInv, CallsAccount

\* A replay handed to the proxy: its thread has no contact yet, and no caller
\* waits for it.
LEMMA HandedBackKeepsEffects ==
  ASSUME ShapeInv, EffectsInv, NEW e, NEW m, HandedBack(e, m), UNCHANGED call
  PROVE  EffectsInv'
<1> DEFINE n == Len(handlers)
<1>1. /\ handlers' = Append(handlers, m) /\ m.caller = Operator /\ m.pc = "received"
      /\ m.decision = e.decision /\ m.provider = e.provider /\ m.twice = TRUE
      /\ m.result = NoResult /\ m.source = <<e>> /\ UNCHANGED <<events, contacts, cause>> /\ call' = call
  BY DEF HandedBack
<1>2. /\ n \in Nat /\ Len(handlers') = n + 1 /\ handlers'[n + 1] = m
      /\ \A h \in 1..n : handlers'[h] = handlers[h]
      /\ \A h \in 1..n + 1 : h \in 1..n \/ h = n + 1
  BY <1>1, Appended DEF ShapeInv, ThreadsInv, IsSequence
<1>3. RowsAgree' /\ RowsApart' /\ LedgerStep({}, "proxy")
  BY <1>1, NoRow
<1>4. m.result.contact = 0 /\ ~m.result.ok /\ m.source[1] = e
  BY <1>1, ResultShape DEF NoResult
<1> HIDE DEF n
<1>5. ThreadsAccount'
  <2>1. ThreadAccounts(n + 1, events', cause', contacts', handlers')
    BY <1>1, <1>2, <1>3, <1>4 DEF ThreadAccounts, Answers, LedgerStep, ContactsKept
  <2>2. ASSUME NEW h \in 1..n PROVE ThreadAccounts(h, events', cause', contacts', handlers')
    <3>1. ThreadAccounts(h, events, cause, contacts, handlers)
      BY DEF EffectsInv, ThreadsAccount, n
    <3>2. handlers[h].result.contact # 0 =>
            \A g \in 1..Len(handlers') : handlers'[g].result.contact = handlers[h].result.contact => g = h
      BY <1>2, <1>4, <3>1 DEF ThreadAccounts, n
    <3> QED
      BY <1>2, <1>3, <3>1, <3>2, ThreadStands
  <2> QED
    BY <1>2, <2>1, <2>2 DEF ThreadsAccount
<1>6. ASSUME NEW d \in Callers
      PROVE  /\ CallAccounts(d, events', cause', contacts', call', handlers')
             /\ WaitAccounts(d, events', cause', call', handlers')
             /\ TriesAccount(d, cause', call')
  <2>1. /\ CallAccounts(d, events, cause, contacts, call, handlers)
        /\ WaitAccounts(d, events, cause, call, handlers)
    BY DEF EffectsInv, CallsAccount
  <2>2. call[d].pc = "called" /\ call[d].result.contact # 0 =>
         /\ \A b \in Callers : call'[b].pc = "called" /\ call'[b].result.contact = call[d].result.contact => b = d
         /\ \A h \in 1..Len(handlers') : handlers'[h].result.contact = call[d].result.contact =>
              handlers'[h].pc = "answered" /\ handlers'[h].caller = d
    BY <1>1, <1>2, <1>4, <2>1 DEF CallAccounts, n
  <2>3. call[d].pc = "waiting" => handlers'[call[d].handler] = handlers[call[d].handler]
    BY <1>2, <2>1 DEF WaitAccounts, n
  <2>4. Len(handlers') >= Len(handlers) /\ Len(handlers) \in Nat /\ Len(handlers') \in Nat
    BY <1>2 DEF n
  <2> QED
    BY <1>1, <1>3, <2>2, <2>3, <2>4, CallerStands DEF EffectsInv
<1> QED
  BY <1>3, <1>5, <1>6 DEF EffectsInv, CallsAccount

LEMMA ReplayKeepsEffects ==
  ASSUME ShapeInv, EffectsInv, NEW i \in DOMAIN events, Replay(i)
  PROVE  EffectsInv'
BY Replayed, RepliedKeepsEffects, HandedBackKeepsEffects

\* A replay that has waited: the second row of the thread's contact, or one of
\* no contact, or none.
LEMMA FinishKeepsEffects ==
  ASSUME ShapeInv, EffectsInv, NEW h \in DOMAIN handlers, FinishReplay(h)
  PROVE  EffectsInv'
<1> DEFINE m == handlers[h]
           e == m.source[1]
<1>1. PICK r, new :
        /\ m.source # <<>> /\ SetHandler(h, new) /\ Serves(m, new)
        /\ new.pc = m.pc /\ new.result = m.result /\ new.source = <<>>
        /\ UNCHANGED <<call, contacts>>
        /\ \/ r.contact = 0 /\ ~r.ok
           \/ m.pc = "answered" /\ r = m.result
        /\ UNCHANGED store \/ RecordRow(ReplayRow(e, r), r.contact)
  BY Finished
<1>2. /\ Len(handlers') = Len(handlers) /\ h \in 1..Len(handlers) /\ Len(handlers) \in Nat
      /\ handlers'[h] = new /\ \A g \in 1..Len(handlers) : g # h => handlers'[g] = handlers[g]
      /\ Len(contacts) \in Nat /\ contacts' = contacts
  BY <1>1, ThreadSet DEF ShapeInv, TablesInv, ThreadsInv, IsSequence
<1>3. /\ Answers(contacts, m.result, m.provider, m.decision)
      /\ m.result.contact # 0 =>
           /\ contacts[m.result.contact].twice = m.twice /\ contacts[m.result.contact].as = m.as
           /\ m.pc = "forwarded" => ~HasRow(cause, m.result.contact)
           /\ m.pc = "answered" => HasRow(cause, m.result.contact)
           /\ \A g \in 1..Len(handlers) : handlers[g].result.contact = m.result.contact => g = h
      /\ m.caller = Operator /\ m.twice /\ e.provider = m.provider /\ e.decision = m.decision
      /\ m.result.contact # 0 => ProxysOnly(events, cause, m.result.contact)
  BY <1>1, <1>2 DEF EffectsInv, ThreadsAccount, ThreadAccounts
<1>4. TablesInv /\ DOMAIN e = DOMAIN NoEvent
  BY <1>1, <1>2 DEF ShapeInv, ThreadsInv
<1>5. /\ new.provider = m.provider /\ new.decision = m.decision /\ new.twice = m.twice /\ new.as = m.as
  BY <1>1 DEF Serves
<1>6. ContactsKept
  BY <1>2 DEF ContactsKept
<1> HIDE DEF e
<1>7. \E more, mode : /\ RowsAgree' /\ RowsApart' /\ LedgerStep(more, mode) /\ mode # "proxy"
                      /\ more \subseteq {r.contact}
  <2>1. CASE UNCHANGED store
    <3>1. RowsKept
      BY <2>1 DEF RowsKept, store
    <3>2. RowsAgree' /\ RowsApart' /\ LedgerStep({}, "proxy")
      BY <1>4, <1>6, <3>1, LedgerKept DEF EffectsInv
    <3>3. LedgerStep({}, "replay")
      BY <3>2 DEF LedgerStep
    <3> QED
      BY <3>2, <3>3
  <2>2. CASE RecordRow(ReplayRow(e, r), r.contact)
    <3> DEFINE row == ReplayRow(e, r)
    <3>1. row.mode = "replay" /\ row.decision = e.decision /\ row.provider = e.provider /\ row.success = r.ok
      BY <1>4, ReplayRowOf
    <3>2. RowsGrow(row, r.contact)
      BY <1>4, <2>2, RowAdded
    <3> HIDE DEF row
    <3>3. /\ r.contact \in 0..Len(contacts') /\ (row.success => r.contact # 0)
          /\ r.contact # 0 => /\ RowIsOf(row, contacts'[r.contact]) /\ contacts'[r.contact].twice
                              /\ ProxysOnly(events, cause, r.contact)
      <4>1. CASE r.contact = 0 /\ ~r.ok
        BY <1>2, <3>1, <4>1
      <4>2. CASE r = m.result
        BY <1>2, <1>3, <3>1, <4>2 DEF Answers, RowIsOf, ProviderFor, DecisionFor
      <4> QED
        BY <1>1, <4>1, <4>2
    <3>4. RowsAgree' /\ RowsApart' /\ LedgerStep({r.contact}, row.mode)
      BY <1>4, <1>6, <3>1, <3>2, <3>3, LedgerGrows DEF EffectsInv
    <3> QED
      BY <3>1, <3>4
  <2> QED
    BY <1>1, <2>1, <2>2
<1>8. PICK more, mode : /\ RowsAgree' /\ RowsApart' /\ LedgerStep(more, mode) /\ mode # "proxy"
                        /\ more \subseteq {r.contact}
  BY <1>7
<1>9. r.contact = 0 \/ (m.pc = "answered" /\ r.contact = m.result.contact)
  BY <1>1
<1>10. ThreadsAccount'
  <2>1. \A f \in 1..Len(handlers) : handlers'[f].result = handlers[f].result
    BY <1>1, <1>2
  <2>2. m.result.contact # 0 /\ m.pc = "forwarded" => ~HasRow(cause', m.result.contact)
    BY <1>3, <1>8, <1>9 DEF LedgerStep
  <2>3. m.result.contact # 0 /\ m.pc = "answered" => HasRow(cause', m.result.contact)
    BY <1>3, <1>8 DEF LedgerStep
  <2>4. ThreadAccounts(h, events', cause', contacts', handlers')
    BY <1>1, <1>2, <1>3, <1>5, <2>1, <2>2, <2>3 DEF ThreadAccounts
  <2>5. more \cap 1..Len(contacts) \subseteq {handlers[h].result.contact}
    BY <1>8, <1>9
  <2> QED
    BY <1>1, <1>2, <1>8, <2>4, <2>5, OthersStand DEF EffectsInv
<1>11. \A d \in Callers : call[d].pc = "called" /\ call[d].result.contact # 0 =>
         /\ call[d].result.contact \notin more
         /\ new.result.contact # call[d].result.contact
  <2> SUFFICES ASSUME NEW d \in Callers, call[d].pc = "called", call[d].result.contact # 0
               PROVE  call[d].result.contact \notin more /\ new.result.contact # call[d].result.contact
    OBVIOUS
  <2>1. m.result.contact = call[d].result.contact => m.caller = d
    BY <1>2 DEF EffectsInv, CallsAccount, CallAccounts
  <2>2. m.result.contact # call[d].result.contact
    BY <1>3, <2>1, ShapeAssumption
  <2> QED
    BY <1>1, <1>8, <1>9, <2>2
<1>12. \A g \in 1..Len(handlers) : handlers'[g].result.contact # 0 /\ handlers[g].caller \in Callers =>
         /\ handlers'[g].result.contact \notin more
         /\ handlers'[g].result.contact = handlers[g].result.contact
  <2> SUFFICES ASSUME NEW g \in 1..Len(handlers), handlers'[g].result.contact # 0, handlers[g].caller \in Callers
               PROVE  /\ handlers'[g].result.contact \notin more
                      /\ handlers'[g].result.contact = handlers[g].result.contact
    OBVIOUS
  <2>1. handlers'[g].result.contact = handlers[g].result.contact
    BY <1>1, <1>2
  <2>2. g # h
    BY <1>3, ShapeAssumption
  <2>3. m.result.contact # 0 => handlers[g].result.contact # m.result.contact
    BY <1>3, <2>2
  <2> QED
    BY <1>8, <1>9, <2>1, <2>3
<1>13. CallsAccount'
  BY <1>1, <1>8, <1>11, <1>12, CallersStand
<1> QED
  BY <1>8, <1>10, <1>13 DEF EffectsInv

\* A step that touches no account: a golden mark, or none at all.
LEMMA MarksKeepEffects ==
  ASSUME ShapeInv, EffectsInv, RowsKept, UNCHANGED <<call, handlers, contacts>>
  PROVE  EffectsInv'
<1>1. Len(contacts) \in Nat /\ TablesInv /\ Len(handlers) \in Nat
  BY DEF ShapeInv, TablesInv, ThreadsInv, IsSequence
<1>2. ContactsKept
  BY <1>1 DEF ContactsKept
<1>3. RowsAgree' /\ RowsApart' /\ LedgerStep({}, "proxy")
  BY <1>1, <1>2, LedgerKept DEF EffectsInv
<1>4. ThreadsAccount'
  BY <1>3, ThreadsStand DEF EffectsInv
<1>5. ASSUME NEW d \in Callers
      PROVE  /\ CallAccounts(d, events', cause', contacts', call', handlers')
             /\ WaitAccounts(d, events', cause', call', handlers')
             /\ TriesAccount(d, cause', call')
  <2>1. CallAccounts(d, events, cause, contacts, call, handlers)
    BY DEF EffectsInv, CallsAccount
  <2>2. call[d].pc = "called" /\ call[d].result.contact # 0 =>
         /\ \A b \in Callers : call'[b].pc = "called" /\ call'[b].result.contact = call[d].result.contact => b = d
         /\ \A h \in 1..Len(handlers') : handlers'[h].result.contact = call[d].result.contact =>
              handlers'[h].pc = "answered" /\ handlers'[h].caller = d
    BY <2>1 DEF CallAccounts
  <2> QED
    BY <1>1, <1>3, <2>2, CallerStands DEF EffectsInv
<1> QED
  BY <1>3, <1>4, <1>5 DEF EffectsInv, CallsAccount

LEMMA MarkKeepsRows ==
  ASSUME TablesInv, NEW i \in DOMAIN events, Mark(i)
  PROVE  RowsKept /\ UNCHANGED <<call, handlers, contacts>>
<1>1. /\ Len(events') = Len(events) /\ i \in 1..Len(events)
      /\ \A e \in 1..Len(events) : e # i => events'[e] = events[e]
      /\ \E golden : events'[i] = [events[i] EXCEPT !.golden = golden]
      /\ UNCHANGED <<call, handlers, contacts, cause>>
  BY Marked
<1>2. DOMAIN events[i] = DOMAIN NoEvent
  BY <1>1 DEF TablesInv
<1>3. PICK golden : events'[i] = [events[i] EXCEPT !.golden = golden]
  BY <1>1
<1>4. /\ events'[i].mode = events[i].mode /\ events'[i].provider = events[i].provider
      /\ events'[i].decision = events[i].decision /\ events'[i].success = events[i].success
  BY <1>2, <1>3 DEF NoEvent
<1> QED
  BY <1>1, <1>4 DEF RowsKept

LEMMA InitEffects == Init => EffectsInv
<1> SUFFICES ASSUME Init PROVE EffectsInv
  OBVIOUS
<1>1. /\ Len(events) = 0 /\ Len(cause) = 0 /\ Len(handlers) = 0 /\ Len(contacts) = 0
      /\ \E w \in Workloads : call = [c \in Callers |-> [NoCall EXCEPT !.options = w[c]]]
  BY DEF Init
<1>2. "pc" \in DOMAIN NoCall /\ "tries" \in DOMAIN NoCall /\ NoCall.pc = "idle" /\ NoCall.tries = <<>>
  BY DEF NoCall
<1>3. \A c \in Callers : call[c].pc = "idle" /\ Len(call[c].tries) = 0
  BY <1>1, <1>2
<1>4. RowsAgree /\ RowsApart /\ ThreadsAccount
  BY <1>1 DEF RowsAgree, RowsApart, ThreadsAccount
<1>5. CallsAccount
  BY <1>3 DEF CallsAccount, CallAccounts, WaitAccounts, TriesAccount
<1> QED
  BY <1>4, <1>5 DEF EffectsInv

\* Every step keeps the account of the effects.
LEMMA NextEffects == ShapeInv /\ IInv /\ EffectsInv /\ [Next]_vars => EffectsInv'
<1> SUFFICES ASSUME ShapeInv, IInv, EffectsInv, [Next]_vars PROVE EffectsInv'
  OBVIOUS
<1>1. ASSUME NEW c \in Callers, Start(c) \/ CallStep(c) \/ Abort(c) PROVE EffectsInv'
  BY <1>1, MovedKeepsEffects, TriedKeepsEffects, HandedKeepsEffects, WaitedKeepsEffects, SettledKeepsEffects
     DEF CallStep
<1>2. ASSUME NEW h \in DOMAIN handlers, HandlerStep(h) \/ HandlerFails(h) \/ FinishReplay(h) PROVE EffectsInv'
  BY <1>2, ThreadMovesKeepEffects, ThreadSendsKeepsEffects, ThreadRecordsKeepsEffects, FinishKeepsEffects
     DEF HandlerStep
<1>3. ASSUME NEW i \in DOMAIN events, Replay(i) \/ Mark(i) PROVE EffectsInv'
  BY <1>3, ReplayKeepsEffects, MarkKeepsRows, MarksKeepEffects DEF ShapeInv
<1>4. CASE UNCHANGED vars
  <2>1. RowsKept /\ UNCHANGED <<call, handlers, contacts>>
    BY <1>4 DEF vars, RowsKept
  <2> QED
    BY <2>1, MarksKeepEffects
<1> QED
  BY <1>1, <1>2, <1>3, <1>4 DEF Next

LEMMA EffectsHold == Spec => [](ShapeInv /\ EffectsInv)
<1>1. Init => EffectsInv
  BY InitEffects
<1>2. ShapeInv /\ IInv /\ EffectsInv /\ [Next]_vars => EffectsInv'
  BY NextEffects
<1> QED
  BY <1>1, <1>2, ShapesHold, PTL DEF Spec

-----------------------------------------------------------------------------
(* The promise *)

LEMMA AtMostOne ==
  ASSUME NEW S, \A x, y \in S : x = y
  PROVE  IsFiniteSet(S) /\ Cardinality(S) \in 0..1
<1>1. CASE S = {}
  BY <1>1, FS_EmptySet
<1>2. CASE S # {}
  <2>1. PICK x : x \in S
    BY <1>2
  <2>2. S = {x}
    BY <2>1
  <2> QED
    BY <2>2, FS_Singleton
<1> QED
  BY <1>1, <1>2

\* A contact has one row, or the proxy's and one more.
LEMMA FewRows ==
  ASSUME ShapeInv, RowsApart, NEW i, i # 0
  PROVE  Cardinality(RowsOf(i)) <= IF contacts[i].twice THEN 2 ELSE 1
<1>1. DOMAIN events = 1..Len(events)
  BY DEF ShapeInv, TablesInv, IsSequence
<1> DEFINE A == {e \in RowsOf(i) : events[e].mode = "proxy"}
           B == {e \in RowsOf(i) : events[e].mode # "proxy"}
<1>2. \A e, f \in RowsOf(i) : e # f => contacts[i].twice /\ (events[e].mode = "proxy" <=> events[f].mode # "proxy")
  BY <1>1 DEF RowsApart, RowsOf
<1>3. CASE contacts[i].twice
  <2>1. IsFiniteSet(A) /\ Cardinality(A) \in 0..1
    BY <1>2, AtMostOne
  <2>2. IsFiniteSet(B) /\ Cardinality(B) \in 0..1
    BY <1>2, AtMostOne
  <2>3. RowsOf(i) = A \cup B /\ A \cap B = {}
    OBVIOUS
  <2> HIDE DEF A, B
  <2>4. Cardinality(A \cup B) = Cardinality(A) + Cardinality(B) - Cardinality(A \cap B)
    BY <2>1, <2>2, FS_Union
  <2>5. Cardinality(A \cap B) = 0
    BY <2>3, FS_EmptySet
  <2> QED
    BY <1>3, <2>1, <2>2, <2>3, <2>4, <2>5
<1>4. CASE ~contacts[i].twice
  <2>1. IsFiniteSet(RowsOf(i)) /\ Cardinality(RowsOf(i)) \in 0..1
    BY <1>2, <1>4, AtMostOne
  <2> QED
    BY <1>4, <2>1
<1> QED
  BY <1>3, <1>4

\* The successes of one mode are of contacts of their own.
LEMMA FewSuccesses ==
  ASSUME ShapeInv, RowsAgree, RowsApart, NEW p, NEW mode, NEW R,
         \A e \in R : e \in 1..Len(events) /\ events[e].provider = p /\ events[e].mode = mode
  PROVE  Succeeded(events, R)
           <= Cardinality({i \in DOMAIN contacts : ProviderFor(contacts[i], mode) = p /\ contacts[i].ok})
<1> DEFINE S == {e \in R : events[e].success}
           T == {i \in DOMAIN contacts : ProviderFor(contacts[i], mode) = p /\ contacts[i].ok}
           f == [e \in S |-> cause[e]]
<1>1. DOMAIN contacts = 1..Len(contacts) /\ Len(contacts) \in Nat
  BY DEF ShapeInv, TablesInv, IsSequence
<1>2. \A e \in S : cause[e] \in T /\ cause[e] # 0
  BY <1>1 DEF RowsAgree, RowIsOf
<1>3. \A e, g \in S : cause[e] = cause[g] => e = g
  BY <1>2 DEF RowsApart
<1>4. f \in Injection(S, T)
  BY <1>2, <1>3 DEF Injection, IsInjective
<1>5. IsFiniteSet(T)
  <2>1. IsFiniteSet(1..Len(contacts))
    BY <1>1, FS_Interval
  <2>2. T \in SUBSET (1..Len(contacts))
    BY <1>1
  <2> QED
    BY <2>1, <2>2, FS_Subset
<1>6. Succeeded(events, R) = Cardinality(S)
  BY DEF Succeeded
<1> HIDE DEF S, T, f
<1>7. Cardinality(S) <= Cardinality(T)
  BY <1>4, <1>5, FS_Injection
<1> QED
  BY <1>6, <1>7 DEF T

LEMMA EffectsFollow == ShapeInv /\ EffectsInv => EffectsAreAccounted
<1> SUFFICES ASSUME ShapeInv, EffectsInv PROVE EffectsAreAccounted
  OBVIOUS
<1>1. /\ DOMAIN events = 1..Len(events) /\ DOMAIN cause = 1..Len(events) /\ Len(cause) = Len(events)
      /\ DOMAIN contacts = 1..Len(contacts) /\ Len(contacts) \in Nat
  BY DEF ShapeInv, TablesInv, IsSequence
<1>2. ASSUME NEW i \in DOMAIN contacts
      PROVE  /\ Cardinality(RowsOf(i)) <= IF contacts[i].twice THEN 2 ELSE 1
             /\ \A e \in RowsOf(i) : RowIsOf(events[e], contacts[i])
  <2>1. i # 0
    BY <1>1
  <2>2. \A e \in RowsOf(i) : e \in 1..Len(events) /\ cause[e] = i
    BY <1>1 DEF RowsOf
  <2> QED
    BY <2>1, <2>2, FewRows DEF EffectsInv, RowsAgree
<1>3. \A e \in DOMAIN events : events[e].success => cause[e] # 0
  BY <1>1 DEF EffectsInv, RowsAgree
<1>4. ASSUME NEW c \in Callers, NEW t \in Range(call[c].tries), t.contact # 0
      PROVE  RowsOf(t.contact) # {}
  <2>1. PICK j \in 1..Len(call[c].tries) : t = call[c].tries[j]
    BY DEF Range, ShapeInv, CallsInv, IsSequence
  <2>2. HasRow(cause, t.contact)
    BY <1>4, <2>1 DEF EffectsInv, CallsAccount, TriesAccount
  <2> QED
    BY <1>1, <2>2 DEF HasRow, RowsOf
<1>5. ASSUME NEW g \in Ledger(events, Project, Unfiltered, Unfiltered, TRUE, FALSE)
      PROVE  g.totals.successful
               <= Cardinality({i \in DOMAIN contacts : ProviderFor(contacts[i], g.key[4]) = g.key[3] /\ contacts[i].ok})
  <2> DEFINE rows == Matching(events, Project, Unfiltered, Unfiltered, Unfiltered, FALSE)
  <2>1. PICK j \in rows : g = [key |-> GroupOf(events[j], TRUE),
                               totals |-> Totals(events, {i \in rows : GroupOf(events[i], TRUE) = GroupOf(events[j], TRUE)})]
    BY DEF Ledger
  <2> DEFINE R == {i \in rows : GroupOf(events[i], TRUE) = GroupOf(events[j], TRUE)}
             p == events[j].provider
             mode == events[j].mode
  <2>2. g.key[3] = p /\ g.key[4] = mode /\ g.totals.successful = Succeeded(events, R)
    BY <2>1 DEF GroupOf, Totals
  <2>3. \A e \in R : e \in 1..Len(events) /\ events[e].provider = p /\ events[e].mode = mode
    BY <1>1 DEF Matching, GroupOf
  <2> HIDE DEF R, p, mode
  <2>4. Succeeded(events, R)
          <= Cardinality({i \in DOMAIN contacts : ProviderFor(contacts[i], mode) = p /\ contacts[i].ok})
    BY <2>3, FewSuccesses DEF EffectsInv
  <2> QED
    BY <2>2, <2>4
<1> QED
  BY <1>2, <1>3, <1>4, <1>5 DEF EffectsAreAccounted

\* A contact has a row at most, two when the environment's proxy came between,
\* for a call or for a replay; a row tells of it what happened, a success is a
\* contact's, nothing that a call knows of goes without a row, and no mode of
\* the ledger counts more successes than there were: for any callers,
\* workloads, outcomes and environments of the operator, and any faults.
THEOREM EffectsAccounted == Spec => []EffectsAreAccounted
<1>1. ShapeInv /\ EffectsInv => EffectsAreAccounted
  BY EffectsFollow
<1> QED
  BY <1>1, EffectsHold, PTL

-----------------------------------------------------------------------------
(* What stands *)

\* The metrics go by these columns of the rows alone.
LEMMA SameSnapshots ==
  ASSUME NEW before, NEW after, NEW rows, NEW region,
         \A i \in rows : /\ after[i].provider = before[i].provider /\ after[i].success = before[i].success
                         /\ after[i].latency = before[i].latency /\ after[i].cost = before[i].cost
  PROVE  Snapshots(after, rows, region) = Snapshots(before, rows, region)
<1>1. {after[i].provider : i \in rows} = {before[i].provider : i \in rows}
  OBVIOUS
<1>2. ASSUME NEW p PROVE Snapshot(after, rows, p, region) = Snapshot(before, rows, p, region)
  <2> DEFINE own == {i \in rows : before[i].provider = p}
  <2>1. {i \in rows : after[i].provider = p} = own
    OBVIOUS
  <2>2. {i \in own : after[i].success} = {i \in own : before[i].success}
    OBVIOUS
  <2>3. /\ [i \in own |-> after[i].latency] = [i \in own |-> before[i].latency]
        /\ [i \in own |-> after[i].cost] = [i \in own |-> before[i].cost]
    OBVIOUS
  <2>4. /\ Succeeded(after, own) = Succeeded(before, own)
        /\ LatencyOf(after, own) = LatencyOf(before, own) /\ CostOf(after, own) = CostOf(before, own)
    BY <2>2, <2>3 DEF Succeeded, LatencyOf, CostOf
  <2> HIDE DEF own
  <2>5. /\ Snapshot(before, rows, p, region)
             = [provider |-> p, region |-> region, total |-> Cardinality(own), successful |-> Succeeded(before, own),
                latency |-> Ratio(LatencyOf(before, own), Cardinality(own)),
                cost |-> Ratio(CostOf(before, own), Cardinality(own))]
        /\ Snapshot(after, rows, p, region)
             = [provider |-> p, region |-> region, total |-> Cardinality(own), successful |-> Succeeded(after, own),
                latency |-> Ratio(LatencyOf(after, own), Cardinality(own)),
                cost |-> Ratio(CostOf(after, own), Cardinality(own))]
    BY <2>1 DEF Snapshot, own
  <2> QED
    BY <2>4, <2>5
<1> DEFINE providers == SetToSeq({before[i].provider : i \in rows})
<1>3. /\ Snapshots(before, rows, region) = [n \in DOMAIN providers |-> Snapshot(before, rows, providers[n], region)]
      /\ Snapshots(after, rows, region) = [n \in DOMAIN providers |-> Snapshot(after, rows, providers[n], region)]
  BY <1>1 DEF Snapshots
<1> HIDE DEF providers
<1> QED
  BY <1>2, <1>3

\* Rows that replays add, and golden marks, are not in the metrics.
LEMMA SameMetrics ==
  ASSUME NEW before, NEW after, DOMAIN before \subseteq DOMAIN after,
         \A i \in DOMAIN after \ DOMAIN before : after[i].mode = "replay",
         \A i \in DOMAIN before :
           /\ after[i].provider = before[i].provider /\ after[i].success = before[i].success
           /\ after[i].latency = before[i].latency /\ after[i].cost = before[i].cost
           /\ after[i].mode = before[i].mode /\ after[i].capability = before[i].capability,
         NEW shadow \in BOOLEAN
  PROVE  MetricsForCapability(after, Capability, shadow, FALSE, NoRegion)
           = MetricsForCapability(before, Capability, shadow, FALSE, NoRegion)
<1> DEFINE Rows(t) == {i \in DOMAIN t : /\ t[i].capability = Capability
                                        /\ ~shadow => t[i].mode # "shadow"
                                        /\ t[i].mode # "replay"}
<1>1. Rows(after) = Rows(before)
  OBVIOUS
<1>2. \A t : MetricsForCapability(t, Capability, shadow, FALSE, NoRegion) = Snapshots(t, Rows(t), NoRegion) \o <<>>
  BY DEF MetricsForCapability
<1>3. \A i \in Rows(before) : /\ after[i].provider = before[i].provider /\ after[i].success = before[i].success
                              /\ after[i].latency = before[i].latency /\ after[i].cost = before[i].cost
  OBVIOUS
<1> HIDE DEF Rows
<1>4. Snapshots(after, Rows(before), NoRegion) = Snapshots(before, Rows(before), NoRegion)
  BY <1>3, SameSnapshots
<1> QED
  BY <1>1, <1>2, <1>4

\* A row that a caller or a thread writes comes with a change of its own.
NobodyMoves == UNCHANGED call /\ \A h \in DOMAIN handlers : handlers'[h].pc = handlers[h].pc
ReplayAdds  == \E e, r : DOMAIN e = DOMAIN NoEvent /\ RecordRow(ReplayRow(e, r), r.contact)

LEMMA WritersMove ==
  ASSUME ShapeInv, [Next]_vars, NobodyMoves
  PROVE  events' = events \/ ReplayAdds \/ \E i \in DOMAIN events : Mark(i)
<1>1. ASSUME NEW c \in Callers, Start(c) \/ CallStep(c) \/ Abort(c) PROVE events' = events
  <2>1. CASE Settle(c) \/ SettleByAdapter(c)
    <3> DEFINE k == call[c]
               p == Current(k)
    <3>1. DOMAIN k = CallFields /\ k.pc = "called"
      BY <2>1, Settled DEF ShapeInv, CallsInv
    <3>2. PICK final, again : Set(c, Tried(k, p, final, again))
      BY <2>1, Settled
    <3> HIDE DEF p
    <3>3. \E t : OneTryMore(k, Tried(k, p, final, again), p, final.contact, t)
      BY <3>1, AfterTry
    <3>4. Tried(k, p, final, again).pc # "called"
      BY <3>3 DEF OneTryMore
    <3>5. call'[c].pc # call[c].pc
      BY <3>1, <3>2, <3>4, CallSet DEF ShapeInv
    <3> QED
      BY <3>5 DEF NobodyMoves
  <2>2. CASE Start(c) \/ RecordDecision(c) \/ Abort(c)
    BY <2>2 DEF Start, RecordDecision, Abort
  <2>3. CASE AttemptHere(c) \/ AttemptByAdapter(c) \/ AttemptByProxy(c)
    BY <2>3 DEF AttemptHere, AttemptByAdapter, AttemptByProxy
  <2>4. CASE TakeAnswer(c) \/ GiveUp(c)
    BY <2>4 DEF TakeAnswer, GiveUp
  <2> QED
    BY <1>1, <2>1, <2>2, <2>3, <2>4 DEF CallStep
<1>2. ASSUME NEW h \in DOMAIN handlers, HandlerStep(h) \/ HandlerFails(h) PROVE events' = events
  <2>1. CASE HandlerRecord(h)
    <3>1. PICK new : handlers[h].pc \in {"refuse", "deny", "forwarded"} /\ SetHandler(h, new) /\ new.pc = "answered"
      BY <2>1, ThreadRecords
    <3>2. handlers'[h].pc # handlers[h].pc
      BY <3>1, ThreadSet DEF ShapeInv
    <3> QED
      BY <3>2 DEF NobodyMoves
  <2>2. CASE ~HandlerRecord(h)
    BY <1>2, <2>2 DEF HandlerStep, HandlerReject, HandlerAdmit, HandlerForward, HandlerFails
  <2> QED
    BY <2>1, <2>2
<1>3. ASSUME NEW h \in DOMAIN handlers, FinishReplay(h) PROVE events' = events \/ ReplayAdds
  <2>1. handlers[h].source # <<>> /\ \E r : UNCHANGED store \/ RecordRow(ReplayRow(handlers[h].source[1], r), r.contact)
    BY <1>3, Finished
  <2>2. DOMAIN handlers[h].source[1] = DOMAIN NoEvent
    BY <2>1 DEF ShapeInv, ThreadsInv, IsSequence
  <2> QED
    BY <2>1, <2>2 DEF ReplayAdds, store
<1>4. ASSUME NEW i \in DOMAIN events, Replay(i) PROVE events' = events \/ ReplayAdds
  <2>1. \/ \E r : UNCHANGED store \/ RecordRow(ReplayRow(events[i], r), r.contact)
        \/ events' = events
    BY <1>4, Replayed DEF RepliedHere, HandedBack
  <2>2. DOMAIN events[i] = DOMAIN NoEvent
    BY DEF ShapeInv, TablesInv, IsSequence
  <2> QED
    BY <2>1, <2>2 DEF ReplayAdds, store
<1>5. CASE UNCHANGED vars
  BY <1>5 DEF vars
<1> QED
  BY <1>1, <1>2, <1>3, <1>4, <1>5 DEF Next

\* What a row says is not rewritten by any step.
LEMMA RowsStand ==
  ASSUME ShapeInv, [Next]_vars, NEW i \in DOMAIN events
  PROVE  Unmarked(events'[i]) = Unmarked(events[i])
<1>1. TablesInv /\ DOMAIN events = 1..Len(events)
  BY DEF ShapeInv, TablesInv, IsSequence
<1>2. ASSUME events' = events PROVE Unmarked(events'[i]) = Unmarked(events[i])
  BY <1>2
<1>3. ASSUME NEW row, NEW j, RecordRow(row, j) PROVE Unmarked(events'[i]) = Unmarked(events[i])
  <2>1. events'[i] = events[i]
    BY <1>1, <1>3, RowAdded DEF RowsGrow
  <2> QED
    BY <2>1
<1>4. ASSUME NEW c \in Callers, Start(c) \/ CallStep(c) \/ Abort(c)
      PROVE  Unmarked(events'[i]) = Unmarked(events[i])
  <2>1. CASE Settle(c) \/ SettleByAdapter(c)
    <3>1. UNCHANGED store \/ \E row, j : RecordRow(row, j)
      BY <2>1, Settled
    <3> QED
      BY <1>2, <1>3, <3>1 DEF store
  <2>2. CASE Start(c) \/ RecordDecision(c) \/ Abort(c)
    BY <1>2, <2>2 DEF Start, RecordDecision, Abort
  <2>3. CASE AttemptHere(c) \/ AttemptByAdapter(c) \/ AttemptByProxy(c)
    BY <1>2, <2>3 DEF AttemptHere, AttemptByAdapter, AttemptByProxy
  <2>4. CASE TakeAnswer(c) \/ GiveUp(c)
    BY <1>2, <2>4 DEF TakeAnswer, GiveUp
  <2> QED
    BY <1>4, <2>1, <2>2, <2>3, <2>4 DEF CallStep
<1>5. ASSUME NEW h \in DOMAIN handlers, HandlerStep(h) \/ HandlerFails(h)
      PROVE  Unmarked(events'[i]) = Unmarked(events[i])
  <2>1. CASE HandlerRecord(h)
    BY <1>3, <2>1, ThreadRecords
  <2>2. CASE ~HandlerRecord(h)
    <3>1. events' = events
      BY <1>5, <2>2 DEF HandlerStep, HandlerReject, HandlerAdmit, HandlerForward, HandlerFails
    <3> QED
      BY <1>2, <3>1
  <2> QED
    BY <2>1, <2>2
<1>6. ASSUME \/ \E h \in DOMAIN handlers : FinishReplay(h)
             \/ \E j \in DOMAIN events : Replay(j)
      PROVE  Unmarked(events'[i]) = Unmarked(events[i])
  <2>1. UNCHANGED store \/ \E row, n : RecordRow(row, n)
    BY <1>6, Replayed, Finished DEF RepliedHere, HandedBack, store
  <2> QED
    BY <1>2, <1>3, <2>1 DEF store
<1>7. ASSUME NEW j \in DOMAIN events, Mark(j) PROVE Unmarked(events'[i]) = Unmarked(events[i])
  <2>1. /\ i # j => events'[i] = events[i]
        /\ \E golden : events'[j] = [events[j] EXCEPT !.golden = golden]
    BY <1>1, <1>7, Marked
  <2>2. CASE i # j
    BY <2>1, <2>2
  <2>3. CASE i = j
    <3>1. PICK golden : events'[i] = [events[i] EXCEPT !.golden = golden]
      BY <2>1, <2>3
    <3> QED
      BY <3>1 DEF Unmarked
  <2> QED
    BY <2>2, <2>3
<1>8. CASE UNCHANGED vars
  BY <1>2, <1>8 DEF vars
<1> QED
  BY <1>4, <1>5, <1>6, <1>7, <1>8 DEF Next

LEMMA HistoryStep ==
  ASSUME ShapeInv, [Next]_vars
  PROVE  /\ \A i \in DOMAIN events : Unmarked(events'[i]) = Unmarked(events[i])
         /\ NobodyMoves =>
              \A shadow \in BOOLEAN :
                MetricsForCapability(events', Capability, shadow, FALSE, NoRegion)
                  = MetricsForCapability(events, Capability, shadow, FALSE, NoRegion)
<1>1. TablesInv /\ DOMAIN events = 1..Len(events) /\ Len(events) \in Nat
  BY DEF ShapeInv, TablesInv, IsSequence
<1>2. ASSUME NobodyMoves, NEW shadow \in BOOLEAN
      PROVE  MetricsForCapability(events', Capability, shadow, FALSE, NoRegion)
               = MetricsForCapability(events, Capability, shadow, FALSE, NoRegion)
  <2>1. CASE events' = events
    BY <2>1
  <2>2. ASSUME NEW e, NEW r, DOMAIN e = DOMAIN NoEvent, RecordRow(ReplayRow(e, r), r.contact)
        PROVE  MetricsForCapability(events', Capability, shadow, FALSE, NoRegion)
                 = MetricsForCapability(events, Capability, shadow, FALSE, NoRegion)
    <3> DEFINE row == ReplayRow(e, r)
    <3>1. row.mode = "replay"
      BY <2>2, ReplayRowOf
    <3>2. RowsGrow(row, r.contact)
      BY <1>1, <2>2, RowAdded
    <3> HIDE DEF row
    <3>3. /\ DOMAIN events' = 1..Len(events) + 1
          /\ \A i \in DOMAIN events' \ DOMAIN events : i = Len(events) + 1
      BY <1>1, <3>2 DEF RowsGrow, IsSequence
    <3>4. /\ DOMAIN events \subseteq DOMAIN events'
          /\ \A i \in DOMAIN events' \ DOMAIN events : events'[i].mode = "replay"
          /\ \A i \in DOMAIN events : events'[i] = events[i]
      BY <1>1, <3>1, <3>2, <3>3 DEF RowsGrow
    <3> QED
      BY <3>4, SameMetrics
  <2>3. ASSUME NEW j \in DOMAIN events, Mark(j)
        PROVE  MetricsForCapability(events', Capability, shadow, FALSE, NoRegion)
                 = MetricsForCapability(events, Capability, shadow, FALSE, NoRegion)
    <3>1. /\ IsSequence(events') /\ Len(events') = Len(events)
          /\ \A i \in 1..Len(events) : i # j => events'[i] = events[i]
          /\ \E golden : events'[j] = [events[j] EXCEPT !.golden = golden]
      BY <1>1, <2>3, Marked
    <3>2. PICK golden : events'[j] = [events[j] EXCEPT !.golden = golden]
      BY <3>1
    <3>3. DOMAIN events[j] = DOMAIN NoEvent
      BY <1>1 DEF TablesInv
    <3>4. /\ events'[j].provider = events[j].provider /\ events'[j].success = events[j].success
          /\ events'[j].latency = events[j].latency /\ events'[j].cost = events[j].cost
          /\ events'[j].mode = events[j].mode /\ events'[j].capability = events[j].capability
      BY <3>2, <3>3 DEF NoEvent
    <3>5. DOMAIN events' = DOMAIN events
      BY <1>1, <3>1 DEF IsSequence
    <3>6. \A i \in DOMAIN events :
           /\ events'[i].provider = events[i].provider /\ events'[i].success = events[i].success
           /\ events'[i].latency = events[i].latency /\ events'[i].cost = events[i].cost
           /\ events'[i].mode = events[i].mode /\ events'[i].capability = events[i].capability
      BY <1>1, <3>1, <3>4
    <3> QED
      BY <3>5, <3>6, SameMetrics
  <2> QED
    BY <1>2, <2>1, <2>2, <2>3, WritersMove DEF ReplayAdds
<1> QED
  BY <1>2, RowsStand

\* What a row says happened is never rewritten, and the metrics that routing
\* goes by change only as a call or a thread of the proxy moves, with neither a
\* golden mark nor the row of a replay: for any rows.
THEOREM HistoryIsKept == Spec => HistoryStands
<1>1. ShapeInv /\ [Next]_vars =>
        [/\ \A i \in DOMAIN events : Unmarked(events'[i]) = Unmarked(events[i])
         /\ UNCHANGED call /\ (\A h \in DOMAIN handlers : handlers'[h].pc = handlers[h].pc) =>
              \A shadow \in BOOLEAN :
                MetricsForCapability(events', Capability, shadow, FALSE, NoRegion)
                  = MetricsForCapability(events, Capability, shadow, FALSE, NoRegion)]_vars
  BY HistoryStep DEF NobodyMoves
<1> QED
  BY <1>1, EffectsHold, PTL DEF Spec, HistoryStands
=============================================================================
