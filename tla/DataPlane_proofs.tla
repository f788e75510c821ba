--------------------------- MODULE DataPlane_proofs ---------------------------
(***************************************************************************)
(* Proofs about DataPlane: its safety properties hold for every set of     *)
(* calls and snapshots, every quota, and every number of restarts and      *)
(* failed writes.                                                          *)
(***************************************************************************)
EXTENDS DataPlane, FiniteSetTheorems, SequenceTheorems, TLAPS

(* IInv is proved in layers: Numbered, then Audited, which Gated and       *)
(* Explained rest on.                                                      *)

-----------------------------------------------------------------------------
(* Types and sequence numbers *)

Numbered == TypeOK /\ SequenceNumbersIncrease

\* What a handler gives Write is an event with the next number.
LEMMA EventType ==
  ASSUME TypeOK, NEW c \in Calls, NEW kind \in Kinds, NEW v \in Versions \cup {None},
         NEW n \in Nat, NEW result \in Results
  PROVE  Event(c, kind, v, n, result) \in Events /\ Event(c, kind, v, n, result).seq = nextSeq
BY DEF Event, Events, TypeOK

\* The log after a line is appended.
LEMMA Appended ==
  ASSUME TypeOK, NEW e \in Events, log' = Append(log, e)
  PROVE  /\ log' \in Seq(Events) /\ Len(log) \in Nat /\ Len(log') = Len(log) + 1
         /\ log'[Len(log')] = e
         /\ \A i \in 1..Len(log) : log'[i] = log[i] /\ log[i] \in Events
BY DEF TypeOK

\* The number the log is continued with is new.
LEMMA Recovered ==
  ASSUME Numbered
  PROVE  /\ RecoveredSequence \in Nat
         /\ \A i \in 1..Len(log) : log[i].seq < RecoveredSequence
<1>1. log \in Seq(Events)
  BY DEF Numbered, TypeOK
<1>2. CASE log = <<>>
  BY <1>2 DEF RecoveredSequence
<1>3. CASE log # <<>>
  <2> DEFINE S == {log[i].seq : i \in 1..Len(log)}
             m == CHOOSE s \in S : \A i \in 1..Len(log) : log[i].seq <= s
  <2>1. Len(log) \in 1..Len(log) /\ \A i \in 1..Len(log) : log[i].seq \in Nat
    <3>1. Len(log) \in Nat /\ Len(log) # 0
      BY <1>1, <1>3, EmptySeq
    <3>2. \A i \in 1..Len(log) : log[i] \in Events
      BY <1>1
    <3> QED
      BY <3>1, <3>2 DEF Events
  <2>2. log[Len(log)].seq \in S /\ \A i \in 1..Len(log) : log[i].seq <= log[Len(log)].seq
    BY <2>1 DEF Numbered, SequenceNumbersIncrease
  <2>3. m \in S /\ \A i \in 1..Len(log) : log[i].seq <= m
    BY <2>2
  <2>4. m \in Nat /\ RecoveredSequence = 1 + m
    BY <1>3, <2>1, <2>3 DEF RecoveredSequence
  <2> HIDE DEF m
  <2> QED
    BY <2>1, <2>3, <2>4
<1> QED
  BY <1>2, <1>3

\* A write keeps the types and the order of the numbers.
LEMMA WriteNumbered ==
  ASSUME Numbered, NEW c \in Calls, NEW e \in Events, e.seq = nextSeq, NEW step \in Steps,
         Write(c, e, step), UNCHANGED <<process, counts, serving, born, tries>>
  PROVE  Numbered'
<1>1. TypeOK /\ SequenceNumbersIncrease /\ up
  BY DEF Numbered, Write
<1>2. /\ nextSeq' = nextSeq + 1 /\ nextSeq' \in Nat /\ faults' \in 0..MaxFaults
      /\ pc' \in [Calls -> Steps] /\ answer' \in [Calls -> Answers]
      /\ snap' \in [Calls -> Versions \cup {None}] /\ last' \in [Calls -> Results]
  <2>1. nextSeq' = nextSeq + 1 /\ nextSeq' \in Nat
    BY <1>1 DEF TypeOK, Write
  <2>2. CASE Goto(c, step) /\ UNCHANGED <<faults, answer, snap, last>>
    BY <1>1, <2>1, <2>2 DEF TypeOK, Goto
  <2>3. CASE faults < MaxFaults /\ faults' = faults + 1 /\ Return(c, "unavailable")
    BY <1>1, <2>1, <2>3, BoundsAssumption
    DEF TypeOK, Goto, Return, Answers, Results, Steps, BoundsAssumption
  <2> QED
    BY <2>2, <2>3 DEF Write
<1>3. log' = log \/ log' = Append(log, e)
  BY DEF Write
<1>4. log' \in Seq(Events)
  BY <1>1, <1>3, Appended DEF TypeOK
<1>5. TypeOK'
  BY <1>1, <1>2, <1>4 DEF TypeOK, process
<1>6. SequenceNumbersIncrease'
  <2>1. \A i \in 1..Len(log) : log[i] \in Events /\ log[i].seq < nextSeq
    BY <1>1 DEF SequenceNumbersIncrease, TypeOK
  <2>2. nextSeq \in Nat /\ \A i \in 1..Len(log) : log[i].seq \in Nat
    BY <1>1, <2>1 DEF TypeOK, Events
  <2>3. \A i, j \in 1..Len(log) : i < j => log[i].seq < log[j].seq
    BY <1>1 DEF SequenceNumbersIncrease
  <2>4. CASE log' = log
    BY <1>2, <2>1, <2>2, <2>3, <2>4 DEF SequenceNumbersIncrease
  <2>5. CASE log' = Append(log, e)
    <3>1. /\ Len(log) \in Nat /\ Len(log') = Len(log) + 1 /\ log'[Len(log')] = e
          /\ \A i \in 1..Len(log) : log'[i] = log[i]
      BY <1>1, <2>5, Appended
    <3>2. \A i \in 1..Len(log') : i \in 1..Len(log) \/ i = Len(log')
      BY <3>1
    <3>3. \A i \in 1..Len(log') : log'[i].seq < nextSeq'
      BY <1>2, <2>1, <2>2, <3>1, <3>2
    <3>4. ASSUME NEW i \in 1..Len(log'), NEW j \in 1..Len(log'), i < j
          PROVE  log'[i].seq < log'[j].seq
      BY <2>1, <2>3, <3>1, <3>2, <3>4
    <3> QED
      BY <3>3, <3>4 DEF SequenceNumbersIncrease
  <2> QED
    BY <1>3, <2>4, <2>5
<1> QED
  BY <1>5, <1>6 DEF Numbered

LEMMA InitNumbered == Init => Numbered
<1> SUFFICES ASSUME Init PROVE Numbered
  OBVIOUS
<1>1. log \in Seq(Events) /\ Len(log) = 0
  BY EmptySeq DEF Init
<1>2. 0 \in 0..MaxLives /\ 0 \in 0..MaxFaults
  BY BoundsAssumption DEF BoundsAssumption
<1>3. TypeOK
  BY <1>1, <1>2 DEF Init, TypeOK, Steps, Answers, Results
<1> QED
  BY <1>1, <1>3 DEF Numbered, SequenceNumbersIncrease, Init

\* The steps that write an event, and the steps between them.
Writes(c) ==
  \/ c \in Requests /\ \/ WriteContext(c) \/ Route(c) \/ WriteUsage(c)
                       \/ WriteDecision(c) \/ WriteFailedDecision(c)
  \/ c \in Reloads /\ (WriteReload(c) \/ WriteReloadFailure(c))

Moves(c) ==
  \/ c \in Requests /\ \/ Receive(c) \/ Expired(c) \/ OverQuota(c) \/ Allow(c)
                       \/ NoProvider(c) \/ Attempt(c) \/ OutOfTime(c)
  \/ c \in Reloads /\ (LoadCandidate(c) \/ Swap(c))
  \/ Answer(c)

LEMMA NextSteps ==
  Next => \/ \E v \in Versions : Start(v)
          \/ Crash
          \/ \E c \in Calls : Writes(c) \/ Moves(c)
BY DEF Next, Execute, ReloadSnapshot, Writes, Moves, Calls

\* A step that writes does so once, with an event of its type; only WriteReload
\* leads to a swap, and only Route writes a routing decision.
Once(c, e, step) ==
  /\ e.seq = nextSeq /\ e.call = c /\ Write(c, e, step)
  /\ pc[c] \in Writing
  /\ e.kind = "routing_decision" => pc[c] = "route"
  /\ step = "swap" => /\ pc[c] = "audit" /\ e.kind = "snapshot_reload_event"
                      /\ e.result = Ok /\ e.version = snap[c]

LEMMA WritesOnce ==
  ASSUME TypeOK, NEW c \in Calls, Writes(c)
  PROVE  /\ UNCHANGED <<process, counts, serving, born, tries>>
         /\ \E e \in Events, step \in {"gate", "attempt", "decide", "answer", "swap"} :
              Once(c, e, step)
<1> DEFINE Next5 == {"gate", "attempt", "decide", "answer", "swap"}
<1>1. ASSUME NEW kind \in Kinds, NEW v \in Versions \cup {None}, NEW n \in Nat,
             NEW result \in Results, NEW step \in Next5,
             Write(c, Event(c, kind, v, n, result), step), pc[c] \in Writing,
             kind = "routing_decision" => pc[c] = "route",
             step = "swap" => /\ pc[c] = "audit" /\ kind = "snapshot_reload_event"
                              /\ result = Ok /\ v = snap[c]
      PROVE  \E e \in Events, s \in Next5 : Once(c, e, s)
  <2>1. Event(c, kind, v, n, result) \in Events /\ Event(c, kind, v, n, result).seq = nextSeq
    BY EventType
  <2>2. LET e == Event(c, kind, v, n, result)
        IN e.call = c /\ e.kind = kind /\ e.result = result /\ e.version = v
    BY DEF Event
  <2> QED
    BY <1>1, <2>1, <2>2 DEF Once
<1>2. /\ snap[c] \in Versions \cup {None} /\ serving \in Versions \cup {None}
      /\ tries[c] \in Nat /\ last[c] \in Results /\ Ok \in Results /\ None \in Results
      /\ None \in Versions \cup {None}
  BY DEF TypeOK, Results
<1>3. {"context", "route", "usage", "decide", "refuse", "audit", "reload_failed"} = Writing
  BY DEF Writing
<1>4. {"request_context", "routing_decision", "usage_event", "decision_log",
       "snapshot_reload_event"} = Kinds
  BY DEF Kinds
<1>5. CASE WriteContext(c)
  BY <1>1, <1>2, <1>3, <1>4, <1>5 DEF WriteContext
<1>6. CASE Route(c)
  BY <1>1, <1>2, <1>3, <1>4, <1>6 DEF Route
<1>7. CASE WriteUsage(c)
  BY <1>1, <1>2, <1>3, <1>4, <1>7 DEF WriteUsage
<1>8. CASE WriteDecision(c)
  BY <1>1, <1>2, <1>3, <1>4, <1>8 DEF WriteDecision
<1>9. CASE WriteFailedDecision(c)
  BY <1>1, <1>2, <1>3, <1>4, <1>9 DEF WriteFailedDecision
<1>10. CASE WriteReload(c)
  BY <1>1, <1>2, <1>3, <1>4, <1>10 DEF WriteReload
<1>11. CASE WriteReloadFailure(c)
  BY <1>1, <1>2, <1>3, <1>4, <1>11 DEF WriteReloadFailure
<1> QED
  BY <1>5, <1>6, <1>7, <1>8, <1>9, <1>10, <1>11 DEF Writes

\* The other steps of a call leave the process and its log alone.
LEMMA MovesType ==
  ASSUME TypeOK, NEW c \in Calls, Moves(c)
  PROVE  TypeOK' /\ UNCHANGED <<process, writer>>
<1> USE DEF TypeOK, Goto, Return, Refuse, process, writer
<1>1. /\ {"context", "gate", "route", "attempt", "usage", "decide", "refuse", "answer", "audit",
          "reload_failed", "swap", "done"} \subseteq Steps
      /\ Failures \cup {Ok} \subseteq Results /\ Refusals \subseteq Results /\ None \in Results
      /\ {"success", "failure"} \subseteq Answers
  BY DEF Steps, Writing, Results, Answers
<1>2. CASE c \in Requests /\ Receive(c)
  BY <1>1, <1>2 DEF Receive, Arrives
<1>3. CASE c \in Requests /\ (Expired(c) \/ OverQuota(c) \/ NoProvider(c))
  <2>1. ASSUME NEW reason \in Refusals, Refuse(c, reason)
        PROVE  TypeOK' /\ UNCHANGED <<process, writer>>
    BY <1>1, <2>1
  <2> QED
    BY <1>3, <2>1 DEF Expired, OverQuota, NoProvider, Refusals
<1>4. CASE c \in Requests /\ Allow(c)
  <2>1. counts' \in [Projects -> Nat]
    BY <1>4, ProjectAssumption DEF Allow, ProjectAssumption
  <2> QED
    BY <1>1, <1>4, <2>1 DEF Allow
<1>5. CASE c \in Requests /\ Attempt(c)
  BY <1>1, <1>5 DEF Attempt
<1>6. CASE c \in Requests /\ OutOfTime(c)
  BY <1>1, <1>6, FailuresAssumption DEF OutOfTime, FailuresAssumption
<1>7. CASE c \in Reloads /\ LoadCandidate(c)
  BY <1>1, <1>7 DEF LoadCandidate, Arrives
<1>8. CASE c \in Reloads /\ Swap(c)
  BY <1>1, <1>8 DEF Swap
<1>9. CASE Answer(c)
  BY <1>1, <1>9 DEF Answer
<1> QED
  BY <1>2, <1>3, <1>4, <1>5, <1>6, <1>7, <1>8, <1>9 DEF Moves

LEMMA StepNumbered == Numbered /\ [Next]_vars => Numbered'
<1> SUFFICES ASSUME Numbered, [Next]_vars PROVE Numbered'
  OBVIOUS
<1>1. TypeOK /\ SequenceNumbersIncrease
  BY DEF Numbered
<1>2. CASE UNCHANGED vars
  BY <1>1, <1>2 DEF Numbered, vars, process, writer, calls, TypeOK, SequenceNumbersIncrease
<1>3. ASSUME NEW v \in Versions, Start(v) PROVE Numbered'
  <2>1. lives' \in 0..MaxLives /\ nextSeq' \in Nat
    BY <1>1, <1>3, Recovered, BoundsAssumption DEF Start, TypeOK, Numbered, BoundsAssumption
  <2>2. TypeOK'
    BY <1>1, <1>3, <2>1 DEF Start, TypeOK, calls
  <2> QED
    BY <1>1, <1>3, <2>2, Recovered DEF Start, Numbered, SequenceNumbersIncrease
<1>4. CASE Crash
  <2>1. TypeOK'
    BY <1>1, <1>4 DEF Crash, TypeOK, writer, Steps, Results
  <2> QED
    BY <1>1, <1>4, <2>1 DEF Crash, Numbered, SequenceNumbersIncrease, writer
<1>5. ASSUME NEW c \in Calls, Writes(c) PROVE Numbered'
  <2>1. {"gate", "attempt", "decide", "answer", "swap"} \subseteq Steps
    BY DEF Steps, Writing
  <2> QED
    BY <1>1, <1>5, <2>1, WritesOnce, WriteNumbered DEF Once
<1>6. ASSUME NEW c \in Calls, Moves(c) PROVE Numbered'
  <2>1. TypeOK' /\ UNCHANGED <<process, writer>>
    BY <1>1, <1>6, MovesType
  <2> QED
    BY <1>1, <2>1 DEF Numbered, SequenceNumbersIncrease, process, writer
<1> QED
  BY <1>2, <1>3, <1>4, <1>5, <1>6, NextSteps

\* The types are right over restarts and failed writes, and the lines of the
\* log are numbered.
LEMMA NumberedInvariant == Spec => []Numbered
<1>1. Init => Numbered
  BY InitNumbered
<1>2. Numbered /\ [Next]_vars => Numbered'
  BY StepNumbered
<1> QED
  BY <1>1, <1>2, PTL DEF Spec

\* Every variable keeps its type.
THEOREM TypeCorrect == Spec => []TypeOK
<1>1. Numbered => TypeOK
  BY DEF Numbered
<1> QED
  BY <1>1, NumberedInvariant, PTL

\* Every line of the log has a number of its own, larger than those before it,
\* over restarts and failed writes.
THEOREM NumbersIncrease == Spec => []SequenceNumbersIncrease
<1>1. Numbered => SequenceNumbersIncrease
  BY DEF Numbered
<1> QED
  BY <1>1, NumberedInvariant, PTL

-----------------------------------------------------------------------------
(* One call at a time *)

\* A step of a call leaves the others and the process alone, and appends at most
\* one event, of its own.
LEMMA OneCall ==
  ASSUME TypeOK, NEW c \in Calls, Writes(c) \/ Moves(c)
  PROVE  /\ up /\ UNCHANGED process
         /\ \A d \in Calls \ {c} :
              /\ pc'[d] = pc[d] /\ born'[d] = born[d] /\ snap'[d] = snap[d]
              /\ tries'[d] = tries[d] /\ last'[d] = last[d] /\ answer'[d] = answer[d]
         /\ born'[c] = born[c] \/ (pc[c] = "idle" /\ born'[c] = lives)
         /\ log' = log \/ \E e \in Events : e.call = c /\ log' = Append(log, e)
<1>1. CASE Writes(c)
  <2>1. PICK e \in Events, step \in Steps : e.call = c /\ Write(c, e, step)
    BY <1>1, WritesOnce DEF Once, Steps, Writing
  <2>2. UNCHANGED <<process, born, tries>>
    BY <1>1, WritesOnce
  <2> QED
    BY <2>1, <2>2 DEF TypeOK, Write, Goto, Return
<1>2. CASE Moves(c)
  <2>1. UNCHANGED process /\ log' = log
    BY <1>2, MovesType DEF writer
  <2> USE DEF TypeOK, Goto, Return, Refuse
  <2>2. CASE c \in Requests /\ Receive(c)
    BY <2>1, <2>2 DEF Receive, Arrives
  <2>3. CASE c \in Requests /\ (Expired(c) \/ OverQuota(c) \/ NoProvider(c))
    BY <2>1, <2>3 DEF Expired, OverQuota, NoProvider
  <2>4. CASE c \in Requests /\ Allow(c)
    BY <2>1, <2>4 DEF Allow
  <2>5. CASE c \in Requests /\ (Attempt(c) \/ OutOfTime(c))
    BY <2>1, <2>5 DEF Attempt, OutOfTime
  <2>6. CASE c \in Reloads /\ LoadCandidate(c)
    BY <2>1, <2>6 DEF LoadCandidate, Arrives
  <2>7. CASE c \in Reloads /\ Swap(c)
    BY <2>1, <2>7 DEF Swap
  <2>8. CASE Answer(c)
    BY <2>1, <2>8 DEF Answer
  <2> QED
    BY <1>2, <2>2, <2>3, <2>4, <2>5, <2>6, <2>7, <2>8 DEF Moves
<1> QED
  BY <1>1, <1>2

\* A call's own events come after those that were there.
LEMMA Grows ==
  ASSUME TypeOK, NEW c \in Calls, Writes(c) \/ Moves(c)
  PROVE  /\ Len(log) \in Nat /\ Len(log') \in Nat /\ Len(log) <= Len(log')
         /\ \A i \in 1..Len(log) : i \in 1..Len(log') /\ log'[i] = log[i] /\ log[i] \in Events
         /\ \A i \in 1..Len(log') : i \in 1..Len(log) \/ log'[i].call = c
<1>1. CASE log' = log
  BY <1>1 DEF TypeOK
<1>2. CASE \E e \in Events : e.call = c /\ log' = Append(log, e)
  <2>1. PICK e \in Events : e.call = c /\ log' = Append(log, e)
    BY <1>2
  <2>2. /\ Len(log) \in Nat /\ Len(log') = Len(log) + 1 /\ log'[Len(log')] = e
        /\ \A i \in 1..Len(log) : log'[i] = log[i] /\ log[i] \in Events
    BY <2>1, Appended
  <2> QED
    BY <2>1, <2>2
<1> QED
  BY <1>1, <1>2, OneCall

\* Where a call's own steps take it.
LEMMA OwnSteps ==
  ASSUME TypeOK, NEW c \in Calls, Writes(c) \/ Moves(c)
  PROVE  /\ pc[c] \notin {"done", "lost"} /\ pc'[c] \notin {"idle", "lost"}
         /\ pc'[c] # "done" => answer'[c] = answer[c]
         /\ pc[c] = "idle" => born'[c] = lives
<1>1. CASE Writes(c)
  <2>1. PICK e \in Events, step \in {"gate", "attempt", "decide", "answer", "swap"} :
          Once(c, e, step)
    BY <1>1, WritesOnce
  <2> QED
    BY <2>1 DEF Once, Write, Goto, Return, TypeOK, Writing
<1>2. CASE Moves(c)
  <2> USE DEF TypeOK, Goto, Return, Refuse
  <2>1. CASE c \in Requests /\ Receive(c)
    BY <2>1 DEF Receive, Arrives
  <2>2. CASE c \in Requests /\ (Expired(c) \/ OverQuota(c) \/ NoProvider(c))
    BY <2>2 DEF Expired, OverQuota, NoProvider
  <2>3. CASE c \in Requests /\ Allow(c)
    BY <2>3 DEF Allow
  <2>4. CASE c \in Requests /\ (Attempt(c) \/ OutOfTime(c))
    BY <2>4 DEF Attempt, OutOfTime
  <2>5. CASE c \in Reloads /\ LoadCandidate(c)
    BY <2>5 DEF LoadCandidate, Arrives
  <2>6. CASE c \in Reloads /\ Swap(c)
    BY <2>6 DEF Swap
  <2>7. CASE Answer(c)
    BY <2>7 DEF Answer
  <2> QED
    BY <1>2, <2>1, <2>2, <2>3, <2>4, <2>5, <2>6, <2>7 DEF Moves
<1> QED
  BY <1>1, <1>2

\* The snapshot a call holds is one that was loaded.
LEMMA HeldSnapshot ==
  ASSUME TypeOK, ProcessInv, CallsInv, NEW c \in Calls, Writes(c) \/ Moves(c),
         pc'[c] # "done", c \in Requests \/ pc'[c] \in {"audit", "swap"}
  PROVE  snap'[c] \in Versions
<1>1. up /\ serving \in Versions
  BY OneCall DEF ProcessInv
<1>2. InFlight(c) /\ (c \in Requests \/ pc[c] \in {"audit", "swap"}) => snap[c] \in Versions
  BY DEF CallsInv
<1>3. CASE Writes(c)
  <2>1. PICK e \in Events, step \in {"gate", "attempt", "decide", "answer", "swap"} :
          Once(c, e, step)
    BY <1>3, WritesOnce
  <2>2. pc'[c] = step /\ snap' = snap /\ InFlight(c)
    BY <2>1 DEF Once, Write, Goto, Return, TypeOK, InFlight, Writing
  <2>3. c \in Requests \/ pc[c] \in {"audit", "swap"}
    BY <2>1, <2>2 DEF Once
  <2> QED
    BY <1>2, <2>2, <2>3
<1>4. CASE c \in Requests /\ Receive(c)
  BY <1>1, <1>4 DEF Receive, TypeOK
<1>5. CASE c \in Requests /\ (Expired(c) \/ OverQuota(c) \/ Allow(c) \/ NoProvider(c)
                                \/ Attempt(c) \/ OutOfTime(c))
  <2>1. snap' = snap
    BY <1>5 DEF Expired, OverQuota, Allow, NoProvider, Attempt, OutOfTime, Refuse
  <2>2. InFlight(c)
    BY <1>5 DEF Expired, OverQuota, Allow, NoProvider, Attempt, OutOfTime, InFlight
  <2> QED
    BY <1>2, <1>5, <2>1, <2>2
<1>6. CASE c \in Reloads /\ LoadCandidate(c)
  <2>1. c \notin Requests
    BY <1>6, CallsAssumption DEF CallsAssumption
  <2>2. \/ pc'[c] = "reload_failed"
        \/ \E v \in Versions : snap' = [snap EXCEPT ![c] = v]
    BY <1>6 DEF LoadCandidate, TypeOK, Goto
  <2> QED
    BY <2>1, <2>2 DEF TypeOK
<1>7. CASE (c \in Reloads /\ Swap(c)) \/ Answer(c)
  BY <1>7 DEF Swap, Answer, Return, Goto, TypeOK
<1> QED
  BY <1>3, <1>4, <1>5, <1>6, <1>7 DEF Moves

-----------------------------------------------------------------------------
(* The snapshot that serves is audited *)

ReloadsInv == \A c \in Reloads : ReloadInv(c)

Audited == Numbered /\ ProcessInv /\ CallsInv /\ ReloadsInv /\ ServedIsAudited

LEMMA InitAudited == Init => Audited
<1> SUFFICES ASSUME Init PROVE Audited
  OBVIOUS
<1>1. Numbered
  BY InitNumbered
<1>2. /\ Len(log) = 0 /\ ~up
      /\ \A c \in Calls : pc[c] = "idle" /\ answer[c] = "nothing" /\ born[c] <= lives
  BY EmptySeq DEF Init
<1> QED
  BY <1>1, <1>2 DEF Audited, ProcessInv, CallsInv, InFlight, Silent, ReloadsInv, ReloadInv,
                    ServedIsAudited, Calls

\* The process and its calls, over a step of a call.
LEMMA CallStepCalls ==
  ASSUME TypeOK, ProcessInv, CallsInv, ReloadsInv, NEW c \in Calls, Writes(c) \/ Moves(c)
  PROVE  ProcessInv' /\ CallsInv'
<1>1. /\ up /\ up' = up /\ lives' = lives
      /\ \A d \in Calls \ {c} :
           /\ pc'[d] = pc[d] /\ born'[d] = born[d] /\ snap'[d] = snap[d] /\ answer'[d] = answer[d]
      /\ born'[c] = born[c] \/ (pc[c] = "idle" /\ born'[c] = lives)
      /\ lives \in Int
  BY OneCall DEF process, TypeOK
<1>2. ProcessInv'
  <2>1. serving' = serving \/ (pc[c] = "swap" /\ serving' = snap[c])
    BY WritesOnce DEF Writes, Moves, Receive, Expired, OverQuota, Refuse, Allow, NoProvider,
                      Attempt, OutOfTime, LoadCandidate, Swap, Answer
  <2>2. pc[c] = "swap" => snap[c] \in Versions
    BY DEF CallsInv, InFlight
  <2> QED
    BY <1>1, <2>1, <2>2 DEF ProcessInv
<1>3. ASSUME NEW d \in Calls, d # c
      PROVE  /\ born'[d] <= lives' /\ (InFlight(d)' => up' /\ born'[d] = lives')
             /\ pc'[d] # "done" => answer'[d] = "nothing"
             /\ pc'[d] = "idle" => Silent(d)'
             /\ InFlight(d)' /\ (d \in Requests \/ pc'[d] \in {"audit", "swap"})
                  => snap'[d] \in Versions
  <2>1. Silent(d) => Silent(d)'
    BY <1>3, Grows DEF Silent
  <2> QED
    BY <1>1, <1>3, <2>1 DEF CallsInv, InFlight
<1>4. /\ born'[c] <= lives' /\ (InFlight(c)' => up' /\ born'[c] = lives')
      /\ pc'[c] # "done" => answer'[c] = "nothing"
      /\ pc'[c] = "idle" => Silent(c)'
      /\ InFlight(c)' /\ (c \in Requests \/ pc'[c] \in {"audit", "swap"}) => snap'[c] \in Versions
  <2>1. /\ pc[c] \notin {"done", "lost"} /\ pc'[c] \notin {"idle", "lost"}
        /\ pc'[c] # "done" => answer'[c] = answer[c]
        /\ pc[c] = "idle" => born'[c] = lives
    BY OwnSteps
  <2>2. InFlight(c)' => /\ pc'[c] # "done"
    BY DEF InFlight
  <2> QED
    BY <1>1, <2>1, <2>2, HeldSnapshot DEF CallsInv, InFlight
<1> QED
  BY <1>2, <1>3, <1>4 DEF CallsInv

\* A reload that is about to swap has been recorded.
LEMMA CallStepReloads ==
  ASSUME TypeOK, ReloadsInv, NEW c \in Calls, Writes(c) \/ Moves(c)
  PROVE  ReloadsInv'
<1> DEFINE Recorded(d) ==
             \E i \in 1..Len(log) : /\ log[i].call = d /\ log[i].kind = "snapshot_reload_event"
                                    /\ log[i].result = Ok /\ log[i].version = snap[d]
<1>1. ASSUME NEW d \in Reloads, d # c PROVE ReloadInv(d)'
  <2>1. d \in Calls /\ pc'[d] = pc[d] /\ snap'[d] = snap[d]
    BY <1>1, OneCall DEF Calls
  <2>2. Recorded(d) => Recorded(d)'
    BY <2>1, Grows
  <2> QED
    BY <1>1, <2>1, <2>2 DEF ReloadsInv, ReloadInv
<1>2. ASSUME c \in Reloads PROVE ReloadInv(c)'
  <2>1. c \notin Requests
    BY <1>2, CallsAssumption DEF CallsAssumption
  <2>2. CASE LoadCandidate(c) \/ Swap(c) \/ Answer(c)
    BY <2>2 DEF LoadCandidate, Swap, Answer, Goto, Return, ReloadInv, TypeOK
  <2>3. CASE Writes(c)
    <3>1. pc'[c] \in {"swap", "answer", "done"}
      BY <2>1, <2>3 DEF Writes, WriteReload, WriteReloadFailure, Write, Goto, Return, TypeOK
    <3>2. ASSUME pc'[c] = "swap" PROVE Recorded(c)'
      <4>1. PICK e \in Events, step \in {"gate", "attempt", "decide", "answer", "swap"} :
              Once(c, e, step)
        BY <2>3, WritesOnce
      <4>2. step = "swap" /\ snap' = snap /\ log' = Append(log, e)
        BY <3>2, <4>1 DEF Once, Write, Goto, Return, TypeOK
      <4>3. Len(log') \in 1..Len(log') /\ log'[Len(log')] = e
        BY <4>2, Appended
      <4> QED
        BY <4>1, <4>2, <4>3 DEF Once
    <3> QED
      BY <3>1, <3>2 DEF ReloadInv
  <2> QED
    BY <2>1, <2>2, <2>3 DEF Moves
<1> QED
  BY <1>1, <1>2 DEF ReloadsInv

\* What was recorded stays so, and only a reload that was recorded changes the
\* snapshot that serves.
LEMMA CallStepServed ==
  ASSUME Audited, NEW c \in Calls, Writes(c) \/ Moves(c)
  PROVE  ServedIsAudited'
<1>1. TypeOK /\ CallsInv /\ ReloadsInv /\ ServedIsAudited
  BY DEF Audited, Numbered
<1>2. /\ up /\ lives' = lives /\ startup' = startup
      /\ \A d \in Calls : born[d] = lives => born'[d] = lives
  BY <1>1, OneCall DEF process
<1>3. \A v : AuditedReload(v) => AuditedReload(v)'
  <2>1. \A i \in 1..Len(log) : i \in 1..Len(log') /\ log'[i] = log[i] /\ log[i].call \in Calls
    BY <1>1, Grows DEF Events
  <2> QED
    BY <1>2, <2>1 DEF AuditedReload
<1>4. CASE serving' = serving
  BY <1>1, <1>2, <1>3, <1>4 DEF ServedIsAudited
<1>5. CASE c \in Reloads /\ Swap(c)
  <2>1. pc[c] = "swap" /\ serving' = snap[c] /\ born[c] = lives
    BY <1>1, <1>5 DEF Swap, CallsInv, InFlight
  <2>2. AuditedReload(snap[c])
    BY <1>1, <1>5, <2>1 DEF ReloadsInv, ReloadInv, AuditedReload
  <2> QED
    BY <1>3, <2>1, <2>2 DEF ServedIsAudited
<1>6. serving' = serving \/ (c \in Reloads /\ Swap(c))
  BY <1>1, WritesOnce DEF Moves, Receive, Expired, OverQuota, Refuse, Allow, NoProvider, Attempt,
                          OutOfTime, LoadCandidate, Answer
<1> QED
  BY <1>4, <1>5, <1>6

LEMMA StepAudited == Audited /\ [Next]_vars => Audited'
<1> SUFFICES ASSUME Audited, [Next]_vars PROVE Audited'
  OBVIOUS
<1>1. TypeOK /\ ProcessInv /\ CallsInv /\ ReloadsInv /\ ServedIsAudited
  BY DEF Audited, Numbered
<1>2. Numbered'
  BY StepNumbered DEF Audited
<1>3. CASE UNCHANGED vars
  BY <1>1, <1>2, <1>3 DEF vars, process, writer, calls, Audited, ProcessInv, CallsInv, InFlight,
                          Silent, ReloadsInv, ReloadInv, ServedIsAudited, AuditedReload
<1>4. ASSUME NEW v \in Versions, Start(v) PROVE Audited'
  <2>1. \A c \in Calls : ~InFlight(c) /\ born[c] <= lives + 1
    BY <1>1, <1>4 DEF Start, CallsInv, TypeOK
  <2>2. CallsInv' /\ ReloadsInv'
    BY <1>1, <1>4, <2>1 DEF Start, calls, CallsInv, InFlight, Silent, ReloadsInv, ReloadInv
  <2>3. ProcessInv' /\ ServedIsAudited'
    BY <1>1, <1>4 DEF Start, TypeOK, ProcessInv, ServedIsAudited
  <2> QED
    BY <1>2, <2>2, <2>3 DEF Audited
<1>5. CASE Crash
  <2>1. /\ ~up' /\ log' = log /\ answer' = answer /\ born' = born /\ lives' = lives
        /\ \A c \in Calls : /\ pc'[c] = (IF pc[c] \in {"idle", "done"} THEN pc[c] ELSE "lost")
                            /\ pc'[c] \in {"idle", "done", "lost"}
    BY <1>5 DEF Crash, writer
  <2>2. CallsInv'
    BY <1>1, <2>1 DEF CallsInv, InFlight, Silent
  <2>3. ReloadsInv'
    BY <1>1, <1>5, <2>1 DEF ReloadsInv, ReloadInv, Calls
  <2> QED
    BY <1>2, <2>1, <2>2, <2>3 DEF Audited, ProcessInv, ServedIsAudited
<1>6. ASSUME NEW c \in Calls, Writes(c) \/ Moves(c) PROVE Audited'
  BY <1>1, <1>2, <1>6, CallStepCalls, CallStepReloads, CallStepServed DEF Audited
<1> QED
  BY <1>3, <1>4, <1>5, <1>6, NextSteps

\* While the process runs it serves the snapshot it started with, or one that a
\* reload of this life wrote to the log before it took effect.
THEOREM ServedSnapshotIsAudited == Spec => []ServedIsAudited
<1>1. Audited /\ [Next]_vars => Audited'
  BY StepAudited
<1>2. Audited => ServedIsAudited
  BY DEF Audited
<1> QED
  BY InitAudited, <1>1, <1>2, PTL DEF Spec

-----------------------------------------------------------------------------
(* The quota of a project holds *)

Gated == Audited /\ GateInv

\* A part of a finite set of requests is no larger.
LEMMA SmallerAdmitted ==
  ASSUME NEW S \in SUBSET Requests, NEW T \in SUBSET S
  PROVE  /\ IsFiniteSet(S) /\ Cardinality(S) \in Nat /\ Cardinality(T) \in Nat
         /\ Cardinality(T) <= Cardinality(S)
<1>1. IsFiniteSet(Requests)
  BY CallsAssumption DEF CallsAssumption
<1>2. IsFiniteSet(S)
  BY <1>1, FS_Subset
<1>3. IsFiniteSet(T) /\ Cardinality(T) <= Cardinality(S)
  BY <1>2, FS_Subset
<1> QED
  BY <1>2, <1>3, FS_CardinalityType

\* Only Allow lets a request past the gate, and it counts it.
LEMMA CallStepAdmits ==
  ASSUME Audited, NEW c \in Calls, Writes(c) \/ Moves(c), NEW r \in Requests,
         born'[r] = lives', pc'[r] = "route" \/ Routed(r)'
  PROVE  \/ born[r] = lives /\ (pc[r] = "route" \/ Routed(r))
         \/ r = c /\ Allow(c)
<1>1. TypeOK /\ CallsInv /\ r \in Calls /\ lives' = lives
  BY OneCall DEF Audited, Numbered, Calls, process
<1>2. CASE r # c
  <2>1. pc'[r] = pc[r] /\ born'[r] = born[r]
    BY <1>1, <1>2, OneCall
  <2>2. Routed(r)' => Routed(r)
    BY <1>1, <1>2, Grows DEF Routed
  <2> QED
    BY <1>1, <2>1, <2>2
<1>3. CASE r = c /\ Writes(c)
  <2>1. PICK e \in Events, step \in {"gate", "attempt", "decide", "answer", "swap"} :
          Once(c, e, step)
    BY <1>1, <1>3, WritesOnce
  <2>2. born' = born /\ pc'[c] # "route"
    BY <1>1, <1>3, <2>1, WritesOnce DEF Once, Write, Goto, Return, TypeOK
  <2>3. CASE log' = log
    BY <1>1, <1>3, <2>2, <2>3 DEF Routed
  <2>4. CASE log' = Append(log, e)
    <3>1. Routed(c)' => Routed(c) \/ e.kind = "routing_decision"
      BY <1>1, <2>4, Appended DEF Routed
    <3> QED
      BY <1>1, <1>3, <2>1, <2>2, <3>1 DEF Once
  <2> QED
    BY <2>1, <2>3, <2>4 DEF Once, Write
<1>4. CASE r = c /\ Moves(c)
  <2>1. Routed(c)' = Routed(c)
    BY <1>1, <1>4, MovesType DEF Routed, writer
  <2>2. CASE pc[c] = "idle"
    <3>1. pc'[c] # "route"
      BY <1>1, <1>4, <2>2 DEF Moves, Receive, Expired, OverQuota, Refuse, Allow, NoProvider,
                              Attempt, OutOfTime, LoadCandidate, Swap, Answer, Goto, Return, TypeOK
    <3>2. ~Routed(c)
      BY <1>1, <2>2 DEF CallsInv, Silent, Routed
    <3> QED
      BY <1>4, <2>1, <3>1, <3>2
  <2>3. CASE pc[c] # "idle"
    <3>1. born'[c] = born[c]
      BY <1>1, <1>4, <2>3, OneCall
    <3>2. pc'[c] = "route" => Allow(c)
      BY <1>1, <1>4, <2>3 DEF Moves, Receive, Arrives, Expired, OverQuota, Refuse, NoProvider,
                              Attempt, OutOfTime, LoadCandidate, Swap, Answer, Goto, Return, TypeOK
    <3> QED
      BY <1>1, <1>4, <2>1, <3>1, <3>2
  <2> QED
    BY <2>2, <2>3
<1> QED
  BY <1>2, <1>3, <1>4

LEMMA StepGated == Gated /\ [Next]_vars => Gated'
<1> SUFFICES ASSUME Gated, [Next]_vars, Quota > 0, NEW p \in Projects
             PROVE  Cardinality(Admitted(p)') <= counts'[p] /\ counts'[p] <= Quota
  BY StepAudited DEF Gated, GateInv
<1>1. /\ Audited /\ TypeOK /\ CallsInv /\ counts[p] \in Nat /\ Quota \in Int
      /\ Cardinality(Admitted(p)) <= counts[p] /\ counts[p] <= Quota
  BY QuotaAssumption DEF Gated, Audited, Numbered, GateInv, TypeOK, QuotaAssumption
<1>2. ASSUME Admitted(p)' \subseteq Admitted(p), counts'[p] = counts[p]
      PROVE  Cardinality(Admitted(p)') <= counts'[p] /\ counts'[p] <= Quota
  <2>1. Admitted(p) \in SUBSET Requests
    BY DEF Admitted
  <2> QED
    BY <1>1, <1>2, <2>1, SmallerAdmitted
<1>3. CASE UNCHANGED vars
  <2>1. Admitted(p)' = Admitted(p)
    BY <1>3 DEF vars, process, writer, calls, Admitted, Routed
  <2> QED
    BY <1>2, <1>3, <2>1 DEF vars
<1>4. ASSUME NEW v \in Versions, Start(v)
      PROVE  Cardinality(Admitted(p)') <= counts'[p] /\ counts'[p] <= Quota
  <2>1. \A r \in Requests : born'[r] # lives'
    BY <1>1, <1>4 DEF Start, calls, CallsInv, Calls, TypeOK
  <2>2. Admitted(p)' = {} /\ counts'[p] = 0
    BY <1>4, <2>1 DEF Start, Admitted
  <2> QED
    BY <1>1, <2>2, FS_EmptySet
<1>5. CASE Crash
  <2>1. \A r \in Requests : r \in Admitted(p)' => r \in Admitted(p)
    BY <1>5 DEF Crash, writer, Admitted, Routed, Calls
  <2>2. Admitted(p)' \subseteq Admitted(p)
    BY <2>1 DEF Admitted
  <2> QED
    BY <1>2, <1>5, <2>2 DEF Crash
<1>6. ASSUME NEW c \in Calls, Writes(c) \/ Moves(c)
      PROVE  Cardinality(Admitted(p)') <= counts'[p] /\ counts'[p] <= Quota
  <2>1. CASE c \in Requests /\ Allow(c) /\ Project[c] = p
    <3>1. counts'[p] = counts[p] + 1 /\ counts[p] < Quota
      BY <1>1, <2>1 DEF Allow, Exhausted, TypeOK
    <3>2. Admitted(p)' \subseteq Admitted(p) \cup {c}
      BY <1>1, <1>6, CallStepAdmits DEF Admitted
    <3>3. /\ Cardinality(Admitted(p) \cup {c}) \in Nat
          /\ Cardinality(Admitted(p) \cup {c}) <= Cardinality(Admitted(p)) + 1
      <4>1. IsFiniteSet(Admitted(p)) /\ Cardinality(Admitted(p)) \in Nat
        BY SmallerAdmitted DEF Admitted
      <4>2. Cardinality(Admitted(p) \cup {c}) =
              IF c \in Admitted(p) THEN Cardinality(Admitted(p)) ELSE Cardinality(Admitted(p)) + 1
        BY <4>1, FS_AddElement
      <4> QED
        BY <4>1, <4>2
    <3>4. /\ Cardinality(Admitted(p)') \in Nat
          /\ Cardinality(Admitted(p)') <= Cardinality(Admitted(p) \cup {c})
      <4>1. Admitted(p) \cup {c} \in SUBSET Requests
        BY <2>1 DEF Admitted
      <4> QED
        BY <3>2, <4>1, SmallerAdmitted
    <3>5. Cardinality(Admitted(p)) \in Nat
      BY SmallerAdmitted DEF Admitted
    <3> QED
      BY <1>1, <3>1, <3>3, <3>4, <3>5
  <2>2. CASE ~(c \in Requests /\ Allow(c) /\ Project[c] = p)
    <3>1. Admitted(p)' \subseteq Admitted(p)
      BY <1>1, <1>6, <2>2, CallStepAdmits DEF Admitted
    <3>2. counts'[p] = counts[p]
      BY <1>1, <1>6, <2>2, WritesOnce
      DEF Moves, Receive, Expired, OverQuota, Refuse, Allow, NoProvider, Attempt, OutOfTime,
          LoadCandidate, Swap, Answer, TypeOK
    <3> QED
      BY <1>2, <3>1, <3>2
  <2> QED
    BY <2>1, <2>2
<1> QED
  BY <1>3, <1>4, <1>5, <1>6, NextSteps

LEMMA InitGated == Init => Gated
<1> SUFFICES ASSUME Init PROVE GateInv
  BY InitAudited DEF Gated
<1>1. Len(log) = 0
  BY EmptySeq DEF Init
<1>2. \A p \in Projects : Admitted(p) = {} /\ counts[p] = 0
  BY <1>1 DEF Init, Admitted, Routed, Calls
<1> QED
  BY <1>2, FS_EmptySet, QuotaAssumption DEF GateInv, QuotaAssumption

\* In one life of the process no project gets more requests past the gate than
\* its quota.
THEOREM QuotaIsKept == Spec => []QuotaHolds
<1>1. Gated => QuotaHolds
  <2> SUFFICES ASSUME Gated, Quota > 0, NEW p \in Projects
               PROVE  Cardinality({r \in Requests : Project[r] = p /\ born[r] = lives /\ Routed(r)})
                        <= Quota
    BY DEF QuotaHolds
  <2> DEFINE R == {r \in Requests : Project[r] = p /\ born[r] = lives /\ Routed(r)}
  <2>1. R \in SUBSET Admitted(p) /\ Admitted(p) \in SUBSET Requests
    BY DEF Admitted
  <2>2. Cardinality(R) \in Nat /\ Cardinality(Admitted(p)) \in Nat
        /\ Cardinality(R) <= Cardinality(Admitted(p))
    BY <2>1, SmallerAdmitted
  <2>3. Cardinality(Admitted(p)) <= counts[p] /\ counts[p] <= Quota /\ counts[p] \in Nat
    BY DEF Gated, Audited, Numbered, GateInv, TypeOK
  <2> QED
    BY <2>2, <2>3, QuotaAssumption DEF QuotaAssumption
<1> QED
  BY InitGated, <1>1, StepGated, PTL DEF Spec

-----------------------------------------------------------------------------
(* The log explains every request *)

LEMMA Policies ==
  ASSUME NEW v \in Versions
  PROVE  /\ Candidates[v] \in Nat /\ MaxAttempts[v] \in Int /\ RetriedOn[v] \subseteq Failures
         /\ Candidates[v] > 0 => MaxAttempts[v] >= 1
<1>1. /\ Candidates[v] \in Nat /\ Policy[v].enabled \in BOOLEAN /\ Policy[v].maxAttempts \in Int
      /\ Policy[v].retryOn \subseteq Failures
  BY SnapshotAssumption DEF SnapshotAssumption
<1> QED
  BY <1>1 DEF MaxAttempts, RetriedOn

\* A write either ends its call, or its event is the latest of the call.
LEMMA Wrote ==
  ASSUME TypeOK, NEW c \in Calls, NEW e \in Events, e.call = c, NEW step, Write(c, e, step)
  PROVE  /\ log' = log \/ log' = Append(log, e)
         /\ \/ pc'[c] = "done" /\ answer' = [answer EXCEPT ![c] = "unavailable"]
            \/ /\ pc'[c] = step /\ last' = last /\ snap' = snap /\ answer' = answer
               /\ log' = Append(log, e)
               /\ \E n \in 1..Len(log') : log'[n] = e /\ LatestEvent(c, n)'
<1>1. CASE log' = Append(log, e) /\ Goto(c, step) /\ UNCHANGED <<faults, answer, snap, last>>
  <2>1. Len(log') \in 1..Len(log') /\ log'[Len(log')] = e
    BY <1>1, Appended
  <2>2. PICK n \in 1..Len(log') : n = Len(log')
    BY <2>1
  <2>3. LatestEvent(c, n)'
    BY <2>1, <2>2 DEF LatestEvent
  <2> QED
    BY <1>1, <2>1, <2>2, <2>3 DEF Goto, TypeOK
<1>2. CASE log' \in {log, Append(log, e)} /\ Return(c, "unavailable")
  BY <1>2 DEF Return, Goto, TypeOK
<1> QED
  BY <1>1, <1>2 DEF Write

\* What a step of one call says about another.
LEMMA OtherRequests ==
  ASSUME TypeOK, NEW c \in Calls, Writes(c) \/ Moves(c), NEW r \in Requests, r # c, RequestInv(r)
  PROVE  RequestInv(r)'
<1>1. /\ r \in Calls /\ pc'[r] = pc[r] /\ snap'[r] = snap[r] /\ tries'[r] = tries[r]
      /\ last'[r] = last[r]
  BY OneCall DEF Calls
<1>2. Silent(r) => Silent(r)'
  BY Grows DEF Silent
<1>3. \A i \in 1..Len(log) : i \in 1..Len(log') /\ log'[i] = log[i]
  BY Grows
<1>4. ASSUME NEW i \in 1..Len(log), LatestEvent(r, i) PROVE LatestEvent(r, i)'
  BY <1>4, Grows DEF LatestEvent
<1>5. AfterContext(r) => AfterContext(r)'
  BY <1>3, <1>4 DEF AfterContext
<1>6. \A n, f : AfterAttempt(r, n, f) => AfterAttempt(r, n, f)'
  BY <1>1, <1>3, <1>4 DEF AfterAttempt
<1> QED
  BY <1>1, <1>2, <1>3, <1>5, <1>6 DEF RequestInv

\* The steps of a request that write nothing keep what its log says in line
\* with where it stands.
LEMMA OwnMoves ==
  ASSUME TypeOK, CallsInv, NEW r \in Requests, Moves(r), RequestInv(r)
  PROVE  RequestInv(r)'
<1>1. /\ r \in Calls /\ r \notin Reloads /\ log' = log
      /\ last[r] \in Results /\ tries[r] \in Nat
  BY MovesType, CallsAssumption DEF Calls, CallsAssumption, writer, TypeOK
<1>2. /\ Silent(r)' = Silent(r) /\ \A i : LatestEvent(r, i)' = LatestEvent(r, i)
      /\ AfterContext(r)' = AfterContext(r)
  BY <1>1 DEF Silent, LatestEvent, AfterContext
<1>3. ASSUME snap' = snap
      PROVE  \A n, f : AfterAttempt(r, n, f)' = AfterAttempt(r, n, f)
  BY <1>1, <1>2, <1>3 DEF AfterAttempt
<1>4. InFlight(r) => snap[r] \in Versions
  BY <1>1 DEF CallsInv
<1>5. CASE Receive(r)
  BY <1>1, <1>2, <1>5 DEF Receive, Arrives, Goto, TypeOK, RequestInv
<1>6. CASE Expired(r) \/ OverQuota(r) \/ NoProvider(r)
  <2>1. /\ pc[r] \in {"gate", "route"} /\ pc'[r] = "refuse" /\ last'[r] \in Refusals
    BY <1>1, <1>6 DEF Expired, OverQuota, NoProvider, Refuse, Goto, TypeOK, Refusals
  <2> QED
    BY <1>2, <2>1 DEF RequestInv
<1>7. CASE Allow(r)
  BY <1>1, <1>2, <1>7 DEF Allow, Goto, TypeOK, RequestInv
<1>8. CASE Attempt(r)
  <2>1. /\ pc[r] = "attempt" /\ pc'[r] = "usage" /\ snap' = snap
        /\ tries'[r] = tries[r] + 1 /\ last'[r] \in Failures \cup {Ok}
    BY <1>1, <1>8 DEF Attempt, Goto, TypeOK
  <2>2. /\ tries[r] < MaxAttempts[snap[r]] /\ AfterAttempt(r, tries[r], last[r])
        /\ last[r] \in (IF tries[r] = 0 THEN {None} ELSE RetriedOn[snap[r]])
    BY <2>1 DEF RequestInv
  <2>3. /\ MaxAttempts[snap[r]] \in Int /\ None \notin RetriedOn[snap[r]]
    BY <1>4, <2>1, Policies, FailuresAssumption DEF InFlight, FailuresAssumption
  <2>4. tries'[r] \in 1..MaxAttempts[snap'[r]]
    BY <1>1, <2>1, <2>2, <2>3
  <2>5. /\ last[r] \in RetriedOn[snap[r]] \cup {None} /\ (last[r] = None => tries'[r] = 1)
        /\ tries'[r] - 1 = tries[r]
    BY <1>1, <2>1, <2>2, <2>3
  <2>6. (\E f \in RetriedOn[snap[r]] \cup {None} :
           AfterAttempt(r, tries[r] - 1, f) /\ (f = None => tries[r] = 1))'
    BY <1>1, <1>2, <2>1, <2>2, <2>5 DEF AfterAttempt
  <2> QED
    BY <2>1, <2>4, <2>6 DEF RequestInv
<1>9. CASE OutOfTime(r)
  <2>1. /\ pc[r] = "attempt" /\ pc'[r] = "decide" /\ snap' = snap /\ tries'[r] = tries[r]
        /\ last'[r] = IF last[r] = None THEN Timeout ELSE last[r]
    BY <1>1, <1>9 DEF OutOfTime, Goto, TypeOK
  <2>2. /\ AfterAttempt(r, tries[r], last[r])
        /\ last[r] \in (IF tries[r] = 0 THEN {None} ELSE RetriedOn[snap[r]])
    BY <2>1 DEF RequestInv
  <2>3. RetriedOn[snap[r]] \subseteq Failures /\ None \notin Failures
    BY <1>4, <2>1, Policies, FailuresAssumption DEF InFlight, FailuresAssumption
  <2>4. last'[r] \in IF tries[r] = 0 THEN {Timeout} ELSE Failures \cup {Ok}
    BY <2>1, <2>2, <2>3
  <2>5. AfterAttempt(r, tries[r], last'[r])
    BY <1>1, <2>1, <2>2, <2>3 DEF AfterAttempt
  <2> QED
    BY <1>3, <2>1, <2>4, <2>5 DEF RequestInv
<1>10. CASE Answer(r)
  BY <1>1, <1>10 DEF Answer, Return, Goto, TypeOK, RequestInv
<1> QED
  BY <1>1, <1>5, <1>6, <1>7, <1>8, <1>9, <1>10 DEF Moves

\* An event that follows from the latest one of its request.
LEMMA FollowsLatest ==
  ASSUME NEW e, NEW i \in 1..Len(log), LatestEvent(e.call, i),
         Graph!Plans(e, log[i]) \/ Graph!Tries(e, log[i]) \/ Graph!Concludes(e, log[i])
  PROVE  Graph!Follows(e)
<1>1. Graph!Before(e, log[i])
  BY DEF Graph!Before, Graph!IsLatest, LatestEvent
<1> QED
  BY <1>1 DEF Graph!Follows

\* The steps of a request that write, each with the event it appends.
LEMMA OwnWrites ==
  ASSUME TypeOK, CallsInv, NEW r \in Requests, Writes(r), RequestInv(r)
  PROVE  /\ RequestInv(r)'
         /\ \/ log' = log /\ answer' = [answer EXCEPT ![r] = "unavailable"]
            \/ /\ answer' = answer \/ answer' = [answer EXCEPT ![r] = "unavailable"]
               /\ \E e \in Events : e.call = r /\ log' = Append(log, e) /\ Graph!Follows(e)
<1>1. /\ r \in Calls /\ r \notin Reloads /\ UNCHANGED tries
      /\ last[r] \in Results /\ tries[r] \in Nat /\ snap[r] \in Versions \cup {None}
      /\ serving \in Versions \cup {None} /\ None \in Results
  BY WritesOnce, CallsAssumption DEF Calls, CallsAssumption, TypeOK, Results
<1>2. InFlight(r) => snap[r] \in Versions
  BY <1>1 DEF CallsInv
<1> DEFINE Explained(e) ==
             /\ RequestInv(r)'
             /\ \/ log' = log /\ answer' = [answer EXCEPT ![r] = "unavailable"]
                \/ /\ answer' = answer \/ answer' = [answer EXCEPT ![r] = "unavailable"]
                   /\ log' = Append(log, e)
             /\ e \in Events /\ e.call = r /\ Graph!Follows(e)
<1>3. SUFFICES \E e : Explained(e)
  OBVIOUS
<1>4. ASSUME NEW e \in Events, e.call = r, NEW step, Write(r, e, step), Graph!Follows(e),
             ASSUME pc'[r] = step, last' = last, snap' = snap,
                    NEW n \in 1..Len(log'), log'[n] = e, LatestEvent(r, n)'
             PROVE  RequestInv(r)'
      PROVE  Explained(e)
  <2>1. pc'[r] = "done" => RequestInv(r)'
    BY DEF RequestInv
  <2> QED
    BY <1>1, <1>4, <2>1, Wrote
<1>5. CASE WriteContext(r)
  <2> DEFINE e == Event(r, "request_context", None, 0, None)
  <2>1. e \in Events /\ e.call = r /\ e.kind = "request_context"
    BY <1>1, EventType DEF Event, Kinds
  <2>2. Silent(r) /\ tries[r] = 0 /\ last[r] = None /\ Write(r, e, "gate")
    BY <1>5 DEF WriteContext, RequestInv
  <2>3. Graph!Follows(e)
    BY <2>1, <2>2 DEF Silent, Graph!Follows, Graph!Opens
  <2>4. ASSUME pc'[r] = "gate", last' = last, snap' = snap,
               NEW n \in 1..Len(log'), log'[n] = e, LatestEvent(r, n)'
        PROVE  RequestInv(r)'
    BY <1>1, <2>1, <2>2, <2>4 DEF RequestInv, AfterContext
  <2> HIDE DEF e
  <2> QED
    BY <1>4, <2>1, <2>2, <2>3, <2>4
<1>6. CASE Route(r)
  <2> DEFINE e == Event(r, "routing_decision", snap[r], 0, None)
  <2>1. e \in Events /\ e.call = r /\ e.kind = "routing_decision" /\ e.version = snap[r]
    BY <1>1, EventType DEF Event, Kinds
  <2>2. /\ AfterContext(r) /\ tries[r] = 0 /\ last[r] = None /\ Write(r, e, "attempt")
        /\ pc[r] = "route" /\ Candidates[snap[r]] > 0
    BY <1>6 DEF Route, RequestInv
  <2>3. Graph!Follows(e)
    <3>1. PICK i \in 1..Len(log) : LatestEvent(r, i) /\ log[i].kind = "request_context"
      BY <2>2 DEF AfterContext
    <3>2. Graph!Plans(e, log[i])
      BY <2>1, <3>1 DEF Graph!Plans
    <3> HIDE DEF e
    <3> QED
      BY <2>1, <3>1, <3>2, FollowsLatest
  <2>4. 0 < MaxAttempts[snap[r]]
    BY <1>2, <2>2, Policies DEF InFlight
  <2>5. ASSUME pc'[r] = "attempt", last' = last, snap' = snap,
               NEW n \in 1..Len(log'), log'[n] = e, LatestEvent(r, n)'
        PROVE  RequestInv(r)'
    BY <1>1, <2>1, <2>2, <2>4, <2>5 DEF RequestInv, AfterAttempt
  <2> HIDE DEF e
  <2> QED
    BY <1>4, <2>1, <2>2, <2>3, <2>5
<1>7. CASE WriteUsage(r)
  <2> DEFINE e == Event(r, "usage_event", snap[r], tries[r], last[r])
  <2>1. /\ e \in Events /\ e.call = r /\ e.kind = "usage_event" /\ e.version = snap[r]
        /\ e.attempt = tries[r] /\ e.result = last[r]
    BY <1>1, EventType DEF Event, Kinds
  <2>2. pc[r] = "usage" /\ snap[r] \in Versions
    BY <1>2, <1>7 DEF WriteUsage, InFlight
  <2>3. PICK step \in IF FailsOver(r) THEN {"attempt", "decide"} ELSE {"decide"} :
          Write(r, e, step)
    BY <1>7 DEF WriteUsage
  <2>4. tries[r] \in 1..MaxAttempts[snap[r]] /\ last[r] \in Failures \cup {Ok}
    BY <2>2 DEF RequestInv
  <2>5. PICK f \in RetriedOn[snap[r]] \cup {None} :
          AfterAttempt(r, tries[r] - 1, f) /\ (f = None => tries[r] = 1)
    BY <2>2 DEF RequestInv
  <2>6. Graph!Follows(e)
    <3>1. PICK i \in 1..Len(log) :
            /\ LatestEvent(r, i) /\ log[i].version = snap[r]
            /\ IF tries[r] - 1 = 0 THEN log[i].kind = "routing_decision"
               ELSE /\ log[i].kind = "usage_event" /\ log[i].attempt = tries[r] - 1
                    /\ log[i].result = f
      BY <2>5 DEF AfterAttempt
    <3>2. MaxAttempts[snap[r]] \in Int
      BY <2>2, Policies
    <3>3. Graph!Tries(e, log[i])
      BY <2>1, <2>4, <2>5, <3>1, <3>2 DEF Graph!Tries
    <3> HIDE DEF e
    <3> QED
      BY <2>1, <3>1, <3>3, FollowsLatest
  <2>7. step = "attempt" => last[r] \in RetriedOn[snap[r]] /\ tries[r] < MaxAttempts[snap[r]]
    BY <2>3 DEF FailsOver
  <2>8. ASSUME pc'[r] = step, last' = last, snap' = snap,
               NEW n \in 1..Len(log'), log'[n] = e, LatestEvent(r, n)'
        PROVE  RequestInv(r)'
    <3>1. AfterAttempt(r, tries[r], last[r])'
      BY <1>1, <2>1, <2>4, <2>8 DEF AfterAttempt
    <3> HIDE DEF e
    <3> QED
      BY <1>1, <2>3, <2>4, <2>7, <2>8, <3>1 DEF RequestInv
  <2> HIDE DEF e
  <2> QED
    BY <1>4, <2>1, <2>3, <2>6, <2>8
<1>8. CASE WriteDecision(r)
  <2> DEFINE e == Event(r, "decision_log", snap[r], tries[r], last[r])
  <2>1. /\ e \in Events /\ e.call = r /\ e.kind = "decision_log" /\ e.version = snap[r]
        /\ e.attempt = tries[r] /\ e.result = last[r]
    BY <1>1, EventType DEF Event, Kinds
  <2>2. /\ Write(r, e, "answer") /\ AfterAttempt(r, tries[r], last[r])
        /\ last[r] \in IF tries[r] = 0 THEN {Timeout} ELSE Failures \cup {Ok}
    BY <1>8 DEF WriteDecision, RequestInv
  <2>3. Graph!Follows(e)
    <3>1. PICK i \in 1..Len(log) :
            /\ LatestEvent(r, i) /\ log[i].version = snap[r]
            /\ IF tries[r] = 0 THEN log[i].kind = "routing_decision"
               ELSE /\ log[i].kind = "usage_event" /\ log[i].attempt = tries[r]
                    /\ log[i].result = last[r]
      BY <2>2 DEF AfterAttempt
    <3>2. Timeout # Ok
      BY FailuresAssumption DEF FailuresAssumption
    <3>3. Graph!Concludes(e, log[i])
      BY <2>1, <2>2, <3>1, <3>2 DEF Graph!Concludes
    <3> HIDE DEF e
    <3> QED
      BY <2>1, <3>1, <3>3, FollowsLatest
  <2>4. ASSUME pc'[r] = "answer", last' = last, snap' = snap,
               NEW n \in 1..Len(log'), log'[n] = e, LatestEvent(r, n)'
        PROVE  RequestInv(r)'
    BY <2>1, <2>4 DEF RequestInv
  <2> HIDE DEF e
  <2> QED
    BY <1>4, <2>1, <2>2, <2>3, <2>4
<1>9. CASE WriteFailedDecision(r)
  <2> DEFINE e == Event(r, "decision_log", serving, 0, last[r])
  <2>1. /\ e \in Events /\ e.call = r /\ e.kind = "decision_log" /\ e.attempt = 0
        /\ e.result = last[r]
    BY <1>1, EventType DEF Event, Kinds
  <2>2. Write(r, e, "answer") /\ AfterContext(r) /\ last[r] \in Refusals
    BY <1>9 DEF WriteFailedDecision, RequestInv
  <2>3. Graph!Follows(e)
    <3>1. PICK i \in 1..Len(log) : LatestEvent(r, i) /\ log[i].kind = "request_context"
      BY <2>2 DEF AfterContext
    <3>2. Graph!Concludes(e, log[i])
      BY <2>1, <2>2, <3>1, FailuresAssumption DEF FailuresAssumption, Graph!Concludes
    <3> HIDE DEF e
    <3> QED
      BY <2>1, <3>1, <3>2, FollowsLatest
  <2>4. ASSUME pc'[r] = "answer", last' = last, snap' = snap,
               NEW n \in 1..Len(log'), log'[n] = e, LatestEvent(r, n)'
        PROVE  RequestInv(r)'
    BY <2>1, <2>4 DEF RequestInv
  <2> HIDE DEF e
  <2> QED
    BY <1>4, <2>1, <2>2, <2>3, <2>4
<1> QED
  BY <1>1, <1>5, <1>6, <1>7, <1>8, <1>9 DEF Writes

Explained == Audited /\ \A r \in Requests : RequestInv(r)

LEMMA StepExplained == Explained /\ [Next]_vars => Explained'
<1> SUFFICES ASSUME Explained, [Next]_vars, NEW r \in Requests PROVE RequestInv(r)'
  BY StepAudited DEF Explained
<1>1. TypeOK /\ CallsInv /\ RequestInv(r) /\ r \in Calls
  BY DEF Explained, Audited, Numbered, Calls
<1>2. CASE UNCHANGED vars
  BY <1>1, <1>2 DEF vars, process, writer, calls, RequestInv, Silent, AfterContext, AfterAttempt,
                    LatestEvent
<1>3. ASSUME NEW v \in Versions, Start(v) PROVE RequestInv(r)'
  BY <1>1, <1>3 DEF Start, calls, RequestInv, Silent, AfterContext, AfterAttempt, LatestEvent
<1>4. CASE Crash
  <2>1. /\ log' = log
        /\ pc[r] \in {"idle", "done"} => pc'[r] = pc[r]
        /\ pc[r] \notin {"idle", "done"} => pc'[r] = "lost"
        /\ pc[r] = "idle" => tries'[r] = 0 /\ last'[r] = None
    BY <1>1, <1>4 DEF Crash, writer
  <2>2. Silent(r)' = Silent(r)
    BY <2>1 DEF Silent
  <2> QED
    BY <1>1, <2>1, <2>2 DEF RequestInv
<1>5. ASSUME NEW c \in Calls, Writes(c) \/ Moves(c) PROVE RequestInv(r)'
  <2>1. CASE c = r
    BY <1>1, <1>5, <2>1, OwnWrites, OwnMoves
  <2>2. CASE c # r
    BY <1>1, <1>5, <2>2, OtherRequests
  <2> QED
    BY <2>1, <2>2
<1> QED
  BY <1>2, <1>3, <1>4, <1>5, NextSteps

GraphTold == [r \in Requests |-> answer[r]]

\* Every step records one event that follows, tells one caller, or stutters.
LEMMA StepGraph ==
  ASSUME Explained, [Next]_vars
  PROVE  [Graph!GraphNext]_<<log, GraphTold>>
<1>1. /\ TypeOK /\ CallsInv /\ \A r \in Requests : RequestInv(r)
      /\ Requests \subseteq Calls
  BY DEF Explained, Audited, Numbered, Calls
<1>2. ASSUME log' = log, answer' = answer PROVE UNCHANGED <<log, GraphTold>>
  BY <1>2 DEF GraphTold
<1>3. CASE UNCHANGED vars
  BY <1>2, <1>3 DEF vars, writer, calls
<1>4. CASE (\E v \in Versions : Start(v)) \/ Crash
  BY <1>2, <1>4 DEF Start, Crash, writer, calls
<1>5. ASSUME NEW r \in Requests, NEW a, answer' = [answer EXCEPT ![r] = a]
      PROVE  GraphTold' = [GraphTold EXCEPT ![r] = a]
  BY <1>1, <1>5 DEF GraphTold, TypeOK
<1>6. ASSUME NEW c \in Reloads, NEW a, answer' = [answer EXCEPT ![c] = a]
      PROVE  GraphTold' = GraphTold
  BY <1>1, <1>6, CallsAssumption DEF GraphTold, TypeOK, CallsAssumption
<1>7. ASSUME NEW c \in Requests, Moves(c) PROVE [Graph!GraphNext]_<<log, GraphTold>>
  <2>1. log' = log /\ c \notin Reloads
    BY <1>1, <1>7, MovesType, CallsAssumption DEF writer, CallsAssumption
  <2>2. CASE Answer(c)
    <3>1. /\ pc[c] = "answer" /\ answer[c] = "nothing"
          /\ answer' = [answer EXCEPT ![c] = IF last[c] = Ok THEN "success" ELSE "failure"]
      BY <1>1, <2>2 DEF Answer, Return, CallsInv
    <3>2. PICK i \in 1..Len(log) : /\ log[i].call = c /\ log[i].kind = "decision_log"
                                   /\ log[i].result = last[c]
      BY <1>1, <3>1 DEF RequestInv
    <3>3. GraphTold[c] = "nothing"
      BY <3>1 DEF GraphTold
    <3>4. Graph!Tell(c)
      <4>1. CASE last[c] = Ok
        BY <1>5, <2>1, <3>1, <3>2, <3>3, <4>1 DEF Graph!Tell, Graph!Concluded, GraphTold
      <4>2. CASE last[c] # Ok
        BY <1>5, <2>1, <3>1, <3>2, <3>3, <4>2 DEF Graph!Tell, Graph!Concluded, GraphTold
      <4> QED
        BY <4>1, <4>2
    <3> QED
      BY <3>4 DEF Graph!GraphNext
  <2>3. CASE ~Answer(c)
    <3>1. answer' = answer
      BY <1>7, <2>1, <2>3 DEF Moves, Receive, Expired, OverQuota, Refuse, Allow, NoProvider,
                              Attempt, OutOfTime
    <3> QED
      BY <1>2, <2>1, <3>1
  <2> QED
    BY <2>2, <2>3
<1>8. ASSUME NEW c \in Requests, Writes(c) PROVE [Graph!GraphNext]_<<log, GraphTold>>
  <2>1. answer[c] = "nothing"
    BY <1>1, <1>8, OwnSteps DEF CallsInv
  <2>2. GraphTold[c] = "nothing"
    BY <2>1 DEF GraphTold
  <2>3. CASE log' = log /\ answer' = [answer EXCEPT ![c] = "unavailable"]
    BY <1>5, <2>2, <2>3 DEF Graph!GraphNext, Graph!Tell, GraphTold
  <2>4. CASE /\ answer' = answer \/ answer' = [answer EXCEPT ![c] = "unavailable"]
             /\ \E e \in Events : e.call = c /\ log' = Append(log, e) /\ Graph!Follows(e)
    <3>1. PICK e \in Events : e.call = c /\ log' = Append(log, e) /\ Graph!Follows(e)
      BY <2>4
    <3>2. /\ Len(log') = Len(log) + 1 /\ log'[Len(log')] = e
          /\ \A i \in 1..Len(log) : log'[i] = log[i]
      BY <1>1, <3>1, Appended
    <3>3. GraphTold' \in {GraphTold, [GraphTold EXCEPT ![c] = "unavailable"]}
      BY <1>2, <1>5, <2>4 DEF GraphTold
    <3>4. Graph!Record
      BY <2>2, <3>1, <3>2, <3>3 DEF Graph!Record, GraphTold
    <3> QED
      BY <3>4 DEF Graph!GraphNext
  <2> QED
    BY <1>1, <1>8, <2>3, <2>4, OwnWrites
<1>9. ASSUME NEW c \in Reloads, Writes(c) \/ Moves(c)
      PROVE  [Graph!GraphNext]_<<log, GraphTold>>
  <2>1. c \in Calls /\ c \notin Requests
    BY CallsAssumption DEF CallsAssumption, Calls
  <2>2. answer' = answer \/ \E a : answer' = [answer EXCEPT ![c] = a]
    BY <1>9, <2>1 DEF Writes, Moves, WriteReload, WriteReloadFailure, Write, Return, LoadCandidate,
                      Swap, Answer
  <2>3. GraphTold' = GraphTold
    BY <1>2, <1>6, <2>2 DEF GraphTold
  <2>4. CASE log' = log
    BY <2>3, <2>4
  <2>5. CASE \E e \in Events : e.call = c /\ log' = Append(log, e)
    <3>1. PICK e \in Events : e.call = c /\ log' = Append(log, e)
      BY <2>5
    <3>2. /\ Len(log') = Len(log) + 1 /\ log'[Len(log')] = e
          /\ \A i \in 1..Len(log) : log'[i] = log[i]
      BY <1>1, <3>1, Appended
    <3>3. Graph!Record
      BY <2>1, <2>3, <3>1, <3>2 DEF Graph!Record, GraphTold
    <3> QED
      BY <3>3 DEF Graph!GraphNext
  <2> QED
    BY <1>1, <1>9, <2>1, <2>4, <2>5, OneCall
<1> QED
  BY <1>3, <1>4, <1>7, <1>8, <1>9, NextSteps DEF Calls

LEMMA InitExplained == Init => Explained
BY InitAudited, EmptySeq DEF Init, Explained, RequestInv, Silent, Calls

\* The inductive invariant, as a whole.
THEOREM Invariant == Spec => []IInv
<1>1. Gated /\ Explained => IInv
  BY DEF Gated, Explained, Audited, Numbered, ReloadsInv, IInv
<1> QED
  BY InitGated, StepGated, InitExplained, StepExplained, <1>1, PTL DEF Spec

\* The log explains every request by one chain of events, and callers are told
\* what the chain says.
THEOREM Refinement == Spec => ImplementsGraph
<1>1. Init => Graph!GraphInit
  <2>1. Init => \A r \in Requests : answer[r] = "nothing"
    BY DEF Init, Calls
  <2> QED
    BY <2>1 DEF Init, Graph!GraphInit
<1>2. Explained /\ [Next]_vars => [Graph!GraphNext]_<<log, GraphTold>>
  BY StepGraph
<1> QED
  BY InitExplained, <1>1, <1>2, StepExplained, PTL
  DEF Spec, ImplementsGraph, Graph!GraphSpec, GraphTold
=============================================================================
