------------------------------- MODULE DataPlane -------------------------------
(***************************************************************************)
(* The Go data plane as one process: requests are executed concurrently,   *)
(* an operator reloads the snapshot, all of them write to one event log,   *)
(* and the process crashes and starts again on the log it left behind.     *)
(*                                                                         *)
(* A request keeps the snapshot it started with. Every event that cannot   *)
(* be written ends the request at once with EVENT_WRITE_FAILED. The clock  *)
(* is not modelled: a freshness check may find the snapshot expired, and   *)
(* the deadline may be found passed whenever the code looks, which always  *)
(* ends the attempts. Requests name one capability and are well-formed;    *)
(* regions, costs, latencies and credentials are data no step depends on,  *)
(* but for the failures they cause.                                        *)
(***************************************************************************)
EXTENDS Integers, Sequences, FiniteSets

CONSTANTS
  Requests, Reloads,   \* calls of /v1/execute and of /v1/admin/reload-snapshot
  Projects, Project,   \* request -> its project
  Quota,               \* API2AGENT_PROJECT_QUOTA
  Versions,            \* snapshots that can be loaded
  Candidates,          \* version -> how many providers have the capability
  Policy,              \* version -> its failover policy
  Failures,            \* the errors an attempt can end with
  None,
  MaxLives,            \* bound: how often the process starts
  MaxFaults,           \* bound: writes that fail
  MaxCalls             \* bound: calls that arrive

Ok      == "ok"
Timeout == "TIMEOUT"
Calls   == Requests \cup Reloads

\* The reasons to conclude a request that has no usage event.
Refusals == {"SNAPSHOT_EXPIRED", "QUOTA_EXCEEDED", "NO_PROVIDER"}

ASSUME CallsAssumption == Requests \cap Reloads = {} /\ IsFiniteSet(Requests)
ASSUME ProjectAssumption == Project \in [Requests -> Projects]
ASSUME QuotaAssumption == Quota \in Int
ASSUME SnapshotAssumption ==
  /\ Candidates \in [Versions -> Nat]
  /\ Policy \in [Versions -> [enabled : BOOLEAN, maxAttempts : Int, retryOn : SUBSET Failures]]
ASSUME FailuresAssumption ==
  Ok \notin Failures \cup Refusals /\ Timeout \in Failures /\ None \notin Failures \cup Refusals \cup {Ok}
ASSUME BoundsAssumption == MaxLives \in Nat /\ MaxFaults \in Nat /\ MaxCalls \in Nat

VARIABLES
  up,        \* the process runs
  lives,     \* how often it has started
  torn,      \* the log ends in a torn line
  log,       \* the readable lines of events.jsonl
  nextSeq,   \* JSONLWriter.nextSeq
  faults,    \* writes that failed so far
  counts,    \* QuotaGate.counts
  startup,   \* Handler.Snapshot, the snapshot the process started with
  serving,   \* the snapshot in the SnapshotStore
  pc,        \* the next step of a call's handler
  born,      \* the life of the process a call arrived in
  snap,      \* the snapshot a call holds
  tries,     \* len(usageIDs): the attempts a request has made
  last,      \* how the last attempt ended, or why there was none
  answer     \* what the handler told its caller

process == <<up, lives, torn, startup>>
writer  == <<log, nextSeq, faults>>
calls   == <<pc, born, snap, tries, last, answer>>
vars    == <<process, writer, counts, serving, calls>>

Kinds == {"request_context", "routing_decision", "usage_event", "decision_log",
          "snapshot_reload_event"}

Results == Failures \cup Refusals \cup {Ok, None}

Events == [seq : Nat, call : Calls, kind : Kinds, version : Versions \cup {None},
           attempt : Nat, result : Results]

\* The steps at which a call writes an event.
Writing == {"context", "route", "usage", "decide", "refuse", "audit", "reload_failed"}

Steps == Writing \cup {"idle", "gate", "attempt", "answer", "swap", "done", "lost"}

Answers == {"nothing", "success", "failure", "unavailable"}

TypeOK ==
  /\ up \in BOOLEAN /\ lives \in 0..MaxLives /\ torn \in BOOLEAN
  /\ log \in Seq(Events) /\ nextSeq \in Nat /\ faults \in 0..MaxFaults
  /\ counts \in [Projects -> Nat]
  /\ startup \in Versions \cup {None} /\ serving \in Versions \cup {None}
  /\ pc \in [Calls -> Steps]
  /\ born \in [Calls -> 0..MaxLives]
  /\ snap \in [Calls -> Versions \cup {None}]
  /\ tries \in [Calls -> Nat]
  /\ last \in [Calls -> Results]
  /\ answer \in [Calls -> Answers]

Init ==
  /\ up = FALSE /\ lives = 0 /\ torn = FALSE
  /\ log = <<>> /\ nextSeq = 1 /\ faults = 0
  /\ counts = [p \in Projects |-> 0]
  /\ startup = None /\ serving = None
  /\ pc = [c \in Calls |-> "idle"]
  /\ born = [c \in Calls |-> 0]
  /\ snap = [c \in Calls |-> None]
  /\ tries = [c \in Calls |-> 0]
  /\ last = [c \in Calls |-> None]
  /\ answer = [c \in Calls |-> "nothing"]

-----------------------------------------------------------------------------
(* The process *)

Bug_CountLines == Len(log) + 1

\* nextSequence: one more than the largest number in the log.
RecoveredSequence ==
  IF log = <<>> THEN 1
  ELSE 1 + (CHOOSE s \in {log[i].seq : i \in 1..Len(log)} :
              \A i \in 1..Len(log) : log[i].seq <= s)

\* main: load the configured snapshot and continue the log; log.Fatal when
\* either cannot be read.
Start(v) ==
  /\ ~up /\ lives < MaxLives /\ ~torn
  /\ up' = TRUE /\ lives' = lives + 1
  /\ startup' = v /\ serving' = v
  /\ nextSeq' = RecoveredSequence
  /\ counts' = [p \in Projects |-> 0]
  /\ UNCHANGED <<torn, log, faults, calls>>

\* The calls in flight are lost; the one that is writing may leave half a line.
Crash ==
  /\ up /\ up' = FALSE
  /\ \/ torn' = TRUE /\ \E c \in Calls : pc[c] \in Writing
     \/ UNCHANGED torn
  /\ pc' = [c \in Calls |-> IF pc[c] \in {"idle", "done"} THEN pc[c] ELSE "lost"]
  /\ snap' = [c \in Calls |-> None] /\ last' = [c \in Calls |-> None]
  /\ tries' = [c \in Calls |-> IF pc[c] = "done" THEN tries[c] ELSE 0]
  /\ UNCHANGED <<lives, startup, writer, counts, serving, born, answer>>

-----------------------------------------------------------------------------
(* The event writer *)

Event(c, kind, version, attempt, result) ==
  [seq |-> nextSeq, call |-> c, kind |-> kind, version |-> version,
   attempt |-> attempt, result |-> result]

Goto(c, step) == pc' = [pc EXCEPT ![c] = step]

Bug_SilentFailure(c, result) ==
  /\ Goto(c, "done")
  /\ answer' = IF result = "unavailable" THEN answer ELSE [answer EXCEPT ![c] = result]
  /\ snap' = [snap EXCEPT ![c] = None]
  /\ last' = [last EXCEPT ![c] = None]

\* The handler answers; what it held is gone.
Return(c, result) ==
  /\ Goto(c, "done")
  /\ answer' = [answer EXCEPT ![c] = result]
  /\ snap' = [snap EXCEPT ![c] = None]
  /\ last' = [last EXCEPT ![c] = None]

\* writeEvent: the number is used up whether or not the line is written. It is
\* not when the caller has gone, or the file cannot be opened; it is, though
\* the call fails, when the file cannot be synced.
Write(c, e, step) ==
  /\ up
  /\ nextSeq' = nextSeq + 1
  /\ \/ log' = Append(log, e) /\ Goto(c, step) /\ UNCHANGED <<faults, answer, snap, last>>
     \/ /\ faults < MaxFaults /\ faults' = faults + 1
        /\ log' \in {log, Append(log, e)}
        /\ Return(c, "unavailable")

-----------------------------------------------------------------------------
(* Execute *)

Arrives(c) == up /\ pc[c] = "idle" /\ Cardinality({d \in Calls : pc[d] # "idle"}) < MaxCalls

Receive(r) ==
  /\ Arrives(r) /\ Goto(r, "context")
  /\ snap' = [snap EXCEPT ![r] = serving]
  /\ born' = [born EXCEPT ![r] = lives]
  /\ UNCHANGED <<process, writer, counts, serving, tries, last, answer>>

WriteContext(r) ==
  /\ pc[r] = "context"
  /\ Write(r, Event(r, "request_context", None, 0, None), "gate")
  /\ UNCHANGED <<process, counts, serving, born, tries>>

Refuse(r, reason) ==
  /\ up /\ Goto(r, "refuse")
  /\ last' = [last EXCEPT ![r] = reason]
  /\ UNCHANGED <<process, writer, counts, serving, born, snap, tries, answer>>

\* checkSnapshotFreshness, when it finds the snapshot past its time.
Expired(r) == pc[r] = "gate" /\ Refuse(r, "SNAPSHOT_EXPIRED")

Bug_OneMore(p) == Quota > 0 /\ counts[p] > Quota

\* The snapshot is fresh, and QuotaGate.Allow decides; a limit that is not
\* positive is no limit.
Exhausted(p) == Quota > 0 /\ counts[p] >= Quota

OverQuota(r) == pc[r] = "gate" /\ Exhausted(Project[r]) /\ Refuse(r, "QUOTA_EXCEEDED")

Allow(r) ==
  /\ up /\ pc[r] = "gate" /\ ~Exhausted(Project[r]) /\ Goto(r, "route")
  /\ counts' = IF Quota > 0 THEN [counts EXCEPT ![Project[r]] = @ + 1] ELSE counts
  /\ UNCHANGED <<process, writer, serving, born, snap, tries, last, answer>>

\* maxAttempts, for a snapshot with candidates.
MaxAttempts == [v \in Versions |->
  IF ~Policy[v].enabled \/ Policy[v].maxAttempts <= 0 THEN 1
  ELSE IF Policy[v].maxAttempts > Candidates[v] THEN Candidates[v]
  ELSE Policy[v].maxAttempts]

\* shouldFailover: error types and status codes are one kind of failure here.
RetriedOn == [v \in Versions |-> IF Policy[v].enabled THEN Policy[v].retryOn ELSE {}]

\* Decide looks at the snapshot the request holds, and nothing else.
NoProvider(r) == pc[r] = "route" /\ Candidates[snap[r]] = 0 /\ Refuse(r, "NO_PROVIDER")

Route(r) ==
  /\ pc[r] = "route" /\ Candidates[snap[r]] > 0
  /\ Write(r, Event(r, "routing_decision", snap[r], 0, None), "attempt")
  /\ UNCHANGED <<process, counts, serving, born, tries>>

Bug_BudgetOfAttempts(r) ==
  /\ up /\ pc[r] = "attempt" /\ Goto(r, "usage")
  /\ \E result \in Failures \cup {Ok} : last' = [last EXCEPT ![r] = result]
  /\ tries' = [tries EXCEPT ![r] = @ - 1]
  /\ UNCHANGED <<process, writer, counts, serving, born, snap, answer>>

\* The credential is resolved and the adapter called, and each may fail.
Attempt(r) ==
  /\ up /\ pc[r] = "attempt" /\ Goto(r, "usage")
  /\ \E result \in Failures \cup {Ok} : last' = [last EXCEPT ![r] = result]
  /\ tries' = [tries EXCEPT ![r] = @ + 1]
  /\ UNCHANGED <<process, writer, counts, serving, born, snap, answer>>

\* There is no time left for an attempt: the error of the last one stands, or
\* TIMEOUT if there was none.
OutOfTime(r) ==
  /\ up /\ pc[r] = "attempt" /\ Goto(r, "decide")
  /\ last' = [last EXCEPT ![r] = IF @ = None THEN Timeout ELSE @]
  /\ UNCHANGED <<process, writer, counts, serving, born, snap, tries, answer>>

\* An attempt that timed out has used up the whole budget.
FailsOver(r) ==
  /\ last[r] \in RetriedOn[snap[r]] \ {Timeout}
  /\ tries[r] < MaxAttempts[snap[r]]

WriteUsage(r) ==
  /\ pc[r] = "usage"
  /\ \E step \in IF FailsOver(r) THEN {"attempt", "decide"} ELSE {"decide"} :
       Write(r, Event(r, "usage_event", snap[r], tries[r], last[r]), step)
  /\ UNCHANGED <<process, counts, serving, born, tries>>

Bug_NameServing(r) ==
  /\ pc[r] = "decide"
  /\ Write(r, Event(r, "decision_log", serving, tries[r], last[r]), "answer")
  /\ UNCHANGED <<process, counts, serving, born, tries>>

WriteDecision(r) ==
  /\ pc[r] = "decide"
  /\ Write(r, Event(r, "decision_log", snap[r], tries[r], last[r]), "answer")
  /\ UNCHANGED <<process, counts, serving, born, tries>>

\* writeFailedDecision names the snapshot that serves now.
WriteFailedDecision(r) ==
  /\ pc[r] = "refuse"
  /\ Write(r, Event(r, "decision_log", serving, 0, last[r]), "answer")
  /\ UNCHANGED <<process, counts, serving, born, tries>>

Answer(c) ==
  /\ up /\ pc[c] = "answer" /\ Return(c, IF last[c] = Ok THEN "success" ELSE "failure")
  /\ UNCHANGED <<process, writer, counts, serving, born, tries>>

-----------------------------------------------------------------------------
(* ReloadSnapshot *)

\* LoadCandidate loads the snapshot and resolves its path once more; either
\* may fail.
LoadCandidate(c) ==
  /\ Arrives(c)
  /\ \/ Goto(c, "audit") /\ \E v \in Versions : snap' = [snap EXCEPT ![c] = v]
     \/ Goto(c, "reload_failed") /\ UNCHANGED snap
  /\ born' = [born EXCEPT ![c] = lives]
  /\ UNCHANGED <<process, writer, counts, serving, tries, last, answer>>

Bug_SkipAudit(c) ==
  /\ up /\ pc[c] = "audit" /\ Goto(c, "swap")
  /\ UNCHANGED <<process, writer, counts, serving, born, snap, tries, last, answer>>

WriteReload(c) ==
  /\ pc[c] = "audit"
  /\ Write(c, Event(c, "snapshot_reload_event", snap[c], 0, Ok), "swap")
  /\ UNCHANGED <<process, counts, serving, born, tries>>

WriteReloadFailure(c) ==
  /\ pc[c] = "reload_failed"
  /\ Write(c, Event(c, "snapshot_reload_event", None, 0, None), "answer")
  /\ UNCHANGED <<process, counts, serving, born, tries>>

Swap(c) ==
  /\ up /\ pc[c] = "swap" /\ Return(c, "success")
  /\ serving' = snap[c]
  /\ UNCHANGED <<process, writer, counts, born, tries>>

-----------------------------------------------------------------------------

Execute(r) ==
  \/ Receive(r) \/ WriteContext(r) \/ Expired(r) \/ OverQuota(r) \/ Allow(r)
  \/ NoProvider(r) \/ Route(r) \/ Attempt(r) \/ OutOfTime(r) \/ WriteUsage(r)
  \/ WriteDecision(r) \/ WriteFailedDecision(r) \/ Answer(r)

ReloadSnapshot(c) ==
  \/ LoadCandidate(c) \/ WriteReload(c) \/ WriteReloadFailure(c) \/ Swap(c) \/ Answer(c)

Next ==
  \/ \E v \in Versions : Start(v)
  \/ Crash
  \/ \E r \in Requests : Execute(r)
  \/ \E c \in Reloads : ReloadSnapshot(c)

Spec == Init /\ [][Next]_vars

\* Goroutines are scheduled, file operations return, and an adapter's call is
\* bounded by the deadline. Nothing makes callers call or the process start.
Fairness == \A r \in Requests : WF_vars(pc[r] # "idle" /\ Execute(r))

FairSpec == Spec /\ Fairness

-----------------------------------------------------------------------------
(* Properties *)

\* Lines of the log are numbered in order, and the next number is new, over
\* restarts and in spite of the numbers that failed writes use up (JSONLWriter,
\* nextSequence).
SequenceNumbersIncrease ==
  /\ \A i, j \in 1..Len(log) : i < j => log[i].seq < log[j].seq
  /\ up => \A i \in 1..Len(log) : log[i].seq < nextSeq

\* In one life of the process no project gets more requests past the gate, and
\* so to a provider, than its quota (QuotaGate.Allow in Execute).
Routed(r) == \E i \in 1..Len(log) : log[i].call = r /\ log[i].kind = "routing_decision"

QuotaHolds ==
  Quota > 0 => \A p \in Projects :
    Cardinality({r \in Requests : Project[r] = p /\ born[r] = lives /\ Routed(r)}) <= Quota

\* The snapshot that serves is the one the process started with, or one that a
\* reload in this life recorded in the log before it took effect.
AuditedReload(v) ==
  \E i \in 1..Len(log) :
    /\ log[i].kind = "snapshot_reload_event" /\ log[i].result = Ok /\ log[i].version = v
    /\ born[log[i].call] = lives

ServedIsAudited == up => serving = startup \/ AuditedReload(serving)

\* The log explains every request by one chain of events that agree on the
\* snapshot and the attempts, whatever reloads and crashes come in between, and
\* callers are told what the chain says (ExecutionGraph).
Graph == INSTANCE ExecutionGraph
  WITH graph <- log, told <- [r \in Requests |-> answer[r]]

ImplementsGraph == Graph!GraphSpec

\* A request that is received gets an answer, unless the process dies first.
RequestsAreAnswered ==
  \A r \in Requests : pc[r] = "context" ~> (answer[r] # "nothing" \/ pc[r] = "lost")

-----------------------------------------------------------------------------
(* Why they hold: where a call stands, its events in the log agree *)

LatestEvent(c, i) ==
  /\ i \in 1..Len(log) /\ log[i].call = c
  /\ \A j \in i+1..Len(log) : log[j].call # c

Silent(c) == \A i \in 1..Len(log) : log[i].call # c

AfterContext(r) ==
  \E i \in 1..Len(log) : LatestEvent(r, i) /\ log[i].kind = "request_context"

\* The latest event is the routing decision, or the attempt numbered n.
AfterAttempt(r, n, result) ==
  \E i \in 1..Len(log) :
    /\ LatestEvent(r, i) /\ log[i].version = snap[r]
    /\ IF n = 0 THEN log[i].kind = "routing_decision"
       ELSE log[i].kind = "usage_event" /\ log[i].attempt = n /\ log[i].result = result

RequestInv(r) ==
  CASE pc[r] \in {"idle", "context"} -> Silent(r) /\ tries[r] = 0 /\ last[r] = None
    [] pc[r] \in {"gate", "route"} -> AfterContext(r) /\ tries[r] = 0 /\ last[r] = None
    [] pc[r] = "refuse" -> AfterContext(r) /\ last[r] \in Refusals
    [] pc[r] = "attempt" ->
         /\ tries[r] < MaxAttempts[snap[r]]
         /\ AfterAttempt(r, tries[r], last[r])
         /\ last[r] \in IF tries[r] = 0 THEN {None} ELSE RetriedOn[snap[r]]
    [] pc[r] = "usage" ->
         /\ tries[r] \in 1..MaxAttempts[snap[r]] /\ last[r] \in Failures \cup {Ok}
         /\ \E f \in RetriedOn[snap[r]] \cup {None} :
              AfterAttempt(r, tries[r] - 1, f) /\ (f = None => tries[r] = 1)
    [] pc[r] = "decide" ->
         /\ AfterAttempt(r, tries[r], last[r])
         /\ last[r] \in IF tries[r] = 0 THEN {Timeout} ELSE Failures \cup {Ok}
    [] pc[r] = "answer" ->
         \E i \in 1..Len(log) : /\ log[i].call = r /\ log[i].kind = "decision_log"
                                /\ log[i].result = last[r]
    [] OTHER -> pc[r] \in {"done", "lost"}

ReloadInv(c) ==
  /\ pc[c] \in {"idle", "audit", "reload_failed", "swap", "answer", "done", "lost"}
  /\ pc[c] = "swap" =>
       \E i \in 1..Len(log) : /\ log[i].call = c /\ log[i].kind = "snapshot_reload_event"
                              /\ log[i].result = Ok /\ log[i].version = snap[c]

\* A call in flight belongs to the process that runs, and has no answer yet.
InFlight(c) == pc[c] \notin {"idle", "done", "lost"}

CallsInv ==
  \A c \in Calls :
    /\ born[c] <= lives /\ (InFlight(c) => up /\ born[c] = lives)
    /\ pc[c] # "done" => answer[c] = "nothing"
    /\ pc[c] = "idle" => Silent(c)
    /\ InFlight(c) /\ (c \in Requests \/ pc[c] \in {"audit", "swap"}) => snap[c] \in Versions

\* The requests past the gate are counted.
Admitted(p) == {r \in Requests : /\ Project[r] = p /\ born[r] = lives
                                 /\ pc[r] = "route" \/ Routed(r)}

GateInv == Quota > 0 =>
  \A p \in Projects : Cardinality(Admitted(p)) <= counts[p] /\ counts[p] <= Quota

ProcessInv == up => lives > 0 /\ serving \in Versions

IInv ==
  /\ TypeOK /\ SequenceNumbersIncrease /\ ProcessInv /\ CallsInv
  /\ \A r \in Requests : RequestInv(r)
  /\ \A c \in Reloads : ReloadInv(c)
  /\ GateInv /\ ServedIsAudited
=============================================================================
