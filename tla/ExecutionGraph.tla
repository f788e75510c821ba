---------------------------- MODULE ExecutionGraph ----------------------------
(***************************************************************************)
(* What the data plane promises about every execution: the event stream    *)
(* only grows, each request is explained in it by one chain                *)
(*    request_context -> routing_decision -> usage_event* -> decision_log  *)
(* in which every event rests on the one before, and a caller is told no   *)
(* more than what the chain already says.                                  *)
(***************************************************************************)
EXTENDS Integers, Sequences

CONSTANTS
  Requests,
  Ok,            \* the result of a successful attempt; the others are failures
  MaxAttempts,   \* version -> the attempts its policy allows
  RetriedOn      \* version -> the failures its policy retries

VARIABLES
  graph,   \* the events, in the order of the stream
  told     \* request -> what its caller was told

\* e is the latest event of its request.
IsLatest(e) ==
  \E i \in 1..Len(graph) : graph[i] = e /\ \A j \in i+1..Len(graph) : graph[j].call # e.call

Before(e, p) == p.call = e.call /\ IsLatest(p)

Opens(e) == e.kind = "request_context" /\ \A i \in 1..Len(graph) : graph[i].call # e.call

Plans(e, p) == e.kind = "routing_decision" /\ p.kind = "request_context"

Tries(e, p) ==
  /\ e.kind = "usage_event"
  /\ \/ p.kind = "routing_decision" /\ e.attempt = 1
     \/ p.kind = "usage_event" /\ e.attempt = p.attempt + 1 /\ p.result \in RetriedOn[p.version]
  /\ e.version = p.version
  /\ e.attempt <= MaxAttempts[p.version]

\* Without an attempt there is nothing but failure to report.
Concludes(e, p) ==
  /\ e.kind = "decision_log"
  /\ \/ p.kind = "request_context" /\ e.attempt = 0 /\ e.result # Ok
     \/ p.kind = "routing_decision" /\ e.attempt = 0 /\ e.result # Ok /\ e.version = p.version
     \/ /\ p.kind = "usage_event" /\ e.attempt = p.attempt /\ e.version = p.version
        /\ (e.result = Ok) <=> (p.result = Ok)

Follows(e) ==
  \/ Opens(e)
  \/ \E i \in 1..Len(graph) :
       /\ Before(e, graph[i])
       /\ Plans(e, graph[i]) \/ Tries(e, graph[i]) \/ Concludes(e, graph[i])

Concluded(r, success) ==
  \E i \in 1..Len(graph) :
    /\ graph[i].call = r /\ graph[i].kind = "decision_log" /\ ((graph[i].result = Ok) <=> success)

GraphInit == graph = <<>> /\ told = [r \in Requests |-> "nothing"]

\* An event is appended. If the writer could not vouch for it, the caller is
\* told so, and hears nothing else.
Record ==
  /\ Len(graph') = Len(graph) + 1
  /\ \A i \in 1..Len(graph) : graph'[i] = graph[i]
  /\ LET e == graph'[Len(graph')]
     IN e.call \in Requests =>
          /\ Follows(e)
          /\ told[e.call] = "nothing"
          /\ told' \in {told, [told EXCEPT ![e.call] = "unavailable"]}
  /\ graph'[Len(graph')].call \notin Requests => told' = told

Tell(r) ==
  /\ told[r] = "nothing"
  /\ \/ told' = [told EXCEPT ![r] = "unavailable"]
     \/ told' = [told EXCEPT ![r] = "success"] /\ Concluded(r, TRUE)
     \/ told' = [told EXCEPT ![r] = "failure"] /\ Concluded(r, FALSE)
  /\ UNCHANGED graph

GraphNext == Record \/ \E r \in Requests : Tell(r)

GraphSpec == GraphInit /\ [][GraphNext]_<<graph, told>>

===============================================================================
