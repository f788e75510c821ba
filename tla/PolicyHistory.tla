---------------------------- MODULE PolicyHistory ----------------------------
(***************************************************************************)
(* What the hosted permission policy promises to its readers: a history of *)
(* versions that only grows, whose newest entry is what permissions are    *)
(* resolved by. A reader who knows the version knows the graph.            *)
(***************************************************************************)
EXTENDS Integers, Sequences

CONSTANT Start     \* the versions the source starts with

VARIABLES
  history,   \* the versions, each with the graph it was activated with
  current    \* the permission graph that readers see

Last == history[Len(history)]

Known(version) == \E i \in 1..Len(history) : history[i].version = version

HistoryInit == history = Start /\ current = Last.graph

\* A promotion or a rollback activates a version nobody has heard of.
Activate ==
  /\ Len(history') = Len(history) + 1
  /\ SubSeq(history', 1, Len(history)) = history
  /\ ~Known(history'[Len(history')].version)
  /\ current' = history'[Len(history')].graph

HistorySpec == HistoryInit /\ [][Activate]_<<history, current>>

=============================================================================
