------------------------------- MODULE UsageStore -------------------------------
(***************************************************************************)
(* control/storage.py: the SQLite file of usage events and routing         *)
(* decisions that every process of the Python plane shares. Each operator  *)
(* is one transaction. The rows are a sequence in the order of their       *)
(* insertion; the position of a row stands for its id, and created_at      *)
(* orders rows as insertion does.                                          *)
(***************************************************************************)
EXTENDS Routing

Modes == {"direct", "proxy", "shadow", "replay"}
Unfiltered == "unfiltered"   \* a filter that is not given

\* The columns a row is built from; a field that the call does not name
\* keeps its default.
NoEvent == [decision |-> 0, mode |-> "proxy", project |-> "local", capability |-> "none",
            provider |-> "none", tool |-> "none", method |-> "GET", status |-> NoStatus,
            success |-> FALSE, latency |-> 0, cost |-> 0, error |-> NoError, region |-> NoRegion,
            metadata |-> <<>>, reference |-> <<"none">>, runtime |-> "none", golden |-> FALSE]

Record(events, event) == Append(events, event)

MarkGolden(events, id, golden) ==
  IF id \in DOMAIN events THEN [events EXCEPT ![id].golden = golden] ELSE events

\* The rows that a query selects, as positions in the table.
Matching(events, project, capability, provider, mode, goldenOnly) ==
  {i \in DOMAIN events : /\ project    \in {Unfiltered, events[i].project}
                         /\ capability \in {Unfiltered, events[i].capability}
                         /\ provider   \in {Unfiltered, events[i].provider}
                         /\ mode       \in {Unfiltered, events[i].mode}
                         /\ goldenOnly => events[i].golden}

\* Newest first.
ListUsageEvents(events, project, capability, provider, mode, goldenOnly, limit) ==
  LET found == SetToSortSeq(Matching(events, project, capability, provider, mode, goldenOnly), >)
  IN  [n \in 1 .. Min({limit, Len(found)}) |-> events[found[n]]]

UsageForRoutingDecision(events, decision) == {i \in DOMAIN events : events[i].decision = decision}

\* SUM(success), and the sums of the columns that are numbers.
Succeeded(events, rows) == Cardinality({i \in rows : events[i].success})
LatencyOf(events, rows) == SumFunction([i \in rows |-> events[i].latency])
CostOf(events, rows)    == SumFunction([i \in rows |-> events[i].cost])

\* Mutant: only successes count.
Bug_OnlySuccessesCount(events, project) ==
  Cardinality({i \in DOMAIN events : events[i].success /\ project \in {Unfiltered, events[i].project}})

Count(events, project) ==
  Cardinality({i \in DOMAIN events : project \in {Unfiltered, events[i].project}})

\* What is reported of a set of rows.
Totals(events, rows) ==
  [total |-> Cardinality(rows), successful |-> Succeeded(events, rows),
   failed |-> Cardinality(rows) - Succeeded(events, rows), cost |-> CostOf(events, rows)]

Summarize(events, project) ==
  LET rows   == Matching(events, project, Unfiltered, Unfiltered, Unfiltered, FALSE)
      errors == {events[i].error : i \in rows} \ {NoError}
  IN  Totals(events, rows) @@
      [errors |-> [t \in errors |-> Cardinality({i \in rows : events[i].error = t})]]

\* One row per group; the mode is a column of its own only when asked for.
GroupOf(e, byMode) == <<e.project, e.capability, e.provider, IF byMode THEN e.mode ELSE Unfiltered>>

Ledger(events, project, capability, provider, byMode, goldenOnly) ==
  LET rows == Matching(events, project, capability, provider, Unfiltered, goldenOnly)
  IN  {[key |-> k, totals |-> Totals(events, {i \in rows : GroupOf(events[i], byMode) = k})]
       : k \in {GroupOf(events[i], byMode) : i \in rows}}

\* The rows of one GROUP BY provider, as metrics snapshots.
Snapshot(events, rows, provider, region) ==
  LET own == {i \in rows : events[i].provider = provider}
  IN  [provider |-> provider, region |-> region, total |-> Cardinality(own),
       successful |-> Succeeded(events, own),
       latency |-> Ratio(LatencyOf(events, own), Cardinality(own)),
       cost    |-> Ratio(CostOf(events, own), Cardinality(own))]

Snapshots(events, rows, region) ==
  LET providers == SetToSeq({events[i].provider : i \in rows})
  IN  [n \in DOMAIN providers |-> Snapshot(events, rows, providers[n], region)]

\* Mutant: replays count as calls.
Bug_ReplaysAreCalls(events, capability, includeShadow, includeReplay, region) ==
  Snapshots(events, {i \in DOMAIN events : /\ events[i].capability = capability
                                           /\ ~includeShadow => events[i].mode # "shadow"}, NoRegion)

\* Every event counts, refused and failed ones included; the rows of the
\* client's region follow the rows over all regions.
MetricsForCapability(events, capability, includeShadow, includeReplay, region) ==
  LET rows == {i \in DOMAIN events : /\ events[i].capability = capability
                                     /\ ~includeShadow => events[i].mode # "shadow"
                                     /\ ~includeReplay => events[i].mode # "replay"}
  IN  Snapshots(events, rows, NoRegion) \o
      IF region = NoRegion THEN <<>>
      ELSE Snapshots(events, {i \in rows : events[i].region = region}, region)
================================================================================
