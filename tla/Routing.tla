-------------------------------- MODULE Routing --------------------------------
(***************************************************************************)
(* How the Python plane orders the providers of a capability, and when it  *)
(* goes on to the next one: capabilities/routing.py, policies.py and       *)
(* failover.py as functions of their arguments.                            *)
(*                                                                         *)
(* Floats are exact ratios here; the infinite latency of a provider nobody *)
(* has called is the ratio 1/0, which Below puts above every other.        *)
(***************************************************************************)
EXTENDS Integers, Sequences, FiniteSets, FiniteSetsExt, SequencesExt

Ratio(n, d)  == [n |-> n, d |-> d]
Zero         == Ratio(0, 1)
Infinite     == Ratio(1, 0)
Below(a, b)  == a.n * b.d < b.n * a.d
Plus(a, b)   == Ratio(a.n * b.d + b.n * a.d, a.d * b.d)
Minus(a, b)  == Ratio(a.n * b.d - b.n * a.d, a.d * b.d)
Times(a, b)  == Ratio(a.n * b.n, a.d * b.d)
Over(a, b)   == Ratio(a.n * b.d, a.d * b.n)
Same(a, b)   == ~Below(a, b) /\ ~Below(b, a)
Least(S)     == CHOOSE a \in S : \A b \in S : ~Below(b, a)
Greatest(S)  == CHOOSE a \in S : \A b \in S : ~Below(a, b)

NoRegion == "no_region"

\* sorted(): each position in turn goes in behind every one it does not
\* precede, so equal keys keep the order of the candidates, also when the
\* order is reversed. `before` is the set of pairs of positions, the first of
\* which precedes the second.
Inserted(order, i, before) ==
  LET behind == {k \in DOMAIN order : <<i, order[k]>> \notin before}
  IN  InsertAt(order, Max({0} \cup behind) + 1, i)

SortedPositions(n, before) ==
  LET order[i \in 0..n] == IF i = 0 THEN <<>> ELSE Inserted(order[i - 1], i, before)
  IN  order[n]

StableSort(s, before) ==
  LET at == SortedPositions(Len(s), before) IN [i \in DOMAIN s |-> s[at[i]]]

\* {item.provider_id: item for item in metrics}: the last snapshot of a
\* provider wins, so a region's row replaces the row over all regions.
NoSnapshot == [provider |-> "none", region |-> NoRegion, total |-> 0, successful |-> 0,
               latency |-> Zero, cost |-> Zero]
SnapshotOf(c, metrics) ==
  LET at == {i \in DOMAIN metrics : metrics[i].provider = c.id}
  IN  IF at = {} THEN NoSnapshot ELSE metrics[Max(at)]

SuccessRate(c, metrics) ==
  LET s == SnapshotOf(c, metrics) IN IF s.total = 0 THEN Zero ELSE Ratio(s.successful, s.total)

Latency(c, metrics) ==
  LET s == SnapshotOf(c, metrics) IN IF s.total = 0 THEN Infinite ELSE s.latency

Cost(c, metrics) ==
  LET s == SnapshotOf(c, metrics) IN IF s.total = 0 THEN c.cost ELSE s.cost

RegionRank(c, region) ==
  IF region = NoRegion \/ region \in Range(c.regions) THEN 0
  ELSE CASE c.geo = "global"  -> 1
         [] c.geo = "unknown" -> 2
         [] OTHER             -> 3

\* Rows of the client's region if there are any, of any region otherwise.
RegionLatency(c, metrics, region) ==
  LET Rows(Fits(_)) == {metrics[i] : i \in {j \in DOMAIN metrics : /\ metrics[j].provider = c.id
                                                                   /\ metrics[j].total > 0
                                                                   /\ Fits(metrics[j])}}
      matching == Rows(LAMBDA m : region = NoRegion \/ m.region = region)
      any      == Rows(LAMBDA m : TRUE)
  IN  CASE matching # {} -> Least({m.latency : m \in matching})
        [] matching = {} /\ any # {} -> Least({m.latency : m \in any})
        [] OTHER -> Infinite

NormalizedInverse(value, values) ==
  LET finite == {v \in values : v # Infinite}
      low    == Least(finite)
      high   == Greatest(finite)
  IN  CASE value = Infinite \/ finite = {} -> Zero
        [] finite # {} /\ value # Infinite /\ Same(low, high) -> Ratio(1, 1)
        [] OTHER -> Minus(Ratio(1, 1), Over(Minus(value, low), Minus(high, low)))

\* policy.weights in tenths.
BalancedScore(c, candidates, metrics, weights) ==
  LET latencies == {Latency(d, metrics) : d \in Range(candidates)}
      costs     == {Cost(d, metrics) : d \in Range(candidates)}
  IN  Plus(Times(SuccessRate(c, metrics), Ratio(weights.success, 10)),
           Plus(Times(NormalizedInverse(Latency(c, metrics), latencies), Ratio(weights.latency, 10)),
                Times(NormalizedInverse(Cost(c, metrics), costs), Ratio(weights.cost, 10))))

\* Random(0).shuffle: one fixed permutation for every length.
Shuffled(s) ==
  IF Len(s) = 3 THEN <<s[1], s[3], s[2]>>
  ELSE IF Len(s) = 4 THEN <<s[3], s[1], s[2], s[4]>> ELSE s

\* The sort key of each strategy, as a comparison.
Precedes(a, b, candidates, metrics, policy) ==
  LET Rank(c)  == RegionRank(c, policy.region)
      Wait(c)  == RegionLatency(c, metrics, policy.region)
      Score(c) == BalancedScore(c, candidates, metrics, policy.weights)
  IN  CASE policy.strategy = "lowest_cost"    -> Below(Cost(a, metrics), Cost(b, metrics))
        [] policy.strategy = "lowest_latency" -> Below(Latency(a, metrics), Latency(b, metrics))
        [] policy.strategy = "region_aware_latency" ->
             Rank(a) < Rank(b) \/ (Rank(a) = Rank(b) /\ Below(Wait(a), Wait(b)))
        [] policy.strategy = "highest_success_rate" -> Below(SuccessRate(b, metrics), SuccessRate(a, metrics))
        [] OTHER -> Below(Score(b), Score(a))

RankProviders(candidates, metrics, policy) ==
  IF policy.strategy = "first" THEN candidates
  ELSE IF policy.strategy = "random" THEN Shuffled(candidates)
  ELSE StableSort(candidates, {at \in (DOMAIN candidates) \X (DOMAIN candidates) :
                                 Precedes(candidates[at[1]], candidates[at[2]], candidates, metrics, policy)})

SelectProviderRegion(c, region) ==
  CASE region # NoRegion /\ region \in Range(c.regions) -> region
    [] "global" \in Range(c.regions) \/ c.geo = "global" -> "global"
    [] c.geo = "cn-only" -> "cn"
    [] c.regions # <<>>  -> c.regions[1]
    [] OTHER -> NoRegion

Weights(s, l, c) == [success |-> s, latency |-> l, cost |-> c]
RoutingPolicyPreset(name) ==
  [strategy |-> "balanced", region |-> NoRegion,
   weights |-> CASE name = "reliability_first" -> Weights(8, 1, 1)
                 [] name = "cost_first"        -> Weights(1, 2, 7)
                 [] name = "latency_first"     -> Weights(1, 7, 2)
                 [] OTHER                      -> Weights(5, 3, 2)]

--------------------------------------------------------------------------------
\* Failover. A result is [ok, error, status]; NoStatus when no answer came.
NoStatus == 0
NoError  == "none"

FailoverPolicy(enabled, attempts) ==
  [enabled |-> enabled, maxAttempts |-> attempts,
   types   |-> {"http_error", "http_status", "proxy_error", "output_normalization"},
   codes   |-> {408, 429, 500, 502, 503, 504}]

\* max_attempts is NoLimit when the caller gives none; an empty list of
\* status codes leaves the default.
NoLimit == -1
BuildFailoverPolicy(enabled, count, limit, codes) ==
  LET wanted   == IF limit # NoLimit THEN limit ELSE IF enabled THEN count ELSE 1
      attempts == Max({1, Min({wanted, Max({count, 1})})})
      policy   == FailoverPolicy(enabled, attempts)
  IN  IF codes = {} THEN policy ELSE [policy EXCEPT !.codes = codes]

ShouldFailover(result, policy) ==
  /\ policy.enabled
  /\ IF result.error = "http_status" /\ result.status # NoStatus
       THEN result.status \in policy.codes
       ELSE result.error \in policy.types

\* The SDK looks at the status first, and at its own error types.
BuildSdkFailoverPolicy(enabled, count, limit, codes, types) ==
  [BuildFailoverPolicy(enabled, count, limit, codes) EXCEPT
     !.types = IF types # {} THEN types
               ELSE {"RATE_LIMIT", "TIMEOUT", "PROVIDER_ERROR", "NORMALIZATION_ERROR", "UNKNOWN"}]

ShouldFailoverAdapterResult(result, policy) ==
  /\ policy.enabled
  /\ \/ result.status # NoStatus /\ result.status \in policy.codes
     \/ result.error \in policy.types

\* errors.py
ErrorTypeForStatus(status) ==
  CASE status = NoStatus        -> "UNKNOWN"
    [] status \in {401, 403}    -> "AUTH_ERROR"
    [] status = 404             -> "NOT_FOUND"
    [] status = 408             -> "TIMEOUT"
    [] status = 429             -> "RATE_LIMIT"
    [] status >= 500            -> "PROVIDER_ERROR"
    [] status \in (400..499) \ {401, 403, 404, 408, 429} -> "INVALID_REQUEST"
    [] OTHER                    -> "UNKNOWN"
================================================================================
