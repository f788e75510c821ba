-------------------------- MODULE LocalFailover_proofs --------------------------
(***************************************************************************)
(* Proofs about the word failover gives: whom a call tries, in which       *)
(* order, how often, and with which header; and that no provider is        *)
(* contacted twice for one decision, however late the proxy's threads run. *)
(***************************************************************************)
EXTENDS LocalExecution_proofs, SequenceTheorems

-----------------------------------------------------------------------------
(* Least and greatest numbers *)

\* Induction over the natural numbers in the form that is used here: a set of
\* numbers that is not empty has a least one.
LEMMA LeastNumber ==
  ASSUME NEW T, T \subseteq Nat, T # {}
  PROVE  \E m \in T : \A n \in T : m <= n
<1> DEFINE R == StrictSubsetOrdering(Nat)
           S == FiniteSubsetsOf(Nat)
           U == {0..n : n \in T}
<1>1. IsWellFoundedOn(R, S)
  BY FS_StrictSubsetOrderingWellFounded
<1>2. \A n \in Nat : 0..n \in S
  <2>1. \A n \in Nat : IsFiniteSet(0..n)
    BY FS_Interval
  <2> QED
    BY <2>1 DEF FiniteSubsetsOf
<1>3. U \subseteq S /\ U # {}
  BY <1>2
<1>4. PICK x \in U : \A y \in U : ~(<<y, x>> \in R)
  <2> HIDE DEF R, S, U
  <2> QED
    BY <1>1, <1>3, WFMin
<1>5. PICK m \in T : x = 0..m
  BY <1>4
<1>6. ASSUME NEW n \in T, n < m PROVE FALSE
  <2>1. 0..n \in SUBSET Nat /\ 0..m \in SUBSET Nat /\ 0..n \subseteq 0..m /\ 0..n # 0..m
    BY <1>6
  <2>2. <<0..n, 0..m>> \in R
    BY <2>1 DEF StrictSubsetOrdering
  <2> QED
    BY <1>4, <1>5, <2>2
<1> QED
  BY <1>6

\* What Min is of a set of numbers, and of two; what Max is of
\* numbers that are at most n.
LEMMA MinIsLeast ==
  ASSUME NEW T, T \subseteq Nat, T # {}
  PROVE  Min(T) \in T /\ \A n \in T : Min(T) <= n
<1>1. PICK m \in T : \A n \in T : m <= n
  BY LeastNumber
<1> QED
  BY <1>1 DEF Min

LEMMA MinOfTwo ==
  ASSUME NEW a \in Int, NEW b \in Int
  PROVE  Min({a, b}) \in {a, b} /\ Min({a, b}) <= a /\ Min({a, b}) <= b
<1>1. \E m \in {a, b} : \A n \in {a, b} : m <= n
  <2>1. CASE a <= b
    BY <2>1
  <2>2. CASE b <= a
    BY <2>2
  <2> QED
    BY <2>1, <2>2
<1> QED
  BY <1>1 DEF Min

LEMMA MaxIsGreatest ==
  ASSUME NEW n \in Nat, NEW T, T \subseteq 0..n, T # {}
  PROVE  Max(T) \in T /\ \A m \in T : m <= Max(T)
<1> DEFINE U == {n - m : m \in T}
<1>1. U \subseteq Nat /\ U # {}
  <2>1. \A m \in T : n - m \in Nat
    OBVIOUS
  <2> QED
    BY <2>1
<1>2. PICK u \in U : \A v \in U : u <= v
  BY <1>1, LeastNumber
<1>3. PICK g \in T : u = n - g
  BY <1>2
<1>4. \A m \in T : m <= g
  <2> TAKE m \in T
  <2>1. n - m \in U
    OBVIOUS
  <2>2. u <= n - m
    BY <1>2, <2>1
  <2> QED
    BY <1>3, <2>2
<1> QED
  BY <1>3, <1>4 DEF Max

-----------------------------------------------------------------------------
(* The ranking *)

LEMMA SequencesAre ==
  ASSUME NEW S, NEW t \in Seq(S)
  PROVE  IsSequence(t) /\ DOMAIN t = 1..Len(t) /\ \A i \in 1..Len(t) : t[i] \in S
<1>1. Len(t) \in Nat /\ t \in [1..Len(t) -> S]
  OBVIOUS
<1> QED
  BY <1>1 DEF IsSequence

LEMMA NotEmpty ==
  ASSUME NEW s, IsSequence(s), s # <<>>
  PROVE  Len(s) \in Nat \ {0}
<1> DEFINE S == {s[i] : i \in 1..Len(s)}
<1>1. s \in [1..Len(s) -> S] /\ Len(s) \in Nat
  BY DEF IsSequence
<1> HIDE DEF S
<1>2. s \in Seq(S)
  BY <1>1
<1> QED
  BY <1>1, <1>2, EmptySeq

\* A sequence after InsertAt.
LEMMA InsertedAt ==
  ASSUME NEW s, IsSequence(s), NEW i \in 1..Len(s) + 1, NEW e
  PROVE  /\ IsSequence(InsertAt(s, i, e)) /\ Len(InsertAt(s, i, e)) = Len(s) + 1
         /\ InsertAt(s, i, e)[i] = e
         /\ \A j \in 1..Len(s) + 1 : /\ j < i => InsertAt(s, i, e)[j] = s[j]
                                     /\ j > i => InsertAt(s, i, e)[j] = s[j - 1]
<1> DEFINE S == {s[j] : j \in 1..Len(s)} \cup {e}
           n == Len(s)
           before == SubSeq(s, 1, i - 1)
           after == SubSeq(s, i, n)
           middle == before \o <<e>>
           all == middle \o after
<1>1. n \in Nat /\ i \in Nat /\ i - 1 \in Int /\ n - i + 1 >= 0 /\ \A j \in 1..n : s[j] \in S
  BY DEF IsSequence
<1>2. <<e>> \in Seq(S) /\ Len(<<e>>) = 1 /\ <<e>>[1] = e
  OBVIOUS
<1> HIDE DEF S, n
<1>3. /\ before \in Seq(S) /\ Len(before) = i - 1
      /\ \A j \in 1..i - 1 : before[j] = s[j]
  <2>1. \A j \in 1..i - 1 : s[j] \in S
    BY <1>1 DEF n
  <2>2. /\ before \in Seq(S) /\ Len(before) = IF 1 <= i - 1 THEN i - 1 - 1 + 1 ELSE 0
        /\ \A j \in 1 .. i - 1 - 1 + 1 : before[j] = s[1 + j - 1]
    BY <1>1, <2>1, SubSeqProperties
  <2> QED
    BY <1>1, <2>2
<1>4. /\ after \in Seq(S) /\ Len(after) = n - i + 1
      /\ \A j \in 1..n - i + 1 : after[j] = s[i + j - 1]
  <2>1. \A j \in i..n : s[j] \in S
    BY <1>1
  <2>2. /\ after \in Seq(S) /\ Len(after) = IF i <= n THEN n - i + 1 ELSE 0
        /\ \A j \in 1 .. n - i + 1 : after[j] = s[i + j - 1]
    BY <1>1, <2>1, SubSeqProperties
  <2> QED
    BY <1>1, <2>2
<1> HIDE DEF before, after
<1>5. /\ middle \in Seq(S) /\ Len(middle) = i
      /\ middle[i] = e /\ \A j \in 1..i - 1 : middle[j] = s[j]
  <2>1. /\ middle \in Seq(S) /\ Len(middle) = i - 1 + 1
        /\ \A j \in 1 .. i - 1 + 1 : middle[j] = IF j <= i - 1 THEN before[j] ELSE <<e>>[j - (i - 1)]
    BY <1>2, <1>3, ConcatProperties
  <2> QED
    BY <1>1, <1>2, <1>3, <2>1
<1> HIDE DEF middle
<1>6. /\ all \in Seq(S) /\ Len(all) = n + 1
      /\ \A j \in 1..n + 1 : all[j] = IF j <= i THEN middle[j] ELSE after[j - i]
  <2>1. /\ all \in Seq(S) /\ Len(all) = i + (n - i + 1)
        /\ \A j \in 1 .. i + (n - i + 1) : all[j] = IF j <= i THEN middle[j] ELSE after[j - i]
    BY <1>4, <1>5, ConcatProperties
  <2>2. i + (n - i + 1) = n + 1
    BY <1>1
  <2> QED
    BY <2>1, <2>2
<1>7. all = InsertAt(s, i, e)
  BY DEF all, middle, before, after, n, InsertAt
<1> HIDE DEF all
<1>8. IsSequence(all)
  BY <1>6, SequencesAre
<1>9. \A j \in 1..n + 1 : (j < i => all[j] = s[j]) /\ (j > i => all[j] = s[j - 1])
  <2> TAKE j \in 1..n + 1
  <2>1. CASE j < i
    BY <1>1, <1>5, <1>6, <2>1
  <2>2. CASE j > i
    <3>1. j - i \in 1..n - i + 1 /\ i + (j - i) - 1 = j - 1
      BY <1>1, <2>2
    <3>2. after[j - i] = s[j - 1]
      BY <1>4, <3>1
    <3>3. all[j] = after[j - i]
      BY <1>1, <1>6, <2>2
    <3> QED
      BY <1>1, <2>2, <3>2, <3>3
  <2>3. CASE j = i
    BY <1>1, <2>3
  <2> QED
    BY <1>1, <2>1, <2>2, <2>3
<1>10. all[i] = e
  BY <1>1, <1>5, <1>6 DEF n
<1> QED
  BY <1>6, <1>7, <1>8, <1>9, <1>10 DEF n

\* The numbers from 1 to n, in some order.
Permuted(order, n) ==
  /\ IsSequence(order) /\ Len(order) = n
  /\ \A i \in 1..n : order[i] \in 1..n
  /\ \A i, j \in 1..n : order[i] = order[j] => i = j

LEMMA InsertedPermutes ==
  ASSUME NEW n \in Nat, NEW order, Permuted(order, n), NEW before
  PROVE  Permuted(Inserted(order, n + 1, before), n + 1)
<1> DEFINE behind == {k \in DOMAIN order : <<n + 1, order[k]>> \notin before}
           at == Max({0} \cup behind) + 1
           new == InsertAt(order, at, n + 1)
<1>1. DOMAIN order = 1..n /\ IsSequence(order) /\ Len(order) = n
  BY DEF Permuted, IsSequence
<1>2. at \in 1..n + 1
  <2>1. {0} \cup behind \subseteq 0..n /\ {0} \cup behind # {}
    BY <1>1
  <2> HIDE DEF behind
  <2>2. Max({0} \cup behind) \in 0..n
    BY <2>1, MaxIsGreatest
  <2> QED
    BY <2>2
<1>3. new = Inserted(order, n + 1, before)
  BY DEF Inserted
<1> HIDE DEF at
<1>4. /\ IsSequence(new) /\ Len(new) = n + 1 /\ new[at] = n + 1
      /\ \A j \in 1..n + 1 : (j < at => new[j] = order[j]) /\ (j > at => new[j] = order[j - 1])
  BY <1>1, <1>2, InsertedAt
<1> HIDE DEF new
<1> DEFINE Old(j) == IF j < at THEN j ELSE j - 1
<1>5. \A j \in 1..n + 1 : j # at => Old(j) \in 1..n /\ new[j] = order[Old(j)]
  BY <1>2, <1>4
<1>6. \A i, j \in 1..n + 1 : i # at /\ j # at /\ Old(i) = Old(j) => i = j
  BY <1>2
<1> HIDE DEF Old
<1>7. \A j \in 1..n + 1 : new[j] \in 1..n + 1 /\ (j # at => new[j] \in 1..n /\ new[j] # n + 1)
  BY <1>2, <1>4, <1>5 DEF Permuted
<1>8. \A i, j \in 1..n + 1 : new[i] = new[j] => i = j
  <2> SUFFICES ASSUME NEW i \in 1..n + 1, NEW j \in 1..n + 1, new[i] = new[j] PROVE i = j
    OBVIOUS
  <2>1. CASE i # at /\ j # at
    <3>1. /\ Old(i) \in 1..n /\ Old(j) \in 1..n
          /\ order[Old(i)] = order[Old(j)]
      BY <1>5, <2>1
    <3>2. Old(i) = Old(j)
      BY <3>1 DEF Permuted
    <3> QED
      BY <1>6, <2>1, <3>2
  <2>2. CASE i = at \/ j = at
    BY <1>4, <1>7, <2>2
  <2> QED
    BY <2>1, <2>2
<1> QED
  BY <1>3, <1>4, <1>7, <1>8 DEF Permuted

\* sorted() puts the positions into some order.
LEMMA SortPermutes ==
  ASSUME NEW n \in Nat, NEW before
  PROVE  Permuted(SortedPositions(n, before), n)
<1> DEFINE Orders(f, m) == f = [i \in 0..m |-> IF i = 0 THEN <<>> ELSE Inserted(f[i - 1], i, before)]
<1>1. ASSUME NEW m \in Nat PROVE \E f : Orders(f, m)
  <2> DEFINE T == {j \in Nat : ~\E f : Orders(f, j)}
  <2> SUFFICES ASSUME T # {} PROVE FALSE
    OBVIOUS
  <2>1. T \subseteq Nat
    OBVIOUS
  <2>2. PICK j \in T : \A i \in T : j <= i
    BY <2>1, LeastNumber
  <2>3. CASE j = 0
    <3> DEFINE f == [i \in 0..0 |-> <<>>]
    <3>1. Orders(f, 0)
      OBVIOUS
    <3> QED
      BY <2>3, <3>1
  <2>4. CASE j # 0
    <3>1. j - 1 \in Nat /\ j - 1 \notin T
      <4>1. j \in Nat
        OBVIOUS
      <4> HIDE DEF T
      <4> QED
        BY <2>2, <2>4, <4>1
    <3>2. PICK f : Orders(f, j - 1)
      BY <3>1
    <3> DEFINE g == [i \in 0..j |-> IF i = j THEN Inserted(f[j - 1], j, before) ELSE f[i]]
    <3>3. \A i \in 0..j : g[i] = IF i = 0 THEN <<>> ELSE Inserted(g[i - 1], i, before)
      <4> TAKE i \in 0..j
      <4>1. CASE i = j
        BY <2>4, <3>1, <4>1
      <4>2. CASE i # j
        <5>1. i \in 0..j - 1 /\ (i # 0 => i - 1 \in 0..j - 1 /\ i - 1 # j)
          BY <3>1, <4>2
        <5>2. g[i] = f[i] /\ (i # 0 => g[i - 1] = f[i - 1])
          BY <4>2, <5>1
        <5> HIDE DEF g
        <5>3. f[i] = IF i = 0 THEN <<>> ELSE Inserted(f[i - 1], i, before)
          BY <3>2, <5>1
        <5> QED
          BY <5>2, <5>3
      <4> QED
        BY <4>1, <4>2
    <3>4. Orders(g, j)
      <4>1. DOMAIN g = 0..j /\ g = [i \in 0..j |-> g[i]]
        OBVIOUS
      <4> DEFINE h == [i \in 0..j |-> IF i = 0 THEN <<>> ELSE Inserted(g[i - 1], i, before)]
      <4>2. DOMAIN h = 0..j /\ h = [i \in 0..j |-> h[i]] /\ \A i \in 0..j : g[i] = h[i]
        <5> HIDE DEF g
        <5> QED
          BY <3>3
      <4>3. g = h
        <5> HIDE DEF g, h
        <5> QED
          BY <4>1, <4>2
      <4> QED
        BY <4>3
    <3> QED
      BY <3>4
  <2> QED
    BY <2>3, <2>4
<1>2. ASSUME NEW f, Orders(f, n), NEW m \in 0..n PROVE Permuted(f[m], m)
  <2> DEFINE T == {j \in 0..n : ~Permuted(f[j], j)}
  <2> SUFFICES ASSUME T # {} PROVE FALSE
    OBVIOUS
  <2>1. T \subseteq Nat
    OBVIOUS
  <2>2. PICK j \in T : \A i \in T : j <= i
    BY <2>1, LeastNumber
  <2>3. f[j] = IF j = 0 THEN <<>> ELSE Inserted(f[j - 1], j, before)
    BY <1>2, <2>2
  <2>4. CASE j = 0
    <3>1. Permuted(<<>>, 0)
      BY DEF Permuted, IsSequence
    <3> QED
      BY <2>2, <2>3, <2>4, <3>1
  <2>5. CASE j # 0
    <3>1. j - 1 \in Nat /\ j - 1 \in 0..n /\ j - 1 \notin T /\ j - 1 + 1 = j
      BY <2>2, <2>5
    <3>2. Permuted(Inserted(f[j - 1], j - 1 + 1, before), j - 1 + 1)
      BY <3>1, InsertedPermutes
    <3> QED
      BY <2>2, <2>3, <2>5, <3>1, <3>2
  <2> QED
    BY <2>4, <2>5
<1>3. SortedPositions(n, before) = (CHOOSE f : Orders(f, n))[n]
  BY DEF SortedPositions
<1>4. Orders((CHOOSE f : Orders(f, n)), n)
  BY <1>1
<1> HIDE DEF Orders
<1> QED
  BY <1>2, <1>3, <1>4

\* Candidates of which none is there twice, and the same in another order.
OneOfEach(s) == IsSequence(s) /\ \A i, j \in 1..Len(s) : s[i].id = s[j].id => i = j
Reordered(r, s) == OneOfEach(r) /\ Len(r) = Len(s) /\ \A i \in 1..Len(r) : \E j \in 1..Len(s) : r[i] = s[j]

LEMMA SortReorders ==
  ASSUME NEW s, OneOfEach(s), NEW before
  PROVE  Reordered(StableSort(s, before), s)
<1> DEFINE at == SortedPositions(Len(s), before)
           r == StableSort(s, before)
<1>1. Len(s) \in Nat /\ DOMAIN s = 1..Len(s)
  BY DEF OneOfEach, IsSequence
<1>2. Permuted(at, Len(s))
  BY <1>1, SortPermutes
<1>3. r = [i \in 1..Len(s) |-> s[at[i]]]
  BY <1>1 DEF StableSort
<1> HIDE DEF at, r
<1>4. \A i \in 1..Len(s) : r[i] = s[at[i]] /\ at[i] \in 1..Len(s)
  BY <1>2, <1>3 DEF Permuted
<1>5. IsSequence(r) /\ Len(r) = Len(s)
  <2> DEFINE S == {s[j] : j \in 1..Len(s)}
  <2>1. r \in [1..Len(s) -> S]
    BY <1>3, <1>4
  <2> HIDE DEF S
  <2>2. r \in Seq(S) /\ Len(r) = Len(s)
    BY <1>1, <2>1
  <2> QED
    BY <2>2, SequencesAre
<1>6. \A i, j \in 1..Len(s) : r[i].id = r[j].id => i = j
  <2> SUFFICES ASSUME NEW i \in 1..Len(s), NEW j \in 1..Len(s), r[i].id = r[j].id PROVE i = j
    OBVIOUS
  <2>1. at[i] = at[j]
    BY <1>4 DEF OneOfEach
  <2> QED
    BY <1>2, <2>1 DEF Permuted
<1> QED
  BY <1>4, <1>5, <1>6 DEF Reordered, OneOfEach, r

LEMMA ShuffleReorders ==
  ASSUME NEW s, OneOfEach(s)
  PROVE  Reordered(Shuffled(s), s)
<1> DEFINE r == Shuffled(s)
<1>1. CASE Len(s) = 3
  <2>1. r = <<s[1], s[3], s[2]>>
    BY <1>1 DEF Shuffled
  <2> HIDE DEF r
  <2>2. IsSequence(r) /\ Len(r) = 3 /\ r[1] = s[1] /\ r[2] = s[3] /\ r[3] = s[2]
    BY <2>1 DEF IsSequence
  <2>3. 1..3 = {1, 2, 3}
    OBVIOUS
  <2> QED
    BY <1>1, <2>2, <2>3 DEF Reordered, OneOfEach, r
<1>2. CASE Len(s) = 4
  <2>1. r = <<s[3], s[1], s[2], s[4]>>
    BY <1>2 DEF Shuffled
  <2> HIDE DEF r
  <2>2. IsSequence(r) /\ Len(r) = 4 /\ r[1] = s[3] /\ r[2] = s[1] /\ r[3] = s[2] /\ r[4] = s[4]
    BY <2>1 DEF IsSequence
  <2>3. 1..4 = {1, 2, 3, 4}
    OBVIOUS
  <2> QED
    BY <1>2, <2>2, <2>3 DEF Reordered, OneOfEach, r
<1>3. CASE Len(s) \notin {3, 4}
  BY <1>3 DEF Reordered, Shuffled
<1> QED
  BY <1>1, <1>2, <1>3

LEMMA RankReorders ==
  ASSUME NEW s, OneOfEach(s), NEW metrics, NEW policy
  PROVE  Reordered(RankProviders(s, metrics, policy), s)
<1>1. Reordered(s, s)
  BY DEF Reordered
<1> QED
  BY <1>1, SortReorders, ShuffleReorders DEF RankProviders

\* The candidates of a call that is not refused.
LEMMA CandidatesAreApart ==
  ASSUME NEW o, ~Refuses(o)
  PROVE  /\ OneOfEach(Candidates(o))
         /\ IsSdk(o) => \A i \in 1..Len(Candidates(o)) : Candidates(o)[i].id \in Range(Adapters)
<1>1. CASE ~IsSdk(o)
  <2>1. Registry \in Seq(Range(Registry))
    BY RegistryAssumption DEF RegistryAssumption
  <2>2. OneOfEach(Registry)
    BY <2>1, SequencesAre, RegistryAssumption DEF OneOfEach, RegistryAssumption
  <2> QED
    BY <1>1, <2>2 DEF Candidates
<1>2. CASE IsSdk(o)
  <2> DEFINE ids == IF o.provider # "any" THEN <<o.provider>> ELSE Adapters
             s == [i \in DOMAIN ids |-> [id |-> ids[i], cost |-> Zero, regions |-> <<>>, geo |-> "unknown"]]
  <2>1. IsSequence(ids) /\ \A i, j \in 1..Len(ids) : ids[i] = ids[j] => i = j
    <3>1. CASE o.provider # "any"
      BY <3>1 DEF IsSequence
    <3>2. CASE o.provider = "any"
      <4>1. Adapters \in Seq(Range(Adapters)) /\ IsInjective(Adapters)
        BY RegistryAssumption DEF RegistryAssumption
      <4> QED
        BY <3>2, <4>1, SequencesAre DEF IsInjective
    <3> QED
      BY <3>1, <3>2
  <2>2. \A i \in 1..Len(ids) : ids[i] \in Range(Adapters)
    <3>1. CASE o.provider # "any"
      BY <1>2, <3>1 DEF Refuses
    <3>2. CASE o.provider = "any"
      <4>1. Adapters \in Seq(Range(Adapters))
        BY RegistryAssumption DEF RegistryAssumption
      <4> QED
        BY <3>2, <4>1, SequencesAre
    <3> QED
      BY <3>1, <3>2
  <2>3. Candidates(o) = s
    BY <1>2 DEF Candidates
  <2> HIDE DEF ids
  <2>4. DOMAIN ids = 1..Len(ids) /\ Len(ids) \in Nat
    BY <2>1 DEF IsSequence
  <2>5. \A i \in 1..Len(ids) : s[i].id = ids[i]
    BY <2>4
  <2>6. IsSequence(s) /\ Len(s) = Len(ids)
    <3> DEFINE S == {s[j] : j \in 1..Len(ids)}
    <3>1. s \in [1..Len(ids) -> S]
      BY <2>4
    <3> HIDE DEF S, s
    <3>2. s \in Seq(S) /\ Len(s) = Len(ids)
      BY <2>4, <3>1
    <3> QED
      BY <3>2, SequencesAre
  <2> HIDE DEF s
  <2> QED
    BY <2>1, <2>2, <2>3, <2>5, <2>6 DEF OneOfEach
<1> QED
  BY <1>1, <1>2

-----------------------------------------------------------------------------
(* Where a call is *)

Active(k) == k.pc \in {"attempt", "waiting", "called"}

\* An attempt is one of the main ones, of which all before have failed with
\* an error to go on from, or a shadow that may be run; the SDK has an adapter
\* for everyone it tries.
Placed(k) ==
  /\ k.options.limit \in Int
  /\ IsSequence(k.ranked) /\ \A i, j \in 1..Len(k.ranked) : k.ranked[i] = k.ranked[j] => i = j
  /\ IsSdk(k.options) => \A i \in 1..Len(k.ranked) : k.ranked[i] \in Range(Adapters)
  /\ k.pc \in {"idle", "routed"} => k.tries = <<>> /\ k.turn = 1 /\ k.phase = "main" /\ k.decision = 0
  /\ k.pc = "routed" \/ Active(k) => k.policy.maxAttempts \in Nat \ {0}
  /\ Active(k) /\ k.phase = "main" =>
       /\ k.turn \in 1..Len(k.ranked) /\ k.turn <= Attempts(k) /\ Len(k.tries) = k.turn - 1
       /\ \A j \in 1..Len(k.tries) : k.tries[j].main /\ ~k.tries[j].ok /\ k.tries[j].again
  /\ Active(k) /\ k.phase # "main" =>
       /\ k.turn \in 1..Len(ShadowIds(k)) /\ MayShadow(k, Current(k))
       /\ IsSdk(k.options) => Current(k) \in Range(Adapters)

\* Whom a call has tried: the main tries follow the ranking, as far as the
\* policy lets them; and nobody is tried again, except as one of the shadows
\* that the caller names.
TriedInOrder(k) ==
  /\ \A i \in 1..Len(k.tries) :
       /\ k.tries[i].main =>
            /\ i \in 1..Len(k.ranked) /\ k.tries[i].provider = k.ranked[i]
            /\ i <= Attempts(k) /\ i <= k.policy.maxAttempts
            /\ \A j \in 1..i - 1 : k.tries[j].main /\ ~k.tries[j].ok /\ k.tries[j].again
       /\ Active(k) /\ ~k.tries[i].main =>
            k.phase # "main" /\ \E q \in 1..k.turn - 1 : k.tries[i].provider = ShadowIds(k)[q]
  /\ k.options.shadowIds = <<>> =>
       \A i, j \in 1..Len(k.tries) : k.tries[i].provider = k.tries[j].provider => i = j

\* A call may try someone, and no more than there are.
LEMMA AttemptsBound ==
  ASSUME NEW k, IsSequence(k.ranked), k.ranked # <<>>, k.policy.maxAttempts \in Nat \ {0}
  PROVE  Attempts(k) \in 1..Len(k.ranked) /\ Attempts(k) <= k.policy.maxAttempts
<1>1. Len(k.ranked) \in Nat \ {0}
  BY NotEmpty
<1> DEFINE most == Min({k.policy.maxAttempts, Len(k.ranked)})
<1>2. most \in 1..Len(k.ranked) /\ most <= k.policy.maxAttempts
  <2>1. /\ most \in {k.policy.maxAttempts, Len(k.ranked)}
        /\ most <= k.policy.maxAttempts /\ most <= Len(k.ranked)
    <3>1. k.policy.maxAttempts \in Int /\ Len(k.ranked) \in Int
      BY <1>1
    <3> QED
      BY <3>1, MinOfTwo, Zenon
  <2> HIDE DEF most
  <2> QED
    BY <1>1, <2>1
<1>3. Attempts(k) = most \/ Attempts(k) = 1
  BY DEF Attempts
<1>4. 1 \in 1..Len(k.ranked) /\ 1 <= k.policy.maxAttempts
  BY <1>1
<1> HIDE DEF most
<1> QED
  BY <1>2, <1>3, <1>4 DEF most

\* Who is tried now has not been tried.
LEMMA TriedNow ==
  ASSUME NEW k, Placed(k), TriedInOrder(k), IsSequence(k.tries), Active(k), k.options.shadowIds = <<>>
  PROVE  \A j \in 1..Len(k.tries) : k.tries[j].provider # Current(k)
<1> SUFFICES ASSUME NEW j \in 1..Len(k.tries), k.tries[j].provider = Current(k) PROVE FALSE
  OBVIOUS
<1>1. Len(k.tries) \in Nat /\ Len(k.ranked) \in Nat
  BY DEF Placed, IsSequence
<1>2. CASE k.phase = "main"
  <2>1. Current(k) = k.ranked[k.turn]
    BY <1>2 DEF Current
  <2>2. k.turn \in 1..Len(k.ranked) /\ Len(k.tries) = k.turn - 1 /\ k.tries[j].main
    BY <1>2 DEF Placed
  <2>3. j \in 1..Len(k.ranked) /\ k.tries[j].provider = k.ranked[j]
    BY <2>2 DEF TriedInOrder
  <2>4. j = k.turn
    BY <2>1, <2>2, <2>3 DEF Placed
  <2> QED
    BY <1>1, <2>2, <2>4
<1>3. CASE k.phase # "main"
  <2>1. k.turn \in 1..Len(ShadowIds(k)) /\ MayShadow(k, Current(k)) /\ Current(k) = ShadowIds(k)[k.turn]
    BY <1>3 DEF Placed, Current
  <2>2. ShadowIds(k) = k.ranked
    BY <2>1 DEF ShadowIds
  <2>3. CASE k.tries[j].main
    <3>1. j \in 1..Len(k.ranked) /\ k.tries[j].provider = k.ranked[j] /\ j <= Attempts(k)
      BY <2>3 DEF TriedInOrder
    <3>2. CASE IsSdk(k.options)
      <4>1. Attempts(k) \in 1..Len(k.ranked)
        <5>1. k.ranked # <<>> /\ k.policy.maxAttempts \in Nat \ {0}
          BY <1>1, <3>1 DEF Placed
        <5> QED
          BY <5>1, AttemptsBound DEF Placed
      <4>2. j \in 1..Attempts(k)
        BY <3>1, <4>1
      <4> QED
        BY <2>1, <3>1, <3>2, <4>2 DEF MayShadow
    <3>3. CASE ~IsSdk(k.options)
      <4>1. j \in DOMAIN k.tries
        BY DEF IsSequence
      <4> QED
        BY <2>1, <2>3, <3>3, <4>1 DEF MayShadow
    <3> QED
      BY <3>2, <3>3
  <2>4. CASE ~k.tries[j].main
    <3>1. PICK q \in 1..k.turn - 1 : k.tries[j].provider = k.ranked[q]
      BY <2>2, <2>4 DEF TriedInOrder
    <3>2. q \in 1..Len(k.ranked) /\ k.turn \in 1..Len(k.ranked) /\ q # k.turn
      BY <1>1, <2>1, <2>2
    <3> QED
      BY <2>1, <2>2, <3>1, <3>2 DEF Placed
  <2> QED
    BY <2>3, <2>4
<1> QED
  BY <1>2, <1>3

\* A policy allows at least one attempt.
LEMMA PolicyAllows ==
  ASSUME NEW o, o.limit \in Int, NEW count \in Nat
  PROVE  Policy(o, count).maxAttempts \in Nat \ {0}
<1> DEFINE wanted == IF o.limit # NoLimit THEN o.limit ELSE IF o.failover THEN count ELSE 1
           most == Max({count, 1})
           least == Min({wanted, most})
           attempts == Max({1, least})
           policy == FailoverPolicy(o.failover, attempts)
           build == BuildFailoverPolicy(o.failover, count, o.limit, o.codes)
<1>1. wanted \in Int /\ count \in Int /\ 1 \in Int
  OBVIOUS
<1> HIDE DEF wanted
<1>2. most \in {count, 1} /\ most >= count /\ most >= 1
  BY <1>1, MaxOfTwo, Zenon
<1>3. most \in Int
  BY <1>1, <1>2
<1> HIDE DEF most
<1>4. least \in {wanted, most}
  BY <1>1, <1>3, MinOfTwo, Zenon
<1>5. least \in Int
  BY <1>1, <1>3, <1>4
<1> HIDE DEF least
<1>6. attempts \in {1, least} /\ attempts >= 1
  BY <1>1, <1>5, MaxOfTwo, Zenon
<1>7. attempts \in Nat \ {0}
  BY <1>5, <1>6
<1> HIDE DEF attempts
<1>8. build = IF o.codes = {} THEN policy ELSE [policy EXCEPT !.codes = o.codes]
  BY DEF BuildFailoverPolicy, wanted, most, least, attempts
<1>9. policy.maxAttempts = attempts /\ DOMAIN policy = {"enabled", "maxAttempts", "types", "codes"}
  BY DEF FailoverPolicy
<1> HIDE DEF policy, build
<1>10. build.maxAttempts = attempts /\ DOMAIN build = {"enabled", "maxAttempts", "types", "codes"}
  BY <1>8, <1>9
<1>11. \A types : [build EXCEPT !.types = types].maxAttempts = attempts
  BY <1>10
<1>12. BuildSdkFailoverPolicy(o.failover, count, o.limit, o.codes, {}).maxAttempts = attempts
  BY <1>11 DEF BuildSdkFailoverPolicy, build
<1> QED
  BY <1>7, <1>10, <1>12 DEF Policy, build

\* The names a call ranks.
LEMMA NamesAreApart ==
  ASSUME NEW o, ~Refuses(o), NEW ranked, Reordered(ranked, Candidates(o)),
         NEW names, names = [i \in DOMAIN ranked |-> ranked[i].id]
  PROVE  /\ IsSequence(names) /\ Len(ranked) \in Nat
         /\ \A i, j \in 1..Len(names) : names[i] = names[j] => i = j
         /\ IsSdk(o) => \A i \in 1..Len(names) : names[i] \in Range(Adapters)
<1>1. Len(ranked) \in Nat /\ DOMAIN ranked = 1..Len(ranked)
  BY DEF Reordered, OneOfEach, IsSequence
<1>2. \A i \in 1..Len(ranked) : names[i] = ranked[i].id
  BY <1>1
<1>3. IsSequence(names) /\ Len(names) = Len(ranked)
  <2> DEFINE S == {ranked[i].id : i \in 1..Len(ranked)}
  <2>1. names \in [1..Len(ranked) -> S]
    BY <1>1
  <2> HIDE DEF S
  <2>2. names \in Seq(S) /\ Len(names) = Len(ranked)
    BY <1>1, <2>1
  <2> QED
    BY <2>2, SequencesAre
<1>4. IsSdk(o) => \A i \in 1..Len(Candidates(o)) : Candidates(o)[i].id \in Range(Adapters)
  BY CandidatesAreApart
<1>5. \A i, j \in 1..Len(names) : names[i] = names[j] => i = j
  <2>1. SUFFICES ASSUME NEW i \in 1..Len(names), NEW j \in 1..Len(names), names[i] = names[j] PROVE i = j
    OBVIOUS
  <2>2. i \in 1..Len(ranked) /\ j \in 1..Len(ranked) /\ ranked[i].id = ranked[j].id
    BY <1>2, <1>3, <2>1
  <2>3. OneOfEach(ranked)
    BY DEF Reordered
  <2> QED
    BY <2>2, <2>3 DEF OneOfEach
<1>6. IsSdk(o) => \A i \in 1..Len(names) : names[i] \in Range(Adapters)
  BY <1>2, <1>3, <1>4 DEF Reordered
<1> QED
  BY <1>1, <1>3, <1>5, <1>6

\* A call that has not begun has tried nobody.
LEMMA NobodyTried ==
  ASSUME NEW k, k.tries = <<>>
  PROVE  TriedInOrder(k)
BY DEF TriedInOrder

\* A call goes on with its attempt.
LEMMA KeptInPlace ==
  ASSUME NEW k, NEW new, Placed(k), TriedInOrder(k), Active(k), Kept(k, new), Active(new) \/ new.pc = "raised"
  PROVE  Placed(new) /\ TriedInOrder(new)
<1>1. /\ new.options = k.options /\ new.ranked = k.ranked /\ new.policy = k.policy
      /\ new.decision = k.decision /\ new.phase = k.phase /\ new.turn = k.turn /\ new.tries = k.tries
  BY DEF Kept
<1>2. Attempts(new) = Attempts(k) /\ ShadowIds(new) = ShadowIds(k)
  BY <1>1 DEF Attempts, ShadowIds
<1>3. Current(new) = Current(k) /\ \A p : MayShadow(new, p) <=> MayShadow(k, p)
  BY <1>1, <1>2 DEF Current, MayShadow
<1>4. new.pc \notin {"idle", "routed"}
  BY DEF Active
<1>5. Placed(new)
  BY <1>1, <1>2, <1>3, <1>4 DEF Placed
<1>6. TriedInOrder(new)
  BY <1>1, <1>2 DEF TriedInOrder
<1> QED
  BY <1>5, <1>6

\* The next shadow is one that may be run.
LEMMA ShadowPlaces ==
  ASSUME NEW k, DOMAIN k = CallFields, NEW from \in Nat \ {0}, NEW new, new = NextShadow(k, from),
         new.pc = "attempt"
  PROVE  /\ new.turn \in from..Len(ShadowIds(k)) /\ MayShadow(k, ShadowIds(k)[new.turn])
         /\ IsSdk(k.options) => ShadowIds(k)[new.turn] \in Range(Adapters)
<1> DEFINE next == [k EXCEPT !.phase = "shadow", !.result = NoResult]
           left == {i \in from..Len(ShadowIds(k)) : MayShadow(k, ShadowIds(k)[i])}
           least == Min(left)
           stops == IsSdk(k.options) /\ ShadowIds(k)[least] \notin Range(Adapters)
           ends == [next EXCEPT !.pc = "done", !.turn = 0]
           goes == [next EXCEPT !.turn = least, !.pc = IF stops THEN "raised" ELSE "attempt"]
<1>1. DOMAIN next = CallFields
  BY DEF CallFields
<1>2. new = IF left = {} THEN ends ELSE goes
  BY DEF NextShadow
<1> HIDE DEF next, least, stops
<1>3. ends.pc = "done" /\ goes.turn = least /\ goes.pc = IF stops THEN "raised" ELSE "attempt"
  BY <1>1 DEF CallFields
<1> HIDE DEF ends, goes, left
<1>4. left # {} /\ ~stops /\ new.turn = least
  BY <1>2, <1>3
<1>5. IsSdk(k.options) => ShadowIds(k)[new.turn] \in Range(Adapters)
  BY <1>4 DEF stops
<1>6. least \in left
  <2>1. left \subseteq Nat
    BY DEF left
  <2> QED
    BY <1>4, <2>1, MinIsLeast DEF least
<1>7. new.turn \in from..Len(ShadowIds(k)) /\ MayShadow(k, ShadowIds(k)[new.turn])
  BY <1>4, <1>6 DEF left
<1> QED
  BY <1>5, <1>7

\* A try more is in its place in the order.
LEMMA TryInOrder ==
  ASSUME NEW k, Placed(k), TriedInOrder(k), IsSequence(k.tries), Active(k),
         NEW new, NEW t, new.tries = Append(k.tries, t), t.provider = Current(k), t.main = (k.phase = "main"),
         new.options = k.options, new.ranked = k.ranked, new.policy = k.policy,
         Active(new) /\ k.phase # "main" => new.phase # "main" /\ new.turn \in k.turn + 1..Len(ShadowIds(k))
  PROVE  TriedInOrder(new)
<1> DEFINE n == Len(k.tries)
<1>1. /\ n \in Nat /\ Len(new.tries) = n + 1 /\ new.tries[n + 1] = t
      /\ \A i \in 1..n : new.tries[i] = k.tries[i]
  BY Appended DEF IsSequence
<1>2. Len(k.ranked) \in Nat
  BY DEF Placed, IsSequence
<1>3. Attempts(new) = Attempts(k) /\ ShadowIds(new) = ShadowIds(k)
  BY DEF Attempts, ShadowIds
<1> HIDE DEF n
<1>4. \A i \in 1..n + 1 : i \in 1..n \/ i = n + 1
  BY <1>1
<1>5. ASSUME NEW i \in 1..n + 1, new.tries[i].main
      PROVE  /\ i \in 1..Len(new.ranked) /\ new.tries[i].provider = new.ranked[i]
             /\ i <= Attempts(new) /\ i <= new.policy.maxAttempts
             /\ \A j \in 1..i - 1 : new.tries[j].main /\ ~new.tries[j].ok /\ new.tries[j].again
  <2>1. CASE i \in 1..n
    <3>1. \A j \in 1..i - 1 : j \in 1..n
      BY <1>1, <2>1
    <3> QED
      BY <1>1, <1>3, <1>5, <2>1, <3>1 DEF TriedInOrder, n
  <2>2. CASE i = n + 1
    <3>1. k.phase = "main"
      BY <1>1, <1>5, <2>2
    <3>2. /\ k.turn \in 1..Len(k.ranked) /\ k.turn <= Attempts(k) /\ n = k.turn - 1
          /\ \A j \in 1..n : k.tries[j].main /\ ~k.tries[j].ok /\ k.tries[j].again
          /\ k.policy.maxAttempts \in Nat \ {0}
      BY <3>1 DEF Placed, n
    <3>3. i = k.turn /\ Current(k) = k.ranked[i] /\ i - 1 = n
      BY <1>1, <1>2, <2>2, <3>1, <3>2 DEF Current
    <3>4. i <= k.policy.maxAttempts
      <4>1. k.ranked # <<>>
        BY <3>2
      <4>2. Attempts(k) \in 1..Len(k.ranked) /\ Attempts(k) <= k.policy.maxAttempts
        BY <3>2, <4>1, AttemptsBound DEF Placed
      <4> QED
        BY <1>2, <3>2, <3>3, <4>2
    <3> QED
      BY <1>1, <1>3, <2>2, <3>2, <3>3, <3>4
  <2> QED
    BY <1>4, <2>1, <2>2
<1>6. ASSUME Active(new), NEW i \in 1..n + 1, ~new.tries[i].main
      PROVE  new.phase # "main" /\ \E q \in 1..new.turn - 1 : new.tries[i].provider = ShadowIds(new)[q]
  <2>1. k.phase # "main"
    <3>1. CASE i = n + 1
      BY <1>1, <1>6, <3>1
    <3>2. CASE i \in 1..n
      BY <1>1, <1>6, <3>2 DEF TriedInOrder, n
    <3> QED
      BY <1>4, <3>1, <3>2
  <2>2. new.phase # "main" /\ new.turn \in k.turn + 1..Len(ShadowIds(k)) /\ k.turn \in 1..Len(ShadowIds(k))
    BY <1>6, <2>1 DEF Placed
  <2>3. CASE i = n + 1
    <3>1. k.turn \in 1..new.turn - 1
      BY <2>2
    <3>2. new.tries[i].provider = ShadowIds(new)[k.turn]
      BY <1>1, <1>3, <2>1, <2>3 DEF Current
    <3> QED
      BY <2>2, <3>1, <3>2
  <2>4. CASE i \in 1..n
    <3>1. PICK q \in 1..k.turn - 1 : k.tries[i].provider = ShadowIds(k)[q]
      BY <1>1, <1>6, <2>4 DEF TriedInOrder, n
    <3>2. q \in 1..new.turn - 1
      BY <2>2
    <3> QED
      BY <1>1, <1>3, <2>2, <2>4, <3>1, <3>2
  <2> QED
    BY <1>4, <2>3, <2>4
<1>7. ASSUME k.options.shadowIds = <<>>, NEW i \in 1..n + 1, NEW j \in 1..n + 1,
             new.tries[i].provider = new.tries[j].provider
      PROVE  i = j
  <2>1. \A h \in 1..n : k.tries[h].provider # t.provider
    BY <1>7, TriedNow DEF n
  <2>2. CASE i \in 1..n /\ j \in 1..n
    BY <1>1, <1>7, <2>2 DEF TriedInOrder, n
  <2>3. CASE i = n + 1 \/ j = n + 1
    BY <1>1, <1>4, <1>7, <2>1, <2>3
  <2> QED
    BY <1>4, <2>2, <2>3
<1> QED
  BY <1>1, <1>5, <1>6, <1>7 DEF TriedInOrder

\* A call that goes on to shadows, or ends.
LEMMA ShadowsNext ==
  ASSUME NEW k, Placed(k), Active(k), NEW next, DOMAIN next = CallFields,
         next.options = k.options, next.ranked = k.ranked, next.policy = k.policy,
         NEW from \in Nat \ {0}, NEW new, new = NextShadow(next, from)
  PROVE  /\ Placed(new) /\ new.pc \in {"attempt", "done", "raised"} /\ new.phase = "shadow"
         /\ new.options = k.options /\ new.ranked = k.ranked /\ new.policy = k.policy
         /\ new.decision = next.decision /\ new.tries = next.tries
         /\ Active(new) => new.turn \in from..Len(ShadowIds(k))
<1>1. /\ new.pc \in {"attempt", "done", "raised"} /\ new.phase = "shadow"
      /\ new.options = k.options /\ new.ranked = k.ranked /\ new.policy = k.policy
      /\ new.decision = next.decision /\ new.tries = next.tries
  BY NextShadowKeeps
<1>2. Attempts(new) = Attempts(next) /\ ShadowIds(new) = ShadowIds(next) /\ ShadowIds(next) = ShadowIds(k)
  BY <1>1 DEF Attempts, ShadowIds
<1>3. \A p : MayShadow(new, p) <=> MayShadow(next, p)
  BY <1>1, <1>2 DEF MayShadow
<1>4. Current(new) = ShadowIds(next)[new.turn]
  BY <1>1, <1>2 DEF Current
<1>5. Active(new) => new.pc = "attempt"
  BY <1>1 DEF Active
<1>6. Active(new) => /\ new.turn \in from..Len(ShadowIds(new)) /\ MayShadow(new, Current(new))
                     /\ IsSdk(k.options) => Current(new) \in Range(Adapters)
  BY <1>2, <1>3, <1>4, <1>5, ShadowPlaces
<1>7. Active(new) => new.turn \in 1..Len(ShadowIds(new))
  BY <1>6
<1>8. Placed(new)
  BY <1>1, <1>6, <1>7 DEF Placed, Active
<1> QED
  BY <1>1, <1>2, <1>6, <1>8

\* After an attempt a call is in its place again.
LEMMA AfterTryInPlace ==
  ASSUME NEW k, DOMAIN k = CallFields, Placed(k), TriedInOrder(k), IsSequence(k.tries), Active(k),
         NEW r, NEW again, NEW new, new = Tried(k, Current(k), r, again)
  PROVE  /\ Placed(new) /\ TriedInOrder(new) /\ new.pc \in {"attempt", "done", "raised"}
         /\ new.options = k.options /\ new.ranked = k.ranked /\ new.decision = k.decision
         /\ \E t : new.tries = Append(k.tries, t) /\ t.provider = Current(k)
<1>1. CASE k.phase = "main"
  <2> DEFINE t == [provider |-> Current(k), ok |-> r.ok, again |-> again, main |-> TRUE, contact |-> r.contact]
             next == [k EXCEPT !.tries = Append(k.tries, t), !.ok = r.ok, !.result = NoResult]
             on == [next EXCEPT !.pc = "attempt", !.turn = next.turn + 1]
  <2>1. t.provider = Current(k) /\ t.main = TRUE /\ t.ok = r.ok /\ t.again = again
    OBVIOUS
  <2>2. new = IF ~r.ok /\ k.turn < Attempts(k) /\ again THEN on ELSE NextShadow(next, 1)
    BY <1>1 DEF Tried, AfterAttempt
  <2> HIDE DEF t
  <2>3. /\ DOMAIN next = CallFields /\ next.options = k.options /\ next.ranked = k.ranked /\ next.policy = k.policy
        /\ next.decision = k.decision /\ next.tries = Append(k.tries, t) /\ next.phase = "main" /\ next.turn = k.turn
    BY <1>1 DEF CallFields
  <2> HIDE DEF next
  <2>4. /\ on.pc = "attempt" /\ on.options = k.options /\ on.ranked = k.ranked /\ on.policy = k.policy
        /\ on.decision = k.decision /\ on.tries = Append(k.tries, t) /\ on.phase = "main" /\ on.turn = k.turn + 1
    BY <2>3 DEF CallFields
  <2> HIDE DEF on
  <2>5. CASE new = on /\ ~r.ok /\ k.turn < Attempts(k) /\ again
    <3>1. TriedInOrder(new)
      BY <1>1, <2>1, <2>4, <2>5, TryInOrder
    <3> DEFINE n == Len(k.tries)
    <3>0. /\ new.tries = Append(k.tries, t) /\ Len(new.tries) = n + 1 /\ new.tries[n + 1] = t
          /\ \A j \in 1..n : new.tries[j] = k.tries[j]
      <4>1. new.tries = Append(k.tries, t)
        BY <2>4, <2>5
      <4>2. \A e : /\ Len(Append(k.tries, e)) = n + 1 /\ Append(k.tries, e)[n + 1] = e
                   /\ \A j \in 1..n : Append(k.tries, e)[j] = k.tries[j]
        BY Appended
      <4> QED
        BY <4>1, <4>2
    <3>2. /\ k.turn \in 1..Len(k.ranked) /\ Len(k.tries) = k.turn - 1 /\ Len(k.ranked) \in Nat
          /\ \A j \in 1..Len(k.tries) : k.tries[j].main /\ ~k.tries[j].ok /\ k.tries[j].again
          /\ k.policy.maxAttempts \in Nat \ {0}
      BY <1>1 DEF Placed, IsSequence
    <3>3. Attempts(k) \in 1..Len(k.ranked)
      <4>1. k.ranked # <<>>
        BY <3>2
      <4> QED
        BY <3>2, <4>1, AttemptsBound DEF Placed
    <3>4. /\ new.turn \in 1..Len(new.ranked) /\ new.turn <= Attempts(k) /\ Len(new.tries) = new.turn - 1
      <4>1. Len(new.tries) = k.turn
        BY <3>0, <3>2
      <4>2. new.turn = k.turn + 1 /\ new.ranked = k.ranked /\ k.turn < Attempts(k)
        BY <2>4, <2>5
      <4>3. new.turn \in 1..Len(new.ranked) /\ new.turn <= Attempts(k)
        BY <3>2, <3>3, <4>2
      <4> QED
        BY <3>2, <4>1, <4>2, <4>3
    <3>5. \A j \in 1..Len(new.tries) : new.tries[j].main /\ ~new.tries[j].ok /\ new.tries[j].again
      <4>1. \A j \in 1..n + 1 : j \in 1..n \/ j = n + 1
        BY <3>2
      <4> QED
        BY <2>1, <2>5, <3>0, <3>2, <4>1
    <3>6. Attempts(new) = Attempts(k)
      BY <2>4, <2>5 DEF Attempts
    <3>7. Placed(new)
      BY <2>4, <2>5, <3>2, <3>4, <3>5, <3>6 DEF Placed, Active
    <3> QED
      BY <2>1, <2>4, <2>5, <3>1, <3>7
  <2>6. CASE new = NextShadow(next, 1)
    <3>1. /\ Placed(new) /\ new.pc \in {"attempt", "done", "raised"} /\ new.phase = "shadow"
          /\ new.options = k.options /\ new.ranked = k.ranked /\ new.policy = k.policy
          /\ new.decision = next.decision /\ new.tries = next.tries
      BY <2>3, <2>6, ShadowsNext
    <3>2. TriedInOrder(new)
      BY <1>1, <2>1, <2>3, <3>1, TryInOrder
    <3> QED
      BY <2>1, <2>3, <3>1, <3>2
  <2> QED
    BY <2>2, <2>5, <2>6
<1>2. CASE k.phase # "main"
  <2> DEFINE t == [provider |-> Current(k), ok |-> r.ok, again |-> TRUE, main |-> FALSE, contact |-> r.contact]
             next == [k EXCEPT !.tries = Append(k.tries, t)]
  <2>1. t.provider = Current(k) /\ t.main = FALSE
    OBVIOUS
  <2>2. new = NextShadow(next, k.turn + 1)
    BY <1>2 DEF Tried, AfterShadow
  <2> HIDE DEF t
  <2>3. /\ DOMAIN next = CallFields /\ next.options = k.options /\ next.ranked = k.ranked /\ next.policy = k.policy
        /\ next.decision = k.decision /\ next.tries = Append(k.tries, t)
    BY DEF CallFields
  <2> HIDE DEF next
  <2>4. k.turn + 1 \in Nat \ {0}
    BY <1>2 DEF Placed
  <2>5. /\ Placed(new) /\ new.pc \in {"attempt", "done", "raised"} /\ new.phase = "shadow"
        /\ new.options = k.options /\ new.ranked = k.ranked /\ new.policy = k.policy
        /\ new.decision = next.decision /\ new.tries = next.tries
        /\ Active(new) => new.turn \in k.turn + 1..Len(ShadowIds(k))
    BY <2>2, <2>3, <2>4, ShadowsNext
  <2>6. TriedInOrder(new)
    BY <1>2, <2>1, <2>3, <2>5, TryInOrder
  <2> QED
    BY <2>1, <2>3, <2>5, <2>6
<1> QED
  BY <1>1, <1>2

-----------------------------------------------------------------------------
(* What a step of a call does to the records of the others *)

PlacesInv == \A c \in Callers : Placed(call[c]) /\ TriedInOrder(call[c])

\* Whom a call has asked for, itself or through the proxy.
Asked(k, p) == (\E j \in 1..Len(k.tries) : k.tries[j].provider = p) \/ (k.pc # "attempt" /\ p = Current(k))

\* It asks for nobody.
Rests(k, new) ==
  /\ new.decision = k.decision /\ UNCHANGED <<decisions, contacts, handlers>>
  /\ Active(new) => Active(k) /\ \A p : Asked(k, p) => Asked(new, p)

\* It records its decision.
Decides(k, new) ==
  /\ k.decision = 0 /\ new.decision = Len(decisions) + 1 /\ UNCHANGED <<contacts, handlers>>
  /\ IsSequence(decisions') /\ Len(decisions') = Len(decisions) + 1

\* It asks the provider itself, or a thread of the proxy.
Asks(k, new) ==
  /\ k.pc = "attempt" /\ Active(new) /\ new.pc # "attempt" /\ UNCHANGED decisions
  /\ new.decision = k.decision /\ new.tries = k.tries /\ Current(new) = Current(k)

AsksHere(k, new) ==
  /\ Asks(k, new) /\ UNCHANGED handlers
  /\ \E slots, outcome :
       /\ Reaches(k.decision, Current(k), CallNames(k.decision, Current(k)), "direct", slots, outcome, FALSE)
       /\ \/ IsSdk(k.options)
          \/ /\ Prepare(k.options, Current(k)).sent.kind = "http"
             /\ slots = Prepare(k.options, Current(k)).sent.slots

AsksProxy(k, new) ==
  /\ Asks(k, new) /\ UNCHANGED contacts
  /\ \E m : /\ handlers' = Append(handlers, m) /\ m.pc = "received"
            /\ m.decision = k.decision /\ m.provider = Current(k) /\ m.as = CallNames(k.decision, Current(k))
            /\ m.credential = ProxyCredential(Package[Current(k)], Current(k), Project)

Moves(k, new) == Rests(k, new) \/ Decides(k, new) \/ AsksHere(k, new) \/ AsksProxy(k, new)

\* The first steps of a call, and its death.
LEMMA StartInPlace ==
  ASSUME ShapeInv, PlacesInv, NEW c \in Callers, Start(c)
  PROVE  \E new : /\ Set(c, new) /\ Placed(new) /\ TriedInOrder(new) /\ new.options = call[c].options
                  /\ Rests(call[c], new)
<1> DEFINE k == call[c]
           o == k.options
           metrics == MetricsForCapability(events, Capability, o.includeShadow, FALSE, o.policy.region)
           ranked == IF IsSdk(o) /\ o.provider # "any" THEN Candidates(o)
                     ELSE RankProviders(Candidates(o), metrics, o.policy)
           names == [i \in DOMAIN ranked |-> ranked[i].id]
           policy == Policy(o, Len(ranked))
           refused == [k EXCEPT !.pc = "refused"]
           routed == [k EXCEPT !.pc = "routed", !.policy = policy, !.ranked = names]
<1>1. DOMAIN k = CallFields /\ Placed(k)
  BY DEF ShapeInv, CallsInv, PlacesInv
<1>2. k.pc = "idle" /\ UNCHANGED <<decisions, contacts, handlers>>
  BY DEF Start, Is
<1>3. k.tries = <<>> /\ k.turn = 1 /\ k.phase = "main" /\ k.decision = 0 /\ o.limit \in Int
  BY <1>1, <1>2 DEF Placed
<1>4. IF Refuses(o) THEN Set(c, refused) ELSE Set(c, routed)
  BY DEF Start
<1>5. CASE Refuses(o)
  <2> HIDE DEF k
  <2>1. /\ refused.pc = "refused" /\ refused.options = k.options /\ refused.ranked = k.ranked
        /\ refused.tries = k.tries /\ refused.decision = k.decision /\ refused.phase = k.phase
    BY <1>1 DEF CallFields
  <2>2. Set(c, refused)
    BY <1>4, <1>5
  <2> HIDE DEF refused
  <2>3. Placed(refused)
    BY <1>1, <2>1 DEF Placed, Active
  <2>4. TriedInOrder(refused)
    BY <1>3, <2>1, NobodyTried
  <2>5. Rests(k, refused)
    BY <1>2, <2>1 DEF Rests, Active
  <2> QED
    BY <2>1, <2>2, <2>3, <2>4, <2>5 DEF k
<1>6. CASE ~Refuses(o)
  <2>1. OneOfEach(Candidates(o))
    BY <1>6, CandidatesAreApart
  <2>2. Reordered(ranked, Candidates(o))
    <3>1. Reordered(Candidates(o), Candidates(o))
      BY <2>1 DEF Reordered
    <3>2. Reordered(RankProviders(Candidates(o), metrics, o.policy), Candidates(o))
      BY <2>1, RankReorders
    <3> QED
      BY <3>1, <3>2
  <2> HIDE DEF ranked
  <2>3. /\ IsSequence(names) /\ Len(ranked) \in Nat
        /\ \A i, j \in 1..Len(names) : names[i] = names[j] => i = j
        /\ IsSdk(o) => \A i \in 1..Len(names) : names[i] \in Range(Adapters)
    BY <1>6, <2>2, NamesAreApart
  <2>4. policy.maxAttempts \in Nat \ {0}
    BY <1>3, <2>3, PolicyAllows
  <2>5. Set(c, routed)
    BY <1>4, <1>6
  <2> HIDE DEF k, names, policy
  <2>6. /\ routed.pc = "routed" /\ routed.options = k.options /\ routed.ranked = names /\ routed.policy = policy
        /\ routed.tries = k.tries /\ routed.decision = k.decision /\ routed.phase = k.phase /\ routed.turn = k.turn
    BY <1>1 DEF CallFields
  <2> HIDE DEF routed
  <2>7. Placed(routed)
    BY <1>3, <2>3, <2>4, <2>6 DEF Placed, Active
  <2>8. TriedInOrder(routed)
    BY <1>3, <2>6, NobodyTried
  <2>9. Rests(k, routed)
    BY <1>2, <2>6 DEF Rests, Active
  <2> QED
    BY <2>5, <2>6, <2>7, <2>8, <2>9 DEF k
<1> QED
  BY <1>5, <1>6

LEMMA DecisionInPlace ==
  ASSUME ShapeInv, PlacesInv, NEW c \in Callers, RecordDecision(c)
  PROVE  \E new : /\ Set(c, new) /\ Placed(new) /\ TriedInOrder(new) /\ new.options = call[c].options
                  /\ Decides(call[c], new)
<1> DEFINE k == call[c]
           pc == IF k.ranked # <<>> THEN "attempt" ELSE IF IsSdk(k.options) THEN "raised" ELSE "done"
           new == [k EXCEPT !.pc = pc, !.decision = Len(decisions')]
<1>1. DOMAIN k = CallFields /\ Placed(k) /\ IsSequence(decisions)
  BY DEF ShapeInv, TablesInv, CallsInv, PlacesInv
<1>2. k.pc = "routed" /\ UNCHANGED <<contacts, handlers>> /\ Set(c, new)
  BY DEF RecordDecision, Is
<1>3. IsSequence(decisions') /\ Len(decisions') = Len(decisions) + 1
  <2>1. PICK d : decisions' = Append(decisions, d)
    BY DEF RecordDecision
  <2>2. \A e : IsSequence(Append(decisions, e)) /\ Len(Append(decisions, e)) = Len(decisions) + 1
    BY <1>1, Appended
  <2> QED
    BY <2>1, <2>2
<1>4. k.tries = <<>> /\ k.turn = 1 /\ k.phase = "main" /\ k.decision = 0 /\ k.policy.maxAttempts \in Nat \ {0}
  BY <1>1, <1>2 DEF Placed
<1> HIDE DEF k, pc
<1>5. /\ new.pc = pc /\ new.options = k.options /\ new.ranked = k.ranked /\ new.policy = k.policy
      /\ new.decision = Len(decisions) + 1 /\ new.tries = k.tries /\ new.phase = k.phase /\ new.turn = k.turn
  BY <1>1, <1>3 DEF CallFields
<1> HIDE DEF new
<1>6. CASE k.ranked # <<>>
  <2>1. Attempts(new) = Attempts(k)
    BY <1>5 DEF Attempts
  <2>2. Attempts(k) \in 1..Len(k.ranked) /\ Len(k.ranked) \in Nat
    BY <1>1, <1>4, <1>6, AttemptsBound DEF Placed, IsSequence
  <2>3. new.pc = "attempt"
    BY <1>5, <1>6 DEF pc
  <2> QED
    <3>1. /\ new.turn \in 1..Len(new.ranked) /\ new.turn <= Attempts(new) /\ Len(new.tries) = new.turn - 1
      BY <1>4, <1>5, <2>1, <2>2
    <3>2. Placed(new)
      BY <1>1, <1>4, <1>5, <2>3, <3>1 DEF Placed, Active
    <3> QED
      BY <1>2, <1>3, <1>4, <1>5, <3>2, NobodyTried DEF Decides, k
<1>7. CASE k.ranked = <<>>
  <2>1. new.pc \in {"raised", "done"}
    BY <1>5, <1>7 DEF pc
  <2>2. Placed(new)
    BY <1>1, <1>5, <2>1 DEF Placed, Active
  <2> QED
    BY <1>2, <1>3, <1>4, <1>5, <2>2, NobodyTried DEF Decides, k
<1> QED
  BY <1>6, <1>7

LEMMA AbortInPlace ==
  ASSUME ShapeInv, PlacesInv, NEW c \in Callers, Abort(c)
  PROVE  \E new : /\ Set(c, new) /\ Placed(new) /\ TriedInOrder(new) /\ new.options = call[c].options
                  /\ Rests(call[c], new)
<1> DEFINE k == call[c]
           new == [k EXCEPT !.pc = "raised"]
<1>1. DOMAIN k = CallFields /\ Placed(k) /\ TriedInOrder(k)
  BY DEF ShapeInv, CallsInv, PlacesInv
<1>2. Set(c, new) /\ UNCHANGED <<decisions, contacts, handlers>>
  BY DEF Abort
<1> HIDE DEF k
<1>3. /\ new.pc = "raised" /\ new.options = k.options /\ new.ranked = k.ranked /\ new.policy = k.policy
      /\ new.decision = k.decision /\ new.tries = k.tries /\ new.phase = k.phase /\ new.turn = k.turn
  BY <1>1 DEF CallFields
<1> HIDE DEF new
<1>4. Placed(new)
  BY <1>1, <1>3 DEF Placed, Active
<1>5. Attempts(new) = Attempts(k) /\ ~Active(new)
  BY <1>3 DEF Attempts, Active
<1>6. TriedInOrder(new)
  BY <1>1, <1>3, <1>5 DEF TriedInOrder
<1> QED
  BY <1>2, <1>3, <1>4, <1>5, <1>6 DEF Rests, k

\* A call in its place has whom it tries now in mind until it moves on.
LEMMA KeptAsks ==
  ASSUME NEW k, NEW new, Kept(k, new)
  PROVE  Current(new) = Current(k) /\ new.tries = k.tries /\ new.decision = k.decision /\ new.options = k.options
BY DEF Kept, Current, ShadowIds

LEMMA AttemptInPlace ==
  ASSUME ShapeInv, PlacesInv, NEW c \in Callers, AttemptHere(c) \/ AttemptByAdapter(c)
  PROVE  \E new : /\ Set(c, new) /\ Placed(new) /\ TriedInOrder(new) /\ new.options = call[c].options
                  /\ Moves(call[c], new)
<1> DEFINE k == call[c]
<1>1. Placed(k) /\ TriedInOrder(k)
  BY DEF PlacesInv
<1>2. PICK r, new :
        /\ k.pc = "attempt" /\ Set(c, new) /\ Kept(k, new) /\ new.pc = "called"
        /\ UNCHANGED <<decisions, handlers>>
        /\ \/ UNCHANGED contacts
           \/ \E slots, outcome :
                /\ Reaches(k.decision, Current(k), CallNames(k.decision, Current(k)), "direct", slots, outcome, FALSE)
                /\ \/ IsSdk(k.options)
                   \/ /\ Prepare(k.options, Current(k)).sent.kind = "http"
                      /\ slots = Prepare(k.options, Current(k)).sent.slots
  BY TriedHere
<1> HIDE DEF k
<1>3. Active(k) /\ Active(new)
  BY <1>2 DEF Active
<1>4. Placed(new) /\ TriedInOrder(new)
  BY <1>1, <1>2, <1>3, KeptInPlace
<1>5. Current(new) = Current(k) /\ new.tries = k.tries /\ new.decision = k.decision /\ new.options = k.options
  BY <1>2, KeptAsks
<1>6. UNCHANGED contacts => Rests(k, new)
  BY <1>2, <1>3, <1>5 DEF Rests, Asked
<1>7. ~UNCHANGED contacts => AsksHere(k, new)
  BY <1>2, <1>3, <1>5 DEF AsksHere, Asks
<1> QED
  BY <1>2, <1>4, <1>5, <1>6, <1>7 DEF Moves, k

LEMMA HandInPlace ==
  ASSUME ShapeInv, PlacesInv, NEW c \in Callers, AttemptByProxy(c)
  PROVE  \E new : /\ Set(c, new) /\ Placed(new) /\ TriedInOrder(new) /\ new.options = call[c].options
                  /\ AsksProxy(call[c], new)
<1> DEFINE k == call[c]
<1>1. Placed(k) /\ TriedInOrder(k)
  BY DEF PlacesInv
<1>2. PICK m, new :
        /\ k.pc = "attempt" /\ Set(c, new) /\ Kept(k, new) /\ new.pc = "waiting"
        /\ handlers' = Append(handlers, m) /\ m.pc = "received"
        /\ m.decision = k.decision /\ m.provider = Current(k) /\ m.as = CallNames(k.decision, Current(k))
        /\ m.credential = ProxyCredential(Package[Current(k)], Current(k), Project)
        /\ UNCHANGED <<decisions, contacts>>
  BY HandedOver
<1> HIDE DEF k
<1>3. Active(k) /\ Active(new)
  BY <1>2 DEF Active
<1>4. Placed(new) /\ TriedInOrder(new)
  BY <1>1, <1>2, <1>3, KeptInPlace
<1>5. Current(new) = Current(k) /\ new.tries = k.tries /\ new.decision = k.decision /\ new.options = k.options
  BY <1>2, KeptAsks
<1>6. AsksProxy(k, new)
  BY <1>2, <1>3, <1>5 DEF AsksProxy, Asks
<1> QED
  BY <1>2, <1>4, <1>5, <1>6 DEF k

LEMMA WaitInPlace ==
  ASSUME ShapeInv, PlacesInv, NEW c \in Callers, TakeAnswer(c) \/ GiveUp(c)
  PROVE  \E new : /\ Set(c, new) /\ Placed(new) /\ TriedInOrder(new) /\ new.options = call[c].options
                  /\ Rests(call[c], new)
<1> DEFINE k == call[c]
<1>1. Placed(k) /\ TriedInOrder(k)
  BY DEF PlacesInv
<1>2. PICK r, new :
        /\ k.pc = "waiting" /\ Set(c, new) /\ Kept(k, new) /\ new.pc = "called"
        /\ UNCHANGED <<decisions, contacts, handlers>>
  BY Waited
<1> HIDE DEF k
<1>3. Active(k) /\ Active(new)
  BY <1>2 DEF Active
<1>4. Placed(new) /\ TriedInOrder(new)
  BY <1>1, <1>2, <1>3, KeptInPlace
<1>5. Current(new) = Current(k) /\ new.tries = k.tries /\ new.decision = k.decision /\ new.options = k.options
  BY <1>2, KeptAsks
<1>6. Rests(k, new)
  BY <1>2, <1>3, <1>5 DEF Rests, Asked
<1> QED
  BY <1>2, <1>4, <1>5, <1>6 DEF k

LEMMA SettleInPlace ==
  ASSUME ShapeInv, PlacesInv, NEW c \in Callers, Settle(c) \/ SettleByAdapter(c)
  PROVE  \E new : /\ Set(c, new) /\ Placed(new) /\ TriedInOrder(new) /\ new.options = call[c].options
                  /\ Rests(call[c], new)
<1> DEFINE k == call[c]
<1>1. Placed(k) /\ TriedInOrder(k) /\ DOMAIN k = CallFields /\ IsSequence(k.tries)
  BY DEF PlacesInv, ShapeInv, CallsInv
<1>2. k.pc = "called" /\ UNCHANGED <<decisions, contacts, handlers>>
  BY Settled
<1>3. PICK r, again : Set(c, Tried(k, Current(k), r, again))
  BY Settled
<1> DEFINE new == Tried(k, Current(k), r, again)
<1>4. Set(c, new)
  BY <1>3
<1> HIDE DEF k
<1>5. Active(k)
  BY <1>2 DEF Active
<1>6. /\ Placed(new) /\ TriedInOrder(new) /\ new.pc \in {"attempt", "done", "raised"}
      /\ new.options = k.options /\ new.decision = k.decision
      /\ \E t : new.tries = Append(k.tries, t) /\ t.provider = Current(k)
  BY <1>1, <1>5, AfterTryInPlace
<1> HIDE DEF new
<1>7. \A p : Asked(k, p) => Asked(new, p)
  <2>1. PICK t : new.tries = Append(k.tries, t) /\ t.provider = Current(k)
    BY <1>6
  <2> DEFINE n == Len(k.tries)
  <2>2. \A e : /\ Len(Append(k.tries, e)) = n + 1 /\ Append(k.tries, e)[n + 1] = e
               /\ \A j \in 1..n : Append(k.tries, e)[j] = k.tries[j]
    BY <1>1, Appended
  <2>3. n \in Nat
    BY <1>1 DEF IsSequence
  <2>4. /\ Len(new.tries) = n + 1 /\ new.tries[n + 1] = t /\ \A j \in 1..n : new.tries[j] = k.tries[j]
    BY <2>1, <2>2
  <2>5. n + 1 \in 1..n + 1 /\ \A j \in 1..n : j \in 1..n + 1
    BY <2>3
  <2> QED
    BY <2>1, <2>4, <2>5 DEF Asked
<1>8. Rests(k, new)
  BY <1>2, <1>5, <1>6, <1>7 DEF Rests
<1> QED
  BY <1>4, <1>6, <1>8 DEF k

LEMMA CallInPlace ==
  ASSUME ShapeInv, PlacesInv, NEW c \in Callers, Start(c) \/ CallStep(c) \/ Abort(c)
  PROVE  \E new : /\ Set(c, new) /\ Placed(new) /\ TriedInOrder(new) /\ new.options = call[c].options
                  /\ Moves(call[c], new)
BY StartInPlace, DecisionInPlace, AbortInPlace, AttemptInPlace, HandInPlace, WaitInPlace, SettleInPlace
   DEF CallStep, Moves

\* Every call is in its place, at any time.
LEMMA InitPlaces == Init => PlacesInv
<1> SUFFICES ASSUME Init, NEW c \in Callers PROVE Placed(call[c]) /\ TriedInOrder(call[c])
  BY DEF PlacesInv
<1>1. PICK w \in Workloads : call = [b \in Callers |-> [NoCall EXCEPT !.options = w[b]]]
  BY DEF Init
<1> DEFINE k == call[c]
<1>2. k = [NoCall EXCEPT !.options = w[c]]
  BY <1>1
<1>3. w[c].limit \in Int
  BY ShapeAssumption DEF ShapeAssumption
<1>4. /\ DOMAIN NoCall = CallFields /\ NoCall.pc = "idle" /\ NoCall.ranked = <<>> /\ NoCall.decision = 0
      /\ NoCall.phase = "main" /\ NoCall.turn = 1 /\ NoCall.tries = <<>>
  BY DEF NoCall, CallFields
<1> HIDE DEF k
<1>5. /\ k.options = w[c] /\ k.pc = "idle" /\ k.ranked = <<>> /\ k.decision = 0
      /\ k.phase = "main" /\ k.turn = 1 /\ k.tries = <<>>
  BY <1>2, <1>4 DEF CallFields
<1>6. IsSequence(<<>>) /\ 1..Len(<<>>) = {}
  BY DEF IsSequence
<1>7. Placed(k)
  BY <1>3, <1>5, <1>6 DEF Placed, Active
<1> QED
  BY <1>5, <1>7, NobodyTried DEF k

\* A thread and the operator leave the calls and their decisions alone.
LEMMA OthersKeepCalls ==
  ASSUME \/ \E h \in DOMAIN handlers : HandlerStep(h) \/ HandlerFails(h) \/ FinishReplay(h)
         \/ \E i \in DOMAIN events : Replay(i) \/ Mark(i)
  PROVE  UNCHANGED <<call, decisions>>
BY DEF HandlerStep, HandlerReject, HandlerAdmit, HandlerForward, HandlerRecord, HandlerFails, FinishReplay, Replay, Mark

LEMMA NextPlaces == ShapeInv /\ PlacesInv /\ [Next]_vars => PlacesInv'
<1> SUFFICES ASSUME ShapeInv, PlacesInv, [Next]_vars PROVE PlacesInv'
  OBVIOUS
<1>1. CASE UNCHANGED call
  BY <1>1 DEF PlacesInv
<1>2. ASSUME NEW c \in Callers, Start(c) \/ CallStep(c) \/ Abort(c) PROVE PlacesInv'
  <2>1. PICK new : Set(c, new) /\ Placed(new) /\ TriedInOrder(new)
    BY <1>2, CallInPlace
  <2>2. call'[c] = new /\ \A b \in Callers : b # c => call'[b] = call[b]
    BY <2>1, CallSet DEF ShapeInv
  <2>3. ASSUME NEW b \in Callers PROVE Placed(call'[b]) /\ TriedInOrder(call'[b])
    BY <2>1, <2>2 DEF PlacesInv
  <2> QED
    BY <2>3 DEF PlacesInv
<1> QED
  BY <1>1, <1>2, OthersKeepCalls DEF Next, vars

LEMMA PlacesHold == Spec => [](ShapeInv /\ PlacesInv)
<1>1. Init => ShapeInv /\ PlacesInv
  BY InitShape, InitPlaces
<1>2. ShapeInv /\ PlacesInv /\ [Next]_vars => (ShapeInv /\ PlacesInv)'
  BY NextShape, NextPlaces
<1> QED
  BY <1>1, <1>2, PTL DEF Spec

-----------------------------------------------------------------------------
(* No provider is contacted twice for a decision *)

\* A thread that works for the call of decision d, not for a replay of it.
ForCall(thread, d) == thread.decision = d /\ thread.caller # Operator

(***************************************************************************)
(* A decision is one call's, and everything that is sent for a call, by    *)
(* itself or by a thread, is sent for its decision.                        *)
(***************************************************************************)
DecisionsInv ==
  /\ \A c \in Callers : call[c].decision \in 0..Len(decisions) /\ (Active(call[c]) => call[c].decision # 0)
  /\ \A b, c \in Callers : call[b].decision = call[c].decision /\ call[b].decision # 0 => b = c
  /\ \A i \in 1..Len(contacts) : contacts[i].entry # "replay" => contacts[i].decision \in 1..Len(decisions)
  /\ \A h \in 1..Len(handlers) : handlers[h].caller # Operator => handlers[h].decision \in 1..Len(decisions)

\* The contacts of decision d, those of a replay apart; and the threads that
\* may still become one.
Called(contact, d)  == contact.decision = d /\ contact.entry # "replay"
MayCall(thread, d) == ForCall(thread, d) /\ thread.pc \in {"received", "forward"}

\* Nobody is sent to twice, and a thread that may still forward has not.
SentOnce(d, reached, threads) ==
  /\ \A i, j \in 1..Len(reached) :
       Called(reached[i], d) /\ Called(reached[j], d) /\ reached[i].provider = reached[j].provider => i = j
  /\ \A g, h \in 1..Len(threads) :
       ForCall(threads[g], d) /\ ForCall(threads[h], d) /\ threads[g].provider = threads[h].provider => g = h
  /\ \A h \in 1..Len(threads), i \in 1..Len(reached) :
       MayCall(threads[h], d) /\ Called(reached[i], d) => threads[h].provider # reached[i].provider

\* Whom something was sent to for decision d.
SentTo(d, p, reached, threads) ==
  \/ \E i \in 1..Len(reached) : Called(reached[i], d) /\ reached[i].provider = p
  \/ \E h \in 1..Len(threads) : ForCall(threads[h], d) /\ threads[h].provider = p

\* And a call that is not over has asked for whomever something was sent to.
SentFor(k, reached, threads) ==
  k.decision # 0 /\ k.options.shadowIds = <<>> =>
    /\ SentOnce(k.decision, reached, threads)
    /\ Active(k) => \A p : SentTo(k.decision, p, reached, threads) => Asked(k, p)

SentInv == \A c \in Callers : SentFor(call[c], contacts, handlers)

\* A contact more, whatever it carries.
OneMore(e, p, entry) == \E as, slots, ok, twice : ContactsGrow(e, p, as, entry, slots, ok, twice)

LEMMA ReachesOneMore ==
  ASSUME ShapeInv, NEW e, NEW p, NEW as, NEW entry, NEW slots, NEW outcome, NEW twice,
         Reaches(e, p, as, entry, slots, outcome, twice)
  PROVE  OneMore(e, p, entry)
<1>1. ContactsGrow(e, p, as, entry, slots, outcome.ok, twice)
  BY ContactAdded DEF ShapeInv
<1> QED
  BY <1>1, Zenon DEF OneMore

\* A contact more, of somebody who has none and whom no thread may forward to.
LEMMA ContactCounts ==
  ASSUME ShapeInv, NEW d, NEW threads, SentOnce(d, contacts, threads),
         NEW e, NEW p, NEW entry, OneMore(e, p, entry),
         e = d /\ entry # "replay" =>
           /\ \A i \in 1..Len(contacts) : Called(contacts[i], d) => contacts[i].provider # p
           /\ \A h \in 1..Len(threads) : MayCall(threads[h], d) => threads[h].provider # p
  PROVE  /\ SentOnce(d, contacts', threads)
         /\ \A q : SentTo(d, q, contacts', threads) =>
                     SentTo(d, q, contacts, threads) \/ (e = d /\ entry # "replay" /\ q = p)
<1> DEFINE n == Len(contacts)
           new == contacts'[n + 1]
<1>1. /\ n \in Nat /\ Len(contacts') = n + 1 /\ \A i \in 1..n : contacts'[i] = contacts[i]
      /\ new.decision = e /\ new.provider = p /\ new.entry = entry
  BY DEF OneMore, ContactsGrow, ShapeInv, TablesInv, IsSequence
<1>2. \A i \in 1..n + 1 : i \in 1..n \/ i = n + 1
  BY <1>1
<1>3. Called(new, d) <=> e = d /\ entry # "replay"
  BY <1>1 DEF Called
<1> HIDE DEF n, new
<1>4. \A i \in 1..n + 1 : (i \in 1..n /\ contacts'[i] = contacts[i]) \/ (i = n + 1 /\ contacts'[i] = new)
  BY <1>1, <1>2 DEF new
<1>5. ASSUME NEW i \in 1..n + 1, NEW j \in 1..n + 1, Called(contacts'[i], d), Called(contacts'[j], d),
             contacts'[i].provider = contacts'[j].provider
      PROVE  i = j
  BY <1>1, <1>3, <1>4, <1>5 DEF SentOnce, n
<1>6. ASSUME NEW h \in 1..Len(threads), NEW i \in 1..n + 1, MayCall(threads[h], d), Called(contacts'[i], d)
      PROVE  threads[h].provider # contacts'[i].provider
  BY <1>1, <1>3, <1>4, <1>6 DEF SentOnce, n
<1>7. SentOnce(d, contacts', threads)
  BY <1>1, <1>5, <1>6 DEF SentOnce
<1>8. ASSUME NEW q, SentTo(d, q, contacts', threads)
      PROVE  SentTo(d, q, contacts, threads) \/ (e = d /\ entry # "replay" /\ q = p)
  BY <1>1, <1>3, <1>4, <1>8 DEF SentTo, n
<1> QED
  BY <1>7, <1>8

\* A thread that goes on, without another chance to forward.
LEMMA ThreadCounts ==
  ASSUME ShapeInv, NEW d, SentOnce(d, contacts, handlers), NEW h \in DOMAIN handlers, NEW new, SetHandler(h, new),
         Serves(handlers[h], new), new.pc \in {"received", "forward"} => handlers[h].pc \in {"received", "forward"}
  PROVE  /\ SentOnce(d, contacts, handlers')
         /\ \A q : SentTo(d, q, contacts, handlers') <=> SentTo(d, q, contacts, handlers)
<1>1. /\ Len(handlers') = Len(handlers) /\ h \in 1..Len(handlers)
      /\ handlers'[h] = new /\ \A g \in 1..Len(handlers) : g # h => handlers'[g] = handlers[g]
  BY ThreadSet DEF ShapeInv
<1>2. \A g \in 1..Len(handlers) : /\ ForCall(handlers'[g], d) <=> ForCall(handlers[g], d)
                                  /\ handlers'[g].provider = handlers[g].provider
                                  /\ MayCall(handlers'[g], d) => MayCall(handlers[g], d)
  BY <1>1 DEF Serves, MayCall, ForCall
<1> QED
  BY <1>1, <1>2 DEF SentOnce, SentTo

\* A thread more, for somebody nothing was sent to, or for a replay.
LEMMA ThreadAdded ==
  ASSUME ShapeInv, NEW d, SentOnce(d, contacts, handlers), NEW m, handlers' = Append(handlers, m),
         ForCall(m, d) => ~SentTo(d, m.provider, contacts, handlers)
  PROVE  /\ SentOnce(d, contacts, handlers')
         /\ \A q : SentTo(d, q, contacts, handlers') =>
                     SentTo(d, q, contacts, handlers) \/ (ForCall(m, d) /\ q = m.provider)
<1> DEFINE n == Len(handlers)
<1>1. \A e : /\ Len(Append(handlers, e)) = n + 1 /\ Append(handlers, e)[n + 1] = e
             /\ \A g \in 1..n : Append(handlers, e)[g] = handlers[g]
  BY Appended DEF ShapeInv, ThreadsInv
<1>2. n \in Nat
  BY DEF ShapeInv, ThreadsInv, IsSequence
<1>3. Len(handlers') = n + 1 /\ handlers'[n + 1] = m /\ \A g \in 1..n : handlers'[g] = handlers[g]
  BY <1>1
<1> HIDE DEF n
<1>4. \A g \in 1..n + 1 : (g \in 1..n /\ handlers'[g] = handlers[g]) \/ (g = n + 1 /\ handlers'[g] = m)
  BY <1>2, <1>3
<1>5. ASSUME NEW g \in 1..n + 1, NEW h \in 1..n + 1, ForCall(handlers'[g], d), ForCall(handlers'[h], d),
             handlers'[g].provider = handlers'[h].provider
      PROVE  g = h
  BY <1>4, <1>5 DEF SentOnce, SentTo, n
<1>6. ASSUME NEW g \in 1..n + 1, NEW i \in 1..Len(contacts), MayCall(handlers'[g], d), Called(contacts[i], d)
      PROVE  handlers'[g].provider # contacts[i].provider
  BY <1>4, <1>6 DEF SentOnce, SentTo, MayCall, n
<1>7. SentOnce(d, contacts, handlers')
  BY <1>3, <1>5, <1>6 DEF SentOnce
<1>8. ASSUME NEW q, SentTo(d, q, contacts, handlers')
      PROVE  SentTo(d, q, contacts, handlers) \/ (ForCall(m, d) /\ q = m.provider)
  BY <1>3, <1>4, <1>8 DEF SentTo, n
<1> QED
  BY <1>7, <1>8

\* What DecisionsInv says of the calls, the contacts and the threads.
ContactsDecided(reached, n) == \A i \in 1..Len(reached) : reached[i].entry # "replay" => reached[i].decision \in 1..n
ThreadsDecided(threads, n)  == \A h \in 1..Len(threads) : threads[h].caller # Operator => threads[h].decision \in 1..n

\* A call keeps its decision.
LEMMA DecisionsKept ==
  ASSUME ShapeInv, DecisionsInv, NEW c \in Callers, NEW new, Set(c, new), UNCHANGED decisions,
         new.decision = call[c].decision, Active(new) => Active(call[c]),
         ContactsDecided(contacts', Len(decisions)), ThreadsDecided(handlers', Len(decisions))
  PROVE  DecisionsInv'
<1>1. call'[c] = new /\ \A b \in Callers : b # c => call'[b] = call[b]
  BY CallSet DEF ShapeInv
<1>2. \A b \in Callers : call'[b].decision = call[b].decision /\ (Active(call'[b]) => Active(call[b]))
  BY <1>1
<1>3. \A b \in Callers : call'[b].decision \in 0..Len(decisions') /\ (Active(call'[b]) => call'[b].decision # 0)
  BY <1>2 DEF DecisionsInv
<1>4. \A a, b \in Callers : call'[a].decision = call'[b].decision /\ call'[a].decision # 0 => a = b
  BY <1>2 DEF DecisionsInv
<1> QED
  BY <1>3, <1>4 DEF DecisionsInv, ContactsDecided, ThreadsDecided

\* The other calls have other decisions.
LEMMA OthersDecide ==
  ASSUME DecisionsInv, NEW b \in Callers, NEW c \in Callers, b # c, call[b].decision # 0
  PROVE  call[b].decision # call[c].decision
BY DEF DecisionsInv

\* A call that asks for nobody.
LEMMA RestsKeepsSent ==
  ASSUME ShapeInv, DecisionsInv, SentInv, NEW c \in Callers, NEW new, Set(c, new),
         new.options = call[c].options, Rests(call[c], new)
  PROVE  DecisionsInv' /\ SentInv'
<1>1. call'[c] = new /\ \A b \in Callers : b # c => call'[b] = call[b]
  BY CallSet DEF ShapeInv
<1>2. UNCHANGED <<decisions, contacts, handlers>> /\ new.decision = call[c].decision
  BY DEF Rests
<1>3. DecisionsInv'
  <2>1. ContactsDecided(contacts', Len(decisions)) /\ ThreadsDecided(handlers', Len(decisions))
    BY <1>2 DEF DecisionsInv, ContactsDecided, ThreadsDecided
  <2> QED
    BY <1>2, <2>1, DecisionsKept DEF Rests
<1>4. SentFor(new, contacts, handlers)
  <2>1. SentFor(call[c], contacts, handlers)
    BY DEF SentInv
  <2> QED
    BY <2>1, <1>2 DEF SentFor, Rests
<1>5. ASSUME NEW b \in Callers PROVE SentFor(call'[b], contacts', handlers')
  BY <1>1, <1>2, <1>4 DEF SentInv
<1> QED
  BY <1>3, <1>5 DEF SentInv

\* A call that records its decision.
LEMMA DecidesKeepsSent ==
  ASSUME ShapeInv, DecisionsInv, SentInv, NEW c \in Callers, NEW new, Set(c, new), Decides(call[c], new)
  PROVE  DecisionsInv' /\ SentInv'
<1> DEFINE n == Len(decisions)
<1>1. call'[c] = new /\ \A b \in Callers : b # c => call'[b] = call[b]
  BY CallSet DEF ShapeInv
<1>2. /\ UNCHANGED <<contacts, handlers>> /\ new.decision = n + 1 /\ Len(decisions') = n + 1 /\ n \in Nat
  BY DEF Decides, ShapeInv, TablesInv, IsSequence
<1>3. \A b \in Callers : call[b].decision \in 0..n
  BY DEF DecisionsInv
<1>4. \A i \in 1..Len(contacts) : Called(contacts[i], n + 1) => FALSE
  BY <1>2 DEF DecisionsInv, Called
<1>5. \A h \in 1..Len(handlers) : ~ForCall(handlers[h], n + 1)
  BY <1>2 DEF DecisionsInv, ForCall
<1>6. DecisionsInv'
  <2>1. \A b \in Callers : call'[b].decision \in 0..n + 1 /\ (Active(call'[b]) => call'[b].decision # 0)
    BY <1>1, <1>2, <1>3 DEF DecisionsInv
  <2>2. \A a, b \in Callers : call'[a].decision = call'[b].decision /\ call'[a].decision # 0 => a = b
    BY <1>1, <1>2, <1>3 DEF DecisionsInv
  <2>3. ContactsDecided(contacts', n + 1) /\ ThreadsDecided(handlers', n + 1)
    BY <1>2 DEF DecisionsInv, ContactsDecided, ThreadsDecided
  <2> QED
    BY <1>2, <2>1, <2>2, <2>3 DEF DecisionsInv, ContactsDecided, ThreadsDecided
<1>7. SentFor(new, contacts, handlers)
  <2>1. SentOnce(n + 1, contacts, handlers) /\ \A p : ~SentTo(n + 1, p, contacts, handlers)
    BY <1>4, <1>5 DEF SentOnce, SentTo, MayCall
  <2> QED
    BY <1>2, <2>1 DEF SentFor
<1>8. ASSUME NEW b \in Callers PROVE SentFor(call'[b], contacts', handlers')
  BY <1>1, <1>2, <1>7 DEF SentInv
<1> QED
  BY <1>6, <1>8 DEF SentInv

\* A call that asks for somebody has not asked for him before.
LEMMA AsksAnew ==
  ASSUME ShapeInv, PlacesInv, SentInv, DecisionsInv, NEW c \in Callers, call[c].pc = "attempt",
         call[c].options.shadowIds = <<>>
  PROVE  ~SentTo(call[c].decision, Current(call[c]), contacts, handlers)
<1> DEFINE k == call[c]
<1>1. Active(k) /\ k.decision # 0
  BY DEF Active, DecisionsInv
<1>2. Placed(k) /\ TriedInOrder(k) /\ IsSequence(k.tries)
  BY DEF PlacesInv, ShapeInv, CallsInv
<1>3. SentFor(k, contacts, handlers)
  BY DEF SentInv
<1> HIDE DEF k
<1>4. ~Asked(k, Current(k))
  <2>1. \A j \in 1..Len(k.tries) : k.tries[j].provider # Current(k)
    BY <1>1, <1>2, TriedNow DEF k
  <2> QED
    BY <2>1 DEF Asked, k
<1> QED
  BY <1>1, <1>3, <1>4 DEF SentFor, k

\* A call that asks the provider itself.
LEMMA AsksHereKeepsSent ==
  ASSUME ShapeInv, PlacesInv, DecisionsInv, SentInv, NEW c \in Callers, NEW new, Set(c, new),
         new.options = call[c].options, AsksHere(call[c], new)
  PROVE  DecisionsInv' /\ SentInv'
<1> DEFINE k == call[c]
           p == Current(k)
           n == Len(contacts)
<1>1. call'[c] = new /\ \A b \in Callers : b # c => call'[b] = call[b]
  BY CallSet DEF ShapeInv
<1>2. UNCHANGED <<decisions, handlers>> /\ Asks(k, new) /\ Active(k)
  BY DEF AsksHere, Asks, Active
<1>3. PICK slots, outcome : Reaches(k.decision, p, CallNames(k.decision, p), "direct", slots, outcome, FALSE)
  BY DEF AsksHere
<1>4. ContactsGrow(k.decision, p, CallNames(k.decision, p), "direct", slots, outcome.ok, FALSE) /\ n \in Nat
  BY <1>3, ContactAdded DEF ShapeInv
<1> DEFINE entry == "direct"
<1>4a. OneMore(k.decision, p, entry)
  BY <1>3, ReachesOneMore, Zenon
<1>5. k.decision \in 1..Len(decisions)
  BY <1>2 DEF DecisionsInv
<1>6. DecisionsInv'
  <2>1. \A i \in 1..n + 1 : i \in 1..n \/ i = n + 1
    BY <1>4
  <2>2. ContactsDecided(contacts', Len(decisions)) /\ ThreadsDecided(handlers', Len(decisions))
    BY <1>2, <1>4, <1>5, <2>1 DEF DecisionsInv, ContactsDecided, ThreadsDecided, ContactsGrow
  <2> QED
    BY <1>2, <2>2, DecisionsKept DEF Asks, Active
<1>7. SentFor(new, contacts', handlers)
  <2> SUFFICES ASSUME k.decision # 0, k.options.shadowIds = <<>>
               PROVE  /\ SentOnce(k.decision, contacts', handlers)
                      /\ \A q : SentTo(k.decision, q, contacts', handlers) => Asked(new, q)
    BY <1>2 DEF SentFor, Asks
  <2>1. SentOnce(k.decision, contacts, handlers) /\ \A q : SentTo(k.decision, q, contacts, handlers) => Asked(k, q)
    BY <1>2 DEF SentInv, SentFor
  <2>2. ~SentTo(k.decision, p, contacts, handlers)
    BY <1>2, AsksAnew DEF Asks
  <2> HIDE DEF k, p
  <2>3. /\ \A i \in 1..Len(contacts) : Called(contacts[i], k.decision) => contacts[i].provider # p
        /\ \A h \in 1..Len(handlers) : MayCall(handlers[h], k.decision) => handlers[h].provider # p
    BY <2>2 DEF SentTo, MayCall
  <2>4. /\ SentOnce(k.decision, contacts', handlers)
        /\ \A q : SentTo(k.decision, q, contacts', handlers) => SentTo(k.decision, q, contacts, handlers) \/ q = p
    <3> HIDE DEF entry
    <3> QED
      BY <1>4a, <2>1, <2>3, ContactCounts
  <2>5. \A q : Asked(k, q) \/ q = p => Asked(new, q)
    BY <1>2 DEF Asks, Asked, p
  <2> QED
    BY <2>1, <2>4, <2>5
<1>8. ASSUME NEW b \in Callers, b # c PROVE SentFor(call[b], contacts', handlers)
  <2> SUFFICES ASSUME call[b].decision # 0, call[b].options.shadowIds = <<>>
               PROVE  /\ SentOnce(call[b].decision, contacts', handlers)
                      /\ \A q : SentTo(call[b].decision, q, contacts', handlers) =>
                                  SentTo(call[b].decision, q, contacts, handlers)
    BY DEF SentFor, SentInv
  <2>1. call[b].decision # k.decision
    BY <1>8, OthersDecide
  <2>2. SentOnce(call[b].decision, contacts, handlers)
    BY DEF SentInv, SentFor
  <2> HIDE DEF k, p, entry
  <2> DEFINE d == call[b].decision
  <2> HIDE DEF d
  <2>3. /\ SentOnce(d, contacts', handlers)
        /\ \A q : SentTo(d, q, contacts', handlers) => SentTo(d, q, contacts, handlers)
    <3>1. SentOnce(d, contacts, handlers) /\ d # k.decision
      BY <2>1, <2>2 DEF d
    <3> QED
      BY <1>4a, <3>1, ContactCounts
  <2> QED
    BY <2>3 DEF d
<1>9. ASSUME NEW b \in Callers PROVE SentFor(call'[b], contacts', handlers')
  BY <1>1, <1>2, <1>7, <1>8
<1> QED
  BY <1>6, <1>9 DEF SentInv

\* A call that asks the proxy.
LEMMA AsksProxyKeepsSent ==
  ASSUME ShapeInv, PlacesInv, DecisionsInv, SentInv, NEW c \in Callers, NEW new, Set(c, new),
         new.options = call[c].options, AsksProxy(call[c], new)
  PROVE  DecisionsInv' /\ SentInv'
<1> DEFINE k == call[c]
           p == Current(k)
           n == Len(handlers)
<1>1. call'[c] = new /\ \A b \in Callers : b # c => call'[b] = call[b]
  BY CallSet DEF ShapeInv
<1>2. UNCHANGED <<decisions, contacts>> /\ Asks(k, new) /\ Active(k)
  BY DEF AsksProxy, Asks, Active
<1>3. PICK m : handlers' = Append(handlers, m) /\ m.decision = k.decision /\ m.provider = p
  BY DEF AsksProxy
<1>4. k.decision \in 1..Len(decisions)
  BY <1>2 DEF DecisionsInv
<1>5. DecisionsInv'
  <2>1. \A e : /\ Len(Append(handlers, e)) = n + 1 /\ Append(handlers, e)[n + 1] = e
               /\ \A g \in 1..n : Append(handlers, e)[g] = handlers[g]
    BY Appended DEF ShapeInv, ThreadsInv
  <2>2. n \in Nat
    BY DEF ShapeInv, ThreadsInv, IsSequence
  <2>3. Len(handlers') = n + 1 /\ handlers'[n + 1] = m /\ \A g \in 1..n : handlers'[g] = handlers[g]
    BY <1>3, <2>1
  <2>4. \A g \in 1..n + 1 : g \in 1..n \/ g = n + 1
    BY <2>2
  <2>5. ContactsDecided(contacts', Len(decisions)) /\ ThreadsDecided(handlers', Len(decisions))
    BY <1>2, <1>3, <1>4, <2>3, <2>4 DEF DecisionsInv, ContactsDecided, ThreadsDecided
  <2> QED
    BY <1>2, <2>5, DecisionsKept DEF Asks, Active
<1>6. SentFor(new, contacts, handlers')
  <2> SUFFICES ASSUME k.decision # 0, k.options.shadowIds = <<>>
               PROVE  /\ SentOnce(k.decision, contacts, handlers')
                      /\ \A q : SentTo(k.decision, q, contacts, handlers') => Asked(new, q)
    BY <1>2 DEF SentFor, Asks
  <2>1. SentOnce(k.decision, contacts, handlers) /\ \A q : SentTo(k.decision, q, contacts, handlers) => Asked(k, q)
    BY <1>2 DEF SentInv, SentFor
  <2>2. ~SentTo(k.decision, p, contacts, handlers)
    BY <1>2, AsksAnew DEF Asks
  <2> HIDE DEF k, p
  <2>3. /\ SentOnce(k.decision, contacts, handlers')
        /\ \A q : SentTo(k.decision, q, contacts, handlers') => SentTo(k.decision, q, contacts, handlers) \/ q = p
    BY <1>3, <2>1, <2>2, ThreadAdded
  <2>4. \A q : Asked(k, q) \/ q = p => Asked(new, q)
    BY <1>2 DEF Asks, Asked, p
  <2> QED
    BY <2>1, <2>3, <2>4
<1>7. ASSUME NEW b \in Callers, b # c PROVE SentFor(call[b], contacts, handlers')
  <2> SUFFICES ASSUME call[b].decision # 0, call[b].options.shadowIds = <<>>
               PROVE  /\ SentOnce(call[b].decision, contacts, handlers')
                      /\ \A q : SentTo(call[b].decision, q, contacts, handlers') =>
                                  SentTo(call[b].decision, q, contacts, handlers)
    BY DEF SentFor, SentInv
  <2>1. call[b].decision # k.decision
    BY <1>7, OthersDecide
  <2>2. SentOnce(call[b].decision, contacts, handlers)
    BY DEF SentInv, SentFor
  <2> HIDE DEF k, p
  <2> DEFINE d == call[b].decision
  <2> HIDE DEF d
  <2>3. SentOnce(d, contacts, handlers) /\ ~ForCall(m, d)
    BY <1>3, <2>1, <2>2 DEF d, ForCall
  <2>4. /\ SentOnce(d, contacts, handlers')
        /\ \A q : SentTo(d, q, contacts, handlers') => SentTo(d, q, contacts, handlers)
    BY <1>3, <2>3, ThreadAdded
  <2> QED
    BY <2>4 DEF d
<1>8. ASSUME NEW b \in Callers PROVE SentFor(call'[b], contacts', handlers')
  BY <1>1, <1>2, <1>6, <1>7
<1> QED
  BY <1>5, <1>8 DEF SentInv

LEMMA CallerKeepsSent ==
  ASSUME ShapeInv, PlacesInv, DecisionsInv, SentInv, NEW c \in Callers, Start(c) \/ CallStep(c) \/ Abort(c)
  PROVE  DecisionsInv' /\ SentInv'
<1>1. PICK new : Set(c, new) /\ new.options = call[c].options /\ Moves(call[c], new)
  BY CallInPlace
<1> QED
  BY <1>1, RestsKeepsSent, DecidesKeepsSent, AsksHereKeepsSent, AsksProxyKeepsSent DEF Moves

\* What keeps the decisions of the calls, and sends nothing for them that was
\* not sent before, keeps SentInv.
LEMMA NothingSent ==
  ASSUME SentInv, UNCHANGED call,
         \A d : SentOnce(d, contacts, handlers) =>
                  /\ SentOnce(d, contacts', handlers')
                  /\ \A q : SentTo(d, q, contacts', handlers') => SentTo(d, q, contacts, handlers)
  PROVE  SentInv'
<1> SUFFICES ASSUME NEW c \in Callers PROVE SentFor(call[c], contacts', handlers')
  BY DEF SentInv
<1> QED
  BY DEF SentInv, SentFor

\* A thread stands for what was sent to it, and forwards at most once.
LEMMA ThreadKeepsSent ==
  ASSUME ShapeInv, DecisionsInv, SentInv, NEW h \in DOMAIN handlers,
         HandlerStep(h) \/ HandlerFails(h) \/ FinishReplay(h)
  PROVE  DecisionsInv' /\ SentInv'
<1> DEFINE m == handlers[h]
<1>1. PICK new :
        /\ SetHandler(h, new) /\ Serves(m, new)
        /\ UNCHANGED <<decisions, call>>
        /\ new.pc \in {"received", "forward"} => m.pc \in {"received", "forward"}
        /\ \/ UNCHANGED contacts
           \/ /\ m.pc = "forward" /\ new.pc = "forwarded"
              /\ \E as, slots, outcome, twice :
                   Reaches(m.decision, m.provider, as, ThreadEntry(m), slots, outcome, twice)
  <2>1. CASE HandlerReject(h) \/ HandlerAdmit(h) \/ HandlerFails(h)
    BY <2>1, ThreadMoves
  <2>2. CASE HandlerForward(h)
    BY <2>2, ThreadSends
  <2>3. CASE HandlerRecord(h)
    BY <2>3, ThreadRecords
  <2>4. CASE FinishReplay(h)
    BY <2>4, Finished
  <2> QED
    BY <2>1, <2>2, <2>3, <2>4 DEF HandlerStep
<1>2. /\ Len(handlers') = Len(handlers) /\ h \in 1..Len(handlers)
      /\ handlers'[h] = new /\ \A g \in 1..Len(handlers) : g # h => handlers'[g] = handlers[g]
  BY <1>1, ThreadSet DEF ShapeInv
<1>3. \A g \in 1..Len(handlers) : /\ handlers'[g].decision = handlers[g].decision
                                  /\ handlers'[g].provider = handlers[g].provider
                                  /\ handlers'[g].caller = handlers[g].caller
  BY <1>1, <1>2 DEF Serves
<1>4. ThreadsDecided(handlers', Len(decisions'))
  BY <1>1, <1>2, <1>3 DEF DecisionsInv, ThreadsDecided
<1>5. \A d : SentOnce(d, contacts, handlers) =>
               /\ SentOnce(d, contacts, handlers')
               /\ \A q : SentTo(d, q, contacts, handlers') <=> SentTo(d, q, contacts, handlers)
  BY <1>1, ThreadCounts
<1>6. CASE UNCHANGED contacts
  <2>1. DecisionsInv'
    BY <1>1, <1>4, <1>6 DEF DecisionsInv, ThreadsDecided
  <2>2. SentInv'
    BY <1>1, <1>5, <1>6, NothingSent
  <2> QED
    BY <2>1, <2>2
<1>7. CASE ~UNCHANGED contacts
  <2> DEFINE entry == ThreadEntry(m)
  <2>0. entry # "replay" <=> m.caller # Operator
    BY DEF ThreadEntry
  <2>1. m.pc = "forward" /\ new.pc = "forwarded" /\ OneMore(m.decision, m.provider, entry)
    BY <1>1, <1>7, ReachesOneMore
  <2>2. m.caller # Operator => m.decision \in 1..Len(decisions)
    BY <1>2 DEF DecisionsInv
  <2>3. DecisionsInv'
    <3> HIDE DEF entry
    <3>1. PICK as, slots, ok, twice : ContactsGrow(m.decision, m.provider, as, entry, slots, ok, twice)
      BY <2>1 DEF OneMore
    <3>2. \A i \in 1..Len(contacts) + 1 : i \in 1..Len(contacts) \/ i = Len(contacts) + 1
      BY DEF ShapeInv, TablesInv, IsSequence
    <3>3. ContactsDecided(contacts', Len(decisions))
      BY <2>0, <2>2, <3>1, <3>2 DEF DecisionsInv, ContactsDecided, ContactsGrow
    <3> QED
      BY <1>1, <1>4, <3>3 DEF DecisionsInv, ThreadsDecided, ContactsDecided
  <2>4. ASSUME NEW d, SentOnce(d, contacts, handlers)
        PROVE  /\ SentOnce(d, contacts', handlers')
               /\ \A q : SentTo(d, q, contacts', handlers') => SentTo(d, q, contacts, handlers)
    <3>1. SentOnce(d, contacts, handlers') /\ \A q : SentTo(d, q, contacts, handlers') <=> SentTo(d, q, contacts, handlers)
      BY <1>5, <2>4
    <3>2. ForCall(m, d) =>
            /\ \A i \in 1..Len(contacts) : Called(contacts[i], d) => contacts[i].provider # m.provider
            /\ \A g \in 1..Len(handlers') : MayCall(handlers'[g], d) => handlers'[g].provider # m.provider
      <4> SUFFICES ASSUME ForCall(m, d)
                   PROVE  /\ \A i \in 1..Len(contacts) : Called(contacts[i], d) => contacts[i].provider # m.provider
                          /\ \A g \in 1..Len(handlers') : MayCall(handlers'[g], d) => handlers'[g].provider # m.provider
        OBVIOUS
      <4>1. MayCall(m, d)
        BY <2>1 DEF MayCall
      <4>2. \A i \in 1..Len(contacts) : Called(contacts[i], d) => contacts[i].provider # m.provider
        BY <1>2, <2>4, <4>1 DEF SentOnce
      <4>3. ASSUME NEW g \in 1..Len(handlers'), MayCall(handlers'[g], d) PROVE handlers'[g].provider # m.provider
        <5>1. g # h
          BY <1>2, <2>1, <4>3 DEF MayCall
        <5>2. ForCall(handlers[g], d)
          BY <1>2, <1>3, <4>3 DEF MayCall, ForCall
        <5> QED
          BY <1>2, <1>3, <2>4, <5>1, <5>2 DEF SentOnce
      <4> QED
        BY <4>2, <4>3
    <3>2a. m.decision = d /\ entry # "replay" <=> ForCall(m, d)
      BY <2>0 DEF ForCall
    <3> HIDE DEF m, entry
    <3>3. /\ SentOnce(d, contacts', handlers')
          /\ \A q : SentTo(d, q, contacts', handlers') =>
                      SentTo(d, q, contacts, handlers') \/ (m.decision = d /\ entry # "replay" /\ q = m.provider)
      BY <2>1, <3>1, <3>2, <3>2a, ContactCounts
    <3>4. ForCall(m, d) => SentTo(d, m.provider, contacts, handlers)
      BY <1>2 DEF SentTo, m
    <3> QED
      BY <3>1, <3>2a, <3>3, <3>4
  <2>5. SentInv'
    BY <1>1, <2>4, NothingSent
  <2> QED
    BY <2>3, <2>5
<1> QED
  BY <1>6, <1>7

\* A replay is not sent for a call, and a mark is sent to nobody.
LEMMA OperatorKeepsSent ==
  ASSUME ShapeInv, DecisionsInv, SentInv, NEW i \in DOMAIN events, Replay(i) \/ Mark(i)
  PROVE  DecisionsInv' /\ SentInv'
<1> DEFINE entry == "replay"
<1>1. /\ UNCHANGED <<decisions, call>>
      /\ \/ UNCHANGED handlers /\ (UNCHANGED contacts \/ \E r : RepliedHere(events[i], r))
         \/ \E m : HandedBack(events[i], m)
  <2>1. CASE Replay(i)
    BY <2>1, Replayed
  <2>2. CASE Mark(i)
    BY <2>2 DEF Mark
  <2> QED
    BY <2>1, <2>2
<1>2. CASE UNCHANGED <<handlers, contacts>>
  BY <1>1, <1>2 DEF DecisionsInv, SentInv
<1>3. CASE UNCHANGED handlers /\ \E r : RepliedHere(events[i], r) /\ ~UNCHANGED contacts
  <2> DEFINE e == events[i].decision
             p == events[i].provider
  <2>1. PICK slots, outcome : Reaches(e, p, CallNames(e, p), "replay", slots, outcome, FALSE)
    BY <1>3 DEF RepliedHere
  <2>3. OneMore(e, p, entry)
    BY <2>1, ReachesOneMore, Zenon
  <2>4. ContactsDecided(contacts', Len(decisions))
    <3> HIDE DEF e, p
    <3>1. PICK as, given, ok, twice : ContactsGrow(e, p, as, entry, given, ok, twice)
      BY <2>3 DEF OneMore
    <3>2. \A j \in 1..Len(contacts) + 1 : j \in 1..Len(contacts) \/ j = Len(contacts) + 1
      BY DEF ShapeInv, TablesInv, IsSequence
    <3> QED
      BY <3>1, <3>2 DEF DecisionsInv, ContactsDecided, ContactsGrow
  <2>5. DecisionsInv'
    BY <1>1, <1>3, <2>4 DEF DecisionsInv, ContactsDecided
  <2>6. ASSUME NEW d, SentOnce(d, contacts, handlers)
        PROVE  /\ SentOnce(d, contacts', handlers)
               /\ \A q : SentTo(d, q, contacts', handlers) => SentTo(d, q, contacts, handlers)
    <3> HIDE DEF e, p, entry
    <3>1. entry = "replay"
      BY DEF entry
    <3> QED
      BY <2>3, <2>6, <3>1, ContactCounts
  <2>7. SentInv'
    BY <1>1, <1>3, <2>6, NothingSent
  <2> QED
    BY <2>5, <2>7
<1>4. ASSUME NEW m, HandedBack(events[i], m) PROVE DecisionsInv' /\ SentInv'
  <2> DEFINE n == Len(handlers)
  <2>1. handlers' = Append(handlers, m) /\ m.caller = Operator /\ UNCHANGED contacts
    BY <1>4 DEF HandedBack
  <2>2. \A e : /\ Len(Append(handlers, e)) = n + 1 /\ Append(handlers, e)[n + 1] = e
               /\ \A g \in 1..n : Append(handlers, e)[g] = handlers[g]
    BY Appended DEF ShapeInv, ThreadsInv
  <2>3. Len(handlers') = n + 1 /\ handlers'[n + 1] = m /\ \A g \in 1..n : handlers'[g] = handlers[g]
    BY <2>1, <2>2
  <2>4. \A g \in 1..n + 1 : g \in 1..n \/ g = n + 1
    BY DEF ShapeInv, ThreadsInv, IsSequence
  <2>5. ThreadsDecided(handlers', Len(decisions))
    BY <2>1, <2>3, <2>4 DEF DecisionsInv, ThreadsDecided
  <2>6. DecisionsInv'
    BY <1>1, <2>1, <2>5 DEF DecisionsInv, ThreadsDecided
  <2>7. ASSUME NEW d, SentOnce(d, contacts, handlers)
        PROVE  /\ SentOnce(d, contacts, handlers')
               /\ \A q : SentTo(d, q, contacts, handlers') => SentTo(d, q, contacts, handlers)
    <3>1. ~ForCall(m, d)
      BY <2>1 DEF ForCall
    <3> QED
      BY <2>1, <2>7, <3>1, ThreadAdded
  <2>8. SentInv'
    BY <1>1, <2>1, <2>7, NothingSent
  <2> QED
    BY <2>6, <2>8
<1> QED
  BY <1>1, <1>2, <1>3, <1>4

LEMMA InitSent == Init => DecisionsInv /\ SentInv
<1> SUFFICES ASSUME Init PROVE DecisionsInv /\ SentInv
  OBVIOUS
<1>1. decisions = <<>> /\ handlers = <<>> /\ contacts = <<>> /\ PlacesInv
  BY InitPlaces DEF Init
<1>2. \A c \in Callers : call[c].pc = "idle" /\ call[c].decision = 0
  <2>1. PICK w \in Workloads : call = [c \in Callers |-> [NoCall EXCEPT !.options = w[c]]]
    BY DEF Init
  <2>2. DOMAIN NoCall = CallFields /\ NoCall.pc = "idle" /\ NoCall.decision = 0
    BY DEF NoCall, CallFields
  <2>3. ASSUME NEW c \in Callers PROVE call[c].pc = "idle" /\ call[c].decision = 0
    BY <2>1, <2>2 DEF CallFields
  <2> QED
    BY <2>3
<1>3. 1..Len(<<>>) = {} /\ Len(<<>>) = 0
  OBVIOUS
<1>4. DecisionsInv
  BY <1>1, <1>2, <1>3 DEF DecisionsInv, Active
<1>5. SentInv
  BY <1>2 DEF SentInv, SentFor
<1> QED
  BY <1>4, <1>5

LEMMA NextSent ==
  ShapeInv /\ PlacesInv /\ DecisionsInv /\ SentInv /\ [Next]_vars => DecisionsInv' /\ SentInv'
<1> SUFFICES ASSUME ShapeInv, PlacesInv, DecisionsInv, SentInv, [Next]_vars PROVE DecisionsInv' /\ SentInv'
  OBVIOUS
<1>1. CASE UNCHANGED vars
  BY <1>1 DEF vars, DecisionsInv, SentInv
<1> QED
  BY <1>1, CallerKeepsSent, ThreadKeepsSent, OperatorKeepsSent DEF Next

\* The property, from the invariants.
LEMMA FailoverFollows == ShapeInv /\ PlacesInv /\ SentInv => FailoverKeepsItsWord
<1> SUFFICES ASSUME ShapeInv, PlacesInv, SentInv, NEW c \in Callers
             PROVE  LET k == call[c]
                    IN  /\ \A i \in DOMAIN k.tries : k.tries[i].main =>
                             /\ i \in DOMAIN k.ranked /\ k.tries[i].provider = k.ranked[i] /\ i <= k.policy.maxAttempts
                             /\ \A j \in 1 .. i - 1 : k.tries[j].main /\ ~k.tries[j].ok /\ k.tries[j].again
                        /\ k.options.shadowIds = <<>> =>
                             /\ \A i, j \in DOMAIN k.tries : k.tries[i].provider = k.tries[j].provider => i = j
                             /\ k.decision # 0 => \A i, j \in ContactsOf(k.decision) :
                                                    contacts[i].provider = contacts[j].provider => i = j
  BY DEF FailoverKeepsItsWord
<1> DEFINE k == call[c]
<1>1. Placed(k) /\ TriedInOrder(k) /\ IsSequence(k.tries)
  BY DEF PlacesInv, ShapeInv, CallsInv
<1>2. DOMAIN k.tries = 1..Len(k.tries) /\ DOMAIN k.ranked = 1..Len(k.ranked)
  BY <1>1 DEF Placed, IsSequence
<1>3. DOMAIN contacts = 1..Len(contacts)
  BY DEF ShapeInv, TablesInv, IsSequence
<1>4. SentFor(k, contacts, handlers)
  BY DEF SentInv
<1> HIDE DEF k
<1>5. \A i \in DOMAIN k.tries : k.tries[i].main =>
        /\ i \in DOMAIN k.ranked /\ k.tries[i].provider = k.ranked[i] /\ i <= k.policy.maxAttempts
        /\ \A j \in 1 .. i - 1 : k.tries[j].main /\ ~k.tries[j].ok /\ k.tries[j].again
  BY <1>1, <1>2 DEF TriedInOrder
<1>6. k.options.shadowIds = <<>> =>
        \A i, j \in DOMAIN k.tries : k.tries[i].provider = k.tries[j].provider => i = j
  BY <1>1, <1>2 DEF TriedInOrder
<1>7. k.options.shadowIds = <<>> /\ k.decision # 0 =>
        \A i, j \in ContactsOf(k.decision) : contacts[i].provider = contacts[j].provider => i = j
  BY <1>3, <1>4 DEF SentFor, SentOnce, Called, ContactsOf
<1> QED
  BY <1>5, <1>6, <1>7 DEF k

\* Failover keeps its word, for every registry, policy and outcome: the ranked
\* providers are tried in their order and no more of them than the policy
\* allows, the next one only after an error to go on from; and nobody is
\* contacted twice for a decision, not by a thread of the proxy that is late
\* either, and not as a shadow after he was tried.
THEOREM FailoverIsKept == Spec => []FailoverKeepsItsWord
<1>1. Init => DecisionsInv /\ SentInv
  BY InitSent
<1>2. ShapeInv /\ PlacesInv /\ DecisionsInv /\ SentInv /\ [Next]_vars => (DecisionsInv /\ SentInv)'
  BY NextSent
<1>3. ShapeInv /\ PlacesInv /\ SentInv => FailoverKeepsItsWord
  BY FailoverFollows
<1>4. Spec => [](ShapeInv /\ PlacesInv)
  BY PlacesHold
<1> QED
  BY <1>1, <1>2, <1>3, <1>4, PTL DEF Spec
-----------------------------------------------------------------------------
(* The one header of a package is carried *)

\* The one slot of a package with one header.
KeyOf(p)   == Package[p].auth.credentials[1]
Carried(p) == {Slot(InjectionTarget(KeyOf(p)), KeyOf(p).env)}

\* A credential that is asked for is judged when no other one is there.
LEMMA ResolvesTheRequested ==
  ASSUME NEW config, NEW request, NEW environ, request.inline = NoCredential,
         FindConfigCredential(config, request) = NoCredential,
         request.credential # NoCredential, request.credential.provider = request.provider
  PROVE  Resolve(config, request, environ) = Judge(request.credential, request, environ)
<1> DEFINE candidates == <<request.inline, FindConfigCredential(config, request), request.credential>>
           there == {i \in 1..3 : candidates[i] # NoCredential}
           usable == {i \in there : candidates[i].provider = request.provider}
           first == CHOOSE i \in usable : \A j \in usable : i <= j
<1>1. candidates[1] = NoCredential /\ candidates[2] = NoCredential /\ candidates[3] = request.credential
  OBVIOUS
<1>2. Resolve(config, request, environ) =
        IF usable # {} THEN Judge(candidates[first], request, environ)
        ELSE IF there = {} /\ "none" \in {request.authType, request.mode}
          THEN Resolved(NoCredential, <<"none">>, {})
        ELSE Unresolved(NoCredential, <<"missing">>, "missing_credential")
  BY DEF Resolve
<1> HIDE DEF candidates
<1>3. usable = {3}
  BY <1>1
<1>4. first = 3
  BY <1>3
<1> HIDE DEF first, usable
<1>5. usable # {}
  BY <1>3
<1> QED
  BY <1>1, <1>2, <1>4, <1>5

\* What an environment's header credential puts into a request.
LEMMA JudgesToAHeader ==
  ASSUME NEW c, NEW request, NEW environ, c.source = "env", c.authType # "none", c.mode = "header",
         c.name # NoName, Judge(c, request, environ).resolved
  PROVE  Judge(c, request, environ).patch = {[mode |-> "header", secret |-> c.ref, name |-> c.name]}
<1> DEFINE secret == SecretFor(c, environ)
           verdict == Judge(c, request, environ)
           Fails(error) == Unresolved(c, CredentialReference(c), error)
           good == Resolved(c, CredentialReference(c), InjectionPatch(c, secret))
<1>1. secret = IF c.ref \in environ THEN c.ref ELSE NoSecret
  BY DEF SecretFor
<1>2. verdict = IF c.status = "disabled" THEN Fails("credential_disabled")
                ELSE IF c.expired THEN Fails("credential_expired")
                ELSE IF ~ScopeAllows(c, request) THEN Fails("credential_scope_denied")
                ELSE IF secret = NoSecret THEN Fails("missing_credential_secret")
                ELSE good
  BY DEF Judge
<1>3. \A error : ~Fails(error).resolved
  BY DEF Unresolved
<1>4. good.patch = InjectionPatch(c, secret)
  BY DEF Resolved
<1> HIDE DEF Fails, good, secret
<1>5. verdict = good /\ secret # NoSecret
  <2> HIDE DEF verdict
  <2>1. verdict.resolved
    BY DEF verdict
  <2> QED
    BY <1>2, <1>3, <2>1
<1>6. InjectionPatch(c, secret) = {[mode |-> "header", secret |-> secret, name |-> c.name]}
  BY DEF InjectionPatch
<1> QED
  BY <1>1, <1>4, <1>5, <1>6

\* What the package of one header is, and where its key goes.
LEMMA OneHeader ==
  ASSUME NEW p, HasOneHeader(p)
  PROVE  LET auth == Package[p].auth
             key  == KeyOf(p)
         IN  /\ p \in Providers /\ p \notin PackageErrors /\ Declared[p] = NoCredential
             /\ \A i \in DOMAIN ProxyConfig : ProxyConfig[i].provider # p
             /\ Package[p].tool.auth = Inherited /\ auth.type \in {"api_key", "bearer"}
             /\ auth.credentials = <<key>> /\ key.type = auth.type /\ key.env # NoName
             /\ IF key.type = "bearer" THEN key.location = "authorization" ELSE key.location = "header"
             /\ key.type = "bearer" => key.name = "Authorization"
<1>1. p \in Providers
  BY DEF HasOneHeader
<1>2. LET auth == Package[p].auth
          key  == KeyOf(p)
      IN  auth.type \in {"api_key", "bearer"} /\ Len(auth.credentials) = 1 =>
          /\ auth.credentials = <<key>> /\ key.type = auth.type /\ key.env # NoName
          /\ IF key.type = "bearer" THEN key.location = "authorization" /\ key.name = "Authorization"
             ELSE key.location \in {"header", "query", "cookie"}
  BY <1>1, AuthAssumption DEF AuthAssumption, KeyOf
<1> QED
  BY <1>2 DEF HasOneHeader, KeyOf

LEMMA CarriedIs ==
  ASSUME NEW p, HasOneHeader(p)
  PROVE  LET key  == KeyOf(p)
             name == IF key.type = "bearer" THEN "Authorization"
                     ELSE IF key.name # NoName THEN key.name ELSE "X-API-Key"
         IN  /\ InjectionTarget(key) = <<"header", name>> /\ name # NoName
             /\ Carried(p) = {[mode |-> "header", secret |-> key.env, name |-> name]}
<1> DEFINE key  == KeyOf(p)
           name == IF key.type = "bearer" THEN "Authorization"
                   ELSE IF key.name # NoName THEN key.name ELSE "X-API-Key"
<1>1. IF key.type = "bearer" THEN key.location = "authorization" ELSE key.location = "header"
  BY OneHeader
<1>2. name # NoName
  BY DEF NoName
<1>3. InjectionTarget(key) = <<"header", name>>
  BY <1>1 DEF InjectionTarget
<1> HIDE DEF key, name
<1>4. Slot(InjectionTarget(key), key.env) = [mode |-> "header", name |-> name, secret |-> key.env]
  BY <1>3 DEF Slot
<1>5. [mode |-> "header", name |-> name, secret |-> key.env] = [mode |-> "header", secret |-> key.env, name |-> name]
  OBVIOUS
<1>6. Carried(p) = {[mode |-> "header", secret |-> key.env, name |-> name]}
  BY <1>4, <1>5 DEF Carried, key
<1> QED
  BY <1>2, <1>3, <1>6 DEF key, name

\* No credential is configured for it.
LEMMA NothingConfigured ==
  ASSUME NEW config, NEW request, \A i \in DOMAIN config : config[i].provider # request.provider
  PROVE  FindConfigCredential(config, request) = NoCredential
BY DEF FindConfigCredential

\* The caller's side carries it by the injection.
LEMMA DirectCarries ==
  ASSUME NEW o, NEW p, HasOneHeader(p), Prepare(o, p).sent.kind = "http"
  PROVE  Prepare(o, p).sent.slots = Carried(p)
<1> DEFINE key == KeyOf(p)
           auth == Package[p].auth
           name == IF key.type = "bearer" THEN "Authorization"
                   ELSE IF key.name # NoName THEN key.name ELSE "X-API-Key"
           c == CredentialDefinitionOf(p)
           request == RequestFor(Project, Capability, p, Tool(p), c)
           verdict == Resolve(<<>>, request, Environ)
           tool == ExecuteTool(Package[p], p, Project, o.params, Environ, ProxyUrl(o), o.baseUrl,
                               Injecting(verdict.patch))
<1>1. /\ p \notin PackageErrors /\ Declared[p] = NoCredential /\ Package[p].tool.auth = Inherited
      /\ auth.type \in {"api_key", "bearer"} /\ auth.credentials = <<key>> /\ key.type = auth.type /\ key.env # NoName
      /\ IF key.type = "bearer" THEN key.location = "authorization" ELSE key.location = "header"
      /\ key.type = "bearer" => key.name = "Authorization"
  BY OneHeader
<1>2. name # NoName /\ Carried(p) = {[mode |-> "header", secret |-> key.env, name |-> name]}
  BY CarriedIs
<1>3. /\ c.provider = p /\ c.source = "env" /\ c.ref = key.env /\ c.mode = "header"
      /\ c.authType # "none" /\ c.name = name
  <2>1. Head(auth.credentials) = key
    BY <1>1
  <2> DEFINE given == IF key.location = "header" /\ key.name # NoName THEN key.name
                      ELSE IF auth.type = "bearer" THEN "Authorization" ELSE "X-API-Key"
             type == IF auth.type = "bearer" THEN "bearer" ELSE "api_key"
  <2>2. c = [NoCredential EXCEPT
               !.id = <<p, key.env>>, !.owner = Project, !.ownerType = "project",
               !.provider = p, !.source = "env", !.ref = key.env, !.mode = "header",
               !.authType = type, !.name = given]
    BY <1>1, <2>1 DEF CredentialDefinitionOf
  <2>3. given = name /\ type # "none"
    BY <1>1
  <2> HIDE DEF c, given, type
  <2> QED
    BY <2>2, <2>3 DEF NoCredential
<1>4. c # NoCredential
  BY <1>3 DEF NoCredential
<1> HIDE DEF c
<1>5. request.inline = NoCredential /\ request.credential = c /\ request.provider = p
  BY DEF RequestFor
<1> HIDE DEF request
<1>6. verdict = Judge(c, request, Environ)
  <2>1. FindConfigCredential(<<>>, request) = NoCredential
    BY NothingConfigured
  <2> QED
    BY <1>3, <1>4, <1>5, <2>1, ResolvesTheRequested
<1>7. verdict.resolved => verdict.patch = Carried(p)
  BY <1>2, <1>3, <1>6, JudgesToAHeader
<1> HIDE DEF verdict
<1>8. tool.kind = "http" => tool.slots = verdict.patch
  <2> DEFINE injection == Injecting(verdict.patch)
             own == AuthRequestPatch(Package[p], Environ, injection)
  <2>1. injection.given /\ injection.patch = verdict.patch
    BY DEF Injecting
  <2> HIDE DEF injection
  <2>2. own.slots = {}
    BY <1>1, <2>1 DEF AuthRequestPatch, ToolAuth
  <2>3. Inject(own.slots, injection.patch) = verdict.patch
    BY <2>1, <2>2 DEF Inject
  <2> HIDE DEF own
  <2>4. tool.kind = "http" => tool.slots = Inject(own.slots, injection.patch)
    BY DEF ExecuteTool, own, injection, Stops
  <2> QED
    BY <2>3, <2>4
<1>9. Prepare(o, p).sent = tool /\ verdict.resolved
  <2>1. \A error : Stops(error).kind = "error"
    BY DEF Stops
  <2> HIDE DEF tool
  <2>2. IF verdict.resolved THEN Prepare(o, p).sent = tool ELSE Prepare(o, p).sent = Stops(verdict.error)
    BY <1>1 DEF Prepare, verdict, request, c, tool
  <2> QED
    BY <2>1, <2>2
<1> QED
  BY <1>7, <1>8, <1>9

\* And the proxy by the credential it is sent.
LEMMA ProxyCarries ==
  ASSUME NEW m, HasOneHeader(m.provider), ProxyVerdict(m).resolved,
         m.credential = ProxyCredential(Package[m.provider], m.provider, Project),
         m.as = CallNames(m.decision, m.provider)
  PROVE  ProxyVerdict(m).patch = Carried(m.provider)
<1> DEFINE p == m.provider
           c == m.credential
           key == KeyOf(p)
           auth == Package[p].auth
           name == IF key.type = "bearer" THEN "Authorization"
                   ELSE IF key.name # NoName THEN key.name ELSE "X-API-Key"
           request == RequestFor(Project, Capability, p, Tool(p), c)
<1>1. /\ Package[p].tool.auth = Inherited /\ auth.type \in {"api_key", "bearer"}
      /\ auth.credentials = <<key>> /\ key.type = auth.type /\ key.env # NoName
      /\ \A i \in DOMAIN ProxyConfig : ProxyConfig[i].provider # p
  BY OneHeader
<1>2. /\ InjectionTarget(key) = <<"header", name>> /\ name # NoName
      /\ Carried(p) = {[mode |-> "header", secret |-> key.env, name |-> name]}
  BY CarriedIs
<1>3. /\ c.provider = p /\ c.source = "env" /\ c.ref = key.env /\ c.mode = "header"
      /\ c.authType # "none" /\ c.name = name
  <2> DEFINE all == ToolAuth(Package[p]).credentials
             named == {i \in DOMAIN all : all[i] \in Keyed(ToolAuth(Package[p])) /\ all[i].env # NoName}
             target == InjectionTarget(key)
  <2>1. ToolAuth(Package[p]) = auth
    BY <1>1 DEF ToolAuth
  <2>2. named = {1} /\ all[1] = key
    <3>1. all = <<key>> /\ DOMAIN all = {1} /\ all[1] = key
      BY <1>1, <2>1
    <3>2. key \in Keyed(auth)
      <4>1. key \in Range(auth.credentials)
        BY <1>1, <3>1, <2>1 DEF Range
      <4> QED
        BY <1>1, <4>1 DEF Keyed
    <3> HIDE DEF all
    <3>3. named = {1}
      BY <1>1, <2>1, <3>1, <3>2
    <3> QED
      BY <3>1, <3>3
  <2>3. Min({1}) = 1
    BY MinIsLeast
  <2>4. c = IF named = {} THEN NoCredential
            ELSE [NoCredential EXCEPT !.id = <<p, all[Min(named)].env>>, !.ownerType = "project", !.owner = Project,
                                !.provider = p, !.authType = all[Min(named)].type,
                                !.mode = InjectionTarget(all[Min(named)])[1],
                                !.name = InjectionTarget(all[Min(named)])[2],
                                !.source = "env", !.ref = all[Min(named)].env]
    BY DEF ProxyCredential
  <2> HIDE DEF named, all
  <2>5. all[Min(named)] = key /\ named # {}
    BY <2>2, <2>3
  <2>6. c = [NoCredential EXCEPT !.id = <<p, key.env>>, !.ownerType = "project", !.owner = Project,
                                 !.provider = p, !.authType = key.type,
                                 !.mode = target[1], !.name = target[2],
                                 !.source = "env", !.ref = key.env]
    BY <2>4, <2>5
  <2>7. target[1] = "header" /\ target[2] = name /\ key.type # "none"
    BY <1>1, <1>2
  <2> HIDE DEF c, target, key, p
  <2> QED
    BY <2>6, <2>7 DEF NoCredential
<1>4. c # NoCredential
  BY <1>3 DEF NoCredential
<1>5. request.inline = NoCredential /\ request.credential = c /\ request.provider = p
  BY DEF RequestFor
<1>6. ProxyVerdict(m) = Resolve(ProxyConfig, request, ProxyEnviron)
  <2>1. m.as.capability = Capability /\ m.as.provider = p
    BY DEF CallNames
  <2> QED
    BY <2>1 DEF ProxyVerdict, Unresolved
<1> HIDE DEF request
<1>7. Resolve(ProxyConfig, request, ProxyEnviron) = Judge(c, request, ProxyEnviron)
  <2>1. FindConfigCredential(ProxyConfig, request) = NoCredential
    BY <1>1, <1>5, NothingConfigured
  <2> QED
    BY <1>3, <1>4, <1>5, <2>1, ResolvesTheRequested
<1> HIDE DEF c, p
<1>8. Judge(c, request, ProxyEnviron).patch = {[mode |-> "header", secret |-> c.ref, name |-> c.name]}
  BY <1>2, <1>3, <1>6, <1>7, JudgesToAHeader
<1> QED
  BY <1>2, <1>3, <1>6, <1>7, <1>8 DEF p

(***************************************************************************)
(* A call's thread has the credential its package asks for, and once it is *)
(* admitted the slots it is resolved to; a contact carries the slots it    *)
(* was sent with.                                                          *)
(***************************************************************************)
ThreadCarries(m) == m.caller # Operator =>
  /\ m.credential = ProxyCredential(Package[m.provider], m.provider, Project)
  /\ m.as = CallNames(m.decision, m.provider)
  /\ m.pc = "forward" /\ HasOneHeader(m.provider) => m.slots = Carried(m.provider)

ContactCarries(x) ==
  HasOneHeader(x.provider) /\ x.entry # "replay" /\ x.provider \notin Range(Adapters) => x.slots = Carried(x.provider)

HeadersInv ==
  /\ \A h \in 1..Len(handlers) : ThreadCarries(handlers[h])
  /\ \A i \in 1..Len(contacts) : ContactCarries(contacts[i])

\* A contact more that carries what it should.
LEMMA ContactCarried ==
  ASSUME ShapeInv, \A i \in 1..Len(contacts) : ContactCarries(contacts[i]),
         NEW e, NEW p, NEW as, NEW entry, NEW slots, NEW outcome, NEW twice,
         Reaches(e, p, as, entry, slots, outcome, twice),
         HasOneHeader(p) /\ entry # "replay" /\ p \notin Range(Adapters) => slots = Carried(p)
  PROVE  \A i \in 1..Len(contacts') : ContactCarries(contacts'[i])
<1> DEFINE n == Len(contacts)
<1>1. ContactsGrow(e, p, as, entry, slots, outcome.ok, twice) /\ n \in Nat
  BY ContactAdded DEF ShapeInv
<1>2. \A i \in 1..n + 1 : i \in 1..n \/ i = n + 1
  BY <1>1
<1>3. ContactCarries(contacts'[n + 1])
  BY <1>1 DEF ContactCarries, ContactsGrow
<1>4. ASSUME NEW i \in 1..n + 1 PROVE ContactCarries(contacts'[i])
  BY <1>1, <1>2, <1>3 DEF ContactsGrow
<1> QED
  BY <1>1, <1>4 DEF ContactsGrow

\* A call sends the one header itself, or has the proxy send it.
LEMMA CallerKeepsHeaders ==
  ASSUME ShapeInv, PlacesInv, HeadersInv, NEW c \in Callers, Start(c) \/ CallStep(c) \/ Abort(c)
  PROVE  HeadersInv'
<1> DEFINE k == call[c]
           p == Current(k)
<1>1. PICK new : Moves(k, new)
  BY CallInPlace
<1>2. CASE Rests(k, new) \/ Decides(k, new)
  BY <1>2 DEF Rests, Decides, HeadersInv
<1>3. CASE AsksHere(k, new)
  <2>1. UNCHANGED handlers /\ k.pc = "attempt"
    BY <1>3 DEF AsksHere, Asks
  <2>2. PICK slots, outcome :
          /\ Reaches(k.decision, p, CallNames(k.decision, p), "direct", slots, outcome, FALSE)
          /\ \/ IsSdk(k.options)
             \/ Prepare(k.options, p).sent.kind = "http" /\ slots = Prepare(k.options, p).sent.slots
    BY <1>3 DEF AsksHere
  <2>3. HasOneHeader(p) /\ p \notin Range(Adapters) => slots = Carried(p)
    <3>1. IsSdk(k.options) => p \in Range(Adapters)
      <4>1. Placed(k) /\ Active(k)
        BY <2>1 DEF PlacesInv, Active
      <4> HIDE DEF k
      <4> QED
        BY <4>1 DEF Placed, Current, p
    <3> HIDE DEF k, p
    <3> QED
      BY <2>2, <3>1, DirectCarries
  <2>4. \A i \in 1..Len(contacts') : ContactCarries(contacts'[i])
    <3> HIDE DEF k, p
    <3> DEFINE d == k.decision
               as == CallNames(d, p)
               entry == "direct"
               twice == FALSE
    <3>1. Reaches(d, p, as, entry, slots, outcome, twice)
      BY <2>2
    <3> HIDE DEF d, as, entry, twice
    <3> QED
      BY <2>3, <3>1, ContactCarried DEF HeadersInv
  <2> QED
    BY <2>1, <2>4 DEF HeadersInv
<1>4. CASE AsksProxy(k, new)
  <2>1. UNCHANGED contacts
    BY <1>4 DEF AsksProxy
  <2>2. PICK m : /\ handlers' = Append(handlers, m) /\ m.pc = "received" /\ m.provider = p
                 /\ m.as = CallNames(m.decision, p)
                 /\ m.credential = ProxyCredential(Package[p], p, Project)
    BY <1>4 DEF AsksProxy
  <2> DEFINE n == Len(handlers)
  <2>3. \A e : /\ Len(Append(handlers, e)) = n + 1 /\ Append(handlers, e)[n + 1] = e
               /\ \A g \in 1..n : Append(handlers, e)[g] = handlers[g]
    BY Appended DEF ShapeInv, ThreadsInv
  <2>4. Len(handlers') = n + 1 /\ handlers'[n + 1] = m /\ \A g \in 1..n : handlers'[g] = handlers[g]
    BY <2>2, <2>3
  <2>5. \A g \in 1..n + 1 : g \in 1..n \/ g = n + 1
    BY DEF ShapeInv, ThreadsInv, IsSequence
  <2>6. ThreadCarries(m)
    BY <2>2 DEF ThreadCarries
  <2>7. ASSUME NEW g \in 1..n + 1 PROVE ThreadCarries(handlers'[g])
    BY <2>4, <2>5, <2>6 DEF HeadersInv
  <2> QED
    BY <2>1, <2>4, <2>7 DEF HeadersInv
<1> QED
  BY <1>1, <1>2, <1>3, <1>4 DEF Moves

\* Only a thread that is admitted comes to forward, with what is resolved.
LEMMA ForwardsVerdict ==
  ASSUME ShapeInv, NEW h \in DOMAIN handlers, HandlerReject(h) \/ HandlerAdmit(h) \/ HandlerFails(h),
         handlers'[h].pc = "forward"
  PROVE  ProxyVerdict(handlers[h]).resolved /\ handlers'[h].slots = ProxyVerdict(handlers[h]).patch
<1> DEFINE m == handlers[h]
           verdict == ProxyVerdict(m)
<1>1. DOMAIN m = HandlerFields
  BY DEF ShapeInv, ThreadsInv, IsSequence
<1>2. \A x : SetHandler(h, x) => handlers'[h] = x
  BY ThreadSet DEF ShapeInv
<1>3. ~HandlerReject(h)
  <2>1. \A r : [m EXCEPT !.pc = "answered", !.result = r].pc = "answered"
    BY <1>1 DEF HandlerFields
  <2> QED
    BY <1>2, <2>1 DEF HandlerReject, Answered
<1>4. ~HandlerFails(h)
  <2>1. [m EXCEPT !.pc = "lost"].pc = "lost"
    BY <1>1 DEF HandlerFields
  <2> QED
    BY <1>2, <2>1 DEF HandlerFails
<1>5. \A pc, error, slots, reference, credential :
        LET x == GoesOn(m, pc, error, slots, reference, credential)
        IN  x.pc = pc /\ x.slots = slots
  <2> HIDE DEF m
  <2> QED
    BY <1>1 DEF GoesOn, HandlerFields
<1> DEFINE full == Quota # NoLimit /\ Count(events, Project) >= Quota
           reference == IF m.credential = NoCredential THEN <<>> ELSE CredentialReference(m.credential)
           refused == GoesOn(m, "refuse", "quota_exceeded", {}, reference, m.credential)
           denied == GoesOn(m, "deny", verdict.error, {}, verdict.reference, verdict.metadata)
           goes == GoesOn(m, "forward", "none", verdict.patch, verdict.reference, verdict.metadata)
<1>6. SetHandler(h, IF full THEN refused ELSE IF ~verdict.resolved THEN denied ELSE goes)
  BY <1>3, <1>4 DEF HandlerAdmit
<1>7. refused.pc = "refuse" /\ denied.pc = "deny" /\ goes.slots = verdict.patch
  BY <1>5
<1> HIDE DEF full, refused, denied, goes, verdict, m
<1>8. handlers'[h] = IF full THEN refused ELSE IF ~verdict.resolved THEN denied ELSE goes
  BY <1>2, <1>6
<1> QED
  BY <1>7, <1>8 DEF verdict, m

\* A thread sends what it was resolved to.
LEMMA ThreadKeepsHeaders ==
  ASSUME ShapeInv, HeadersInv, NEW h \in DOMAIN handlers, HandlerStep(h) \/ HandlerFails(h) \/ FinishReplay(h)
  PROVE  HeadersInv'
<1> DEFINE m == handlers[h]
<1>1. PICK new :
        /\ SetHandler(h, new) /\ Serves(m, new)
        /\ \/ UNCHANGED contacts
           \/ /\ m.pc = "forward"
              /\ \E outcome : Reaches(m.decision, m.provider, m.as, ThreadEntry(m), m.slots, outcome, m.twice)
        /\ \/ new.pc = "forward" => HandlerReject(h) \/ HandlerAdmit(h) \/ HandlerFails(h)
           \/ new.pc = m.pc /\ new.slots = m.slots
  <2>1. CASE HandlerReject(h) \/ HandlerAdmit(h) \/ HandlerFails(h)
    BY <2>1, ThreadMoves
  <2>2. CASE HandlerForward(h)
    BY <2>2, ThreadSends
  <2>3. CASE HandlerRecord(h)
    BY <2>3, ThreadRecords
  <2>4. CASE FinishReplay(h)
    BY <2>4, Finished
  <2> QED
    BY <2>1, <2>2, <2>3, <2>4 DEF HandlerStep
<1>2. /\ Len(handlers') = Len(handlers) /\ h \in 1..Len(handlers)
      /\ handlers'[h] = new /\ \A g \in 1..Len(handlers) : g # h => handlers'[g] = handlers[g]
  BY <1>1, ThreadSet DEF ShapeInv
<1>3. ThreadCarries(m)
  BY <1>2 DEF HeadersInv
<1>4. ThreadCarries(new)
  <2> SUFFICES ASSUME m.caller # Operator PROVE ThreadCarries(new)
    BY <1>1 DEF ThreadCarries, Serves
  <2>1. new.provider = m.provider /\ new.credential = m.credential /\ new.as = m.as /\ new.decision = m.decision
    BY <1>1 DEF Serves
  <2>2. new.pc = "forward" /\ HasOneHeader(m.provider) => new.slots = Carried(m.provider)
    <3> SUFFICES ASSUME new.pc = "forward", HasOneHeader(m.provider) PROVE new.slots = Carried(m.provider)
      OBVIOUS
    <3>1. CASE new.pc = m.pc /\ new.slots = m.slots
      BY <1>3, <3>1 DEF ThreadCarries
    <3>2. CASE HandlerReject(h) \/ HandlerAdmit(h) \/ HandlerFails(h)
      <4>1. ProxyVerdict(m).resolved /\ new.slots = ProxyVerdict(m).patch
        BY <1>2, <3>2, ForwardsVerdict
      <4>2. /\ m.credential = ProxyCredential(Package[m.provider], m.provider, Project)
            /\ m.as = CallNames(m.decision, m.provider)
        BY <1>3 DEF ThreadCarries
      <4> HIDE DEF m
      <4> QED
        BY <4>1, <4>2, ProxyCarries
    <3> QED
      BY <1>1, <3>1, <3>2
  <2> QED
    BY <1>3, <2>1, <2>2 DEF ThreadCarries
<1>5. \A i \in 1..Len(contacts') : ContactCarries(contacts'[i])
  <2>1. CASE UNCHANGED contacts
    BY <2>1 DEF HeadersInv
  <2>2. CASE ~UNCHANGED contacts
    <3> DEFINE entry == ThreadEntry(m)
    <3>1. PICK outcome : Reaches(m.decision, m.provider, m.as, entry, m.slots, outcome, m.twice)
      BY <1>1, <2>2
    <3>2. HasOneHeader(m.provider) /\ entry # "replay" => m.slots = Carried(m.provider)
      BY <1>1, <1>3, <2>2 DEF ThreadCarries, ThreadEntry
    <3> HIDE DEF m, entry
    <3> QED
      BY <3>1, <3>2, ContactCarried DEF HeadersInv
  <2> QED
    BY <2>1, <2>2
<1>6. ASSUME NEW g \in 1..Len(handlers) PROVE ThreadCarries(handlers'[g])
  BY <1>2, <1>4 DEF HeadersInv
<1> QED
  BY <1>2, <1>5, <1>6 DEF HeadersInv

\* A replay's request is another's.
LEMMA OperatorKeepsHeaders ==
  ASSUME ShapeInv, HeadersInv, NEW i \in DOMAIN events, Replay(i) \/ Mark(i)
  PROVE  HeadersInv'
<1>1. \/ UNCHANGED handlers /\ (UNCHANGED contacts \/ \E r : RepliedHere(events[i], r))
      \/ \E m : HandedBack(events[i], m)
  <2>1. CASE Replay(i)
    BY <2>1, Replayed
  <2>2. CASE Mark(i)
    BY <2>2 DEF Mark
  <2> QED
    BY <2>1, <2>2
<1>2. CASE UNCHANGED <<handlers, contacts>>
  BY <1>2 DEF HeadersInv
<1>3. CASE UNCHANGED handlers /\ \E r : RepliedHere(events[i], r) /\ ~UNCHANGED contacts
  <2> DEFINE d == events[i].decision
             p == events[i].provider
             as == CallNames(d, p)
             entry == "replay"
             twice == FALSE
  <2>1. PICK slots, outcome : Reaches(d, p, as, entry, slots, outcome, twice)
    BY <1>3 DEF RepliedHere
  <2>2. entry = "replay"
    OBVIOUS
  <2> HIDE DEF d, p, as, entry, twice
  <2>3. \A j \in 1..Len(contacts') : ContactCarries(contacts'[j])
    BY <2>1, <2>2, ContactCarried DEF HeadersInv
  <2> QED
    BY <1>3, <2>3 DEF HeadersInv
<1>4. ASSUME NEW m, HandedBack(events[i], m) PROVE HeadersInv'
  <2> DEFINE n == Len(handlers)
  <2>1. handlers' = Append(handlers, m) /\ m.caller = Operator /\ UNCHANGED contacts
    BY <1>4 DEF HandedBack
  <2>2. \A e : /\ Len(Append(handlers, e)) = n + 1 /\ Append(handlers, e)[n + 1] = e
               /\ \A g \in 1..n : Append(handlers, e)[g] = handlers[g]
    BY Appended DEF ShapeInv, ThreadsInv
  <2>3. Len(handlers') = n + 1 /\ handlers'[n + 1] = m /\ \A g \in 1..n : handlers'[g] = handlers[g]
    BY <2>1, <2>2
  <2>4. \A g \in 1..n + 1 : g \in 1..n \/ g = n + 1
    BY DEF ShapeInv, ThreadsInv, IsSequence
  <2>5. ThreadCarries(m)
    BY <2>1 DEF ThreadCarries
  <2>6. ASSUME NEW g \in 1..n + 1 PROVE ThreadCarries(handlers'[g])
    BY <2>3, <2>4, <2>5, <2>6 DEF HeadersInv
  <2> QED
    BY <2>1, <2>3, <2>6 DEF HeadersInv
<1> QED
  BY <1>1, <1>2, <1>3, <1>4

LEMMA InitHeaders == Init => HeadersInv
BY DEF Init, HeadersInv

LEMMA NextHeaders == ShapeInv /\ PlacesInv /\ HeadersInv /\ [Next]_vars => HeadersInv'
<1> SUFFICES ASSUME ShapeInv, PlacesInv, HeadersInv, [Next]_vars PROVE HeadersInv'
  OBVIOUS
<1>1. CASE UNCHANGED vars
  BY <1>1 DEF vars, HeadersInv
<1> QED
  BY <1>1, CallerKeepsHeaders, ThreadKeepsHeaders, OperatorKeepsHeaders DEF Next

\* A package whose only credential is a header has it, and nothing else, in
\* every request sent for a call, whatever else is in the environment: from
\* the caller by the injection, from the proxy by the credential it is sent.
THEOREM HeadersAreCarried == Spec => []HeaderAuthIsCarried
<1>1. Init => HeadersInv
  BY InitHeaders
<1>2. ShapeInv /\ PlacesInv /\ HeadersInv /\ [Next]_vars => HeadersInv'
  BY NextHeaders
<1>3. ShapeInv /\ HeadersInv => HeaderAuthIsCarried
  <2> SUFFICES ASSUME ShapeInv, HeadersInv, NEW i \in DOMAIN contacts
               PROVE  LET p   == contacts[i].provider
                          key == Package[p].auth.credentials[1]
                      IN  HasOneHeader(p) /\ contacts[i].entry # "replay" /\ p \notin Range(Adapters) =>
                            contacts[i].slots = {Slot(InjectionTarget(key), key.env)}
    BY DEF HeaderAuthIsCarried
  <2>1. ContactCarries(contacts[i])
    BY DEF HeadersInv, ShapeInv, TablesInv, IsSequence
  <2> QED
    BY <2>1 DEF ContactCarries, Carried, KeyOf
<1>4. Spec => [](ShapeInv /\ PlacesInv)
  BY PlacesHold
<1> QED
  BY <1>1, <1>2, <1>3, <1>4, PTL DEF Spec
================================================================================
