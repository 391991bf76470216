-------------------------- MODULE TenantZones_bound --------------------------
(***************************************************************************)
(* The resource bound of the tenant form, proved for every list of         *)
(* servers: the filter of findMinParameter keeps exactly the servers of    *)
(* the chosen zones, the sort of findMinValue puts one with the smallest   *)
(* amount first, and so the bound is the per-dimension minimum.            *)
(*                                                                         *)
(* Both the filter and the sort are facts about all sequences.  The        *)
(* filter is a recursive function and the sort a CHOOSE over permutations; *)
(* each is handled by an explicit construction and an argument on a least  *)
(* counterexample (every non-empty set of naturals has a least element),   *)
(* so that no induction rule with an operator parameter is needed.         *)
(***************************************************************************)
EXTENDS TenantZones_proofs, FiniteSetTheorems, WellFoundedInduction

\* Every non-empty set of natural numbers has a least element
LEMMA LeastNat ==
    ASSUME NEW T \in SUBSET Nat, T # {}
    PROVE  \E m \in T : \A k \in T : m <= k
<1>1. PICK m \in T : \A k \in T : ~(<<k, m>> \in OpToRel(<, Nat))
  BY NatLessThanWellFounded, WFMin
<1>2. \A k \in T : ~(k < m)
  BY <1>1 DEF OpToRel
<1>3. QED
  BY <1>2

-----------------------------------------------------------------------------
(***************************************************************************)
(* The filter.                                                             *)
(***************************************************************************)

\* One step of the recursive function behind FilterZones
FilterStep(rs, zones, F, i) ==
    IF i = 0 THEN << >>
    ELSE IF rs[i].obZone \in zones THEN Append(F[i-1], rs[i]) ELSE F[i-1]

\* That recursive function, as the CHOOSE its definition stands for
FilterFcn(rs, zones) ==
    CHOOSE F : F = [i \in 0..Len(rs) |-> FilterStep(rs, zones, F, i)]

\* The servers among the first i that are in the given zones
Selected(rs, zones, i) == {rs[j] : j \in {k \in 1..i : rs[k].obZone \in zones}}

LEMMA FilterIsFcn ==
    ASSUME NEW rs, NEW zones
    PROVE  FilterZones(rs, zones) = FilterFcn(rs, zones)[Len(rs)]
BY DEF FilterZones, FilterFcn, FilterStep

\* A function on 0..Len(rs) satisfying the filter's recursion exists
LEMMA FilterExists ==
    ASSUME NEW rs \in Seq(ServerResource), NEW zones
    PROVE  \E F : F = [i \in 0..Len(rs) |-> FilterStep(rs, zones, F, i)]
<1> DEFINE n == Len(rs)
           Good(m) == \E g \in [0..m -> Seq(ServerResource)] :
                         \A i \in 0..m : g[i] = FilterStep(rs, zones, g, i)
<1>1. Good(0)
  <2> DEFINE g == [i \in 0..0 |-> << >>]
  <2>1. \A i \in 0..0 : g[i] = FilterStep(rs, zones, g, i)
    BY DEF FilterStep
  <2>2. g \in [0..0 -> Seq(ServerResource)]
    OBVIOUS
  <2>3. QED
    BY <2>1, <2>2
<1>2. ASSUME NEW m \in 1..n, Good(m-1) PROVE Good(m)
  <2>1. PICK g \in [0..m-1 -> Seq(ServerResource)] :
               \A i \in 0..m-1 : g[i] = FilterStep(rs, zones, g, i)
    BY <1>2
  <2> DEFINE h == [i \in 0..m |-> IF i < m THEN g[i] ELSE FilterStep(rs, zones, g, m)]
  <2>2. FilterStep(rs, zones, g, m) \in Seq(ServerResource)
    BY <2>1 DEF FilterStep
  <2>3. h \in [0..m -> Seq(ServerResource)]
    BY <2>1, <2>2
  <2>4. ASSUME NEW i \in 0..m PROVE h[i] = FilterStep(rs, zones, h, i)
    <3>1. CASE i = 0
      <4>1. h[i] = g[0] /\ g[0] = FilterStep(rs, zones, g, 0)
        BY <2>1, <3>1
      <4>2. QED
        BY <3>1, <4>1 DEF FilterStep
    <3>2. CASE i \in 1..m-1
      <4>1. h[i] = g[i] /\ h[i-1] = g[i-1]
        BY <3>2
      <4>2. g[i] = FilterStep(rs, zones, g, i)
        BY <2>1, <3>2
      <4>3. FilterStep(rs, zones, h, i) = FilterStep(rs, zones, g, i)
        BY <3>2, <4>1 DEF FilterStep
      <4>4. QED
        BY <4>1, <4>2, <4>3
    <3>3. CASE i = m
      <4>1. h[i] = FilterStep(rs, zones, g, m) /\ h[i-1] = g[i-1]
        BY <3>3
      <4>2. QED
        BY <3>3, <4>1 DEF FilterStep
    <3>4. QED
      BY <3>1, <3>2, <3>3
  <2>5. QED
    BY <2>3, <2>4
<1>3. Good(n)
  <2> SUFFICES ASSUME ~Good(n) PROVE FALSE
    OBVIOUS
  <2> DEFINE Bad == {m \in 0..n : ~Good(m)}
  <2>0. Bad \in SUBSET Nat /\ n \in Bad
    OBVIOUS
  <2> HIDE DEF Good
  <2>1. PICK m \in Bad : \A k \in Bad : m <= k
    BY <2>0, LeastNat
  <2>2. CASE m = 0
    BY <1>1, <2>2
  <2>3. CASE m # 0
    <3>1. m \in 1..n /\ m - 1 \in 0..n
      BY <2>3
    <3>2. m - 1 \notin Bad
      BY <2>1, <3>1
    <3>3. QED
      BY <1>2, <3>1, <3>2
  <2>4. QED
    BY <2>2, <2>3
<1>4. PICK g \in [0..n -> Seq(ServerResource)] :
             \A i \in 0..n : g[i] = FilterStep(rs, zones, g, i)
  BY <1>3
<1>5. g = [i \in 0..n |-> FilterStep(rs, zones, g, i)]
  BY <1>4
<1>6. QED
  BY <1>5
\* Appending an element adds it to the range of a sequence
LEMMA RangeAppend ==
    ASSUME NEW S, NEW s \in Seq(S), NEW x
    PROVE  Range(Append(s, x)) = Range(s) \cup {x}
<1>1. Range(Append(s, x)) \subseteq Range(s) \cup {x}
  BY DEF Range
<1>2. Range(s) \cup {x} \subseteq Range(Append(s, x))
  <2>1. x = Append(s, x)[Len(s) + 1]
    OBVIOUS
  <2>2. \A k \in 1..Len(s) : s[k] = Append(s, x)[k]
    OBVIOUS
  <2>3. QED
    BY <2>1, <2>2 DEF Range
<1>3. QED
  BY <1>1, <1>2

(***************************************************************************)
(* The filter returns a list of servers, holding exactly the servers of    *)
(* the given zones.                                                        *)
(***************************************************************************)
LEMMA FilterRange ==
    ASSUME NEW rs \in Seq(ServerResource), NEW zones
    PROVE  /\ FilterZones(rs, zones) \in Seq(ServerResource)
           /\ Range(FilterZones(rs, zones)) = Selected(rs, zones, Len(rs))
<1> DEFINE n == Len(rs)
           F == FilterFcn(rs, zones)
           P(i) == F[i] \in Seq(ServerResource) /\ Range(F[i]) = Selected(rs, zones, i)
<1>0. F = [i \in 0..n |-> FilterStep(rs, zones, F, i)]
  BY FilterExists DEF FilterFcn
<1>1. \A i \in 0..n : F[i] = FilterStep(rs, zones, F, i)
  BY <1>0
<1>2. P(0)
  <2>0. 0 \in 0..n
    OBVIOUS
  <2>1. F[0] = << >>
    <3>1. F[0] = FilterStep(rs, zones, F, 0)
      BY <1>1, <2>0
    <3>2. QED
      BY <3>1 DEF FilterStep
  <2>2. Range(<< >>) = {} /\ Selected(rs, zones, 0) = {}
    BY DEF Range, Selected
  <2>3. << >> \in Seq(ServerResource)
    OBVIOUS
  <2>4. QED
    BY <2>1, <2>2, <2>3
<1>3. ASSUME NEW i \in 1..n, P(i-1) PROVE P(i)
  <2>1. CASE rs[i].obZone \in zones
    <3>1. F[i] = Append(F[i-1], rs[i])
      <4>1. F[i] = FilterStep(rs, zones, F, i)
        BY <1>1
      <4>2. QED
        BY <2>1, <4>1 DEF FilterStep
    <3>2. Selected(rs, zones, i) = Selected(rs, zones, i-1) \cup {rs[i]}
      BY <2>1 DEF Selected
    <3>3. QED
      BY <1>3, <3>1, <3>2, RangeAppend
  <2>2. CASE rs[i].obZone \notin zones
    <3>1. F[i] = F[i-1]
      <4>1. F[i] = FilterStep(rs, zones, F, i)
        BY <1>1
      <4>2. QED
        BY <2>2, <4>1 DEF FilterStep
    <3>2. Selected(rs, zones, i) = Selected(rs, zones, i-1)
      BY <2>2 DEF Selected
    <3>3. QED
      BY <1>3, <3>1, <3>2
  <2>3. QED
    BY <2>1, <2>2
<1>4. P(n)
  <2> SUFFICES ASSUME ~P(n) PROVE FALSE
    OBVIOUS
  <2> DEFINE Bad == {i \in 0..n : ~P(i)}
  <2>0. Bad \in SUBSET Nat /\ n \in Bad
    OBVIOUS
  <2> HIDE DEF P
  <2>1. PICK m \in Bad : \A k \in Bad : m <= k
    BY <2>0, LeastNat
  <2>2. CASE m = 0
    BY <1>2, <2>2
  <2>3. CASE m # 0
    <3>1. m \in 1..n /\ m - 1 \in 0..n
      BY <2>3
    <3>2. m - 1 \notin Bad
      BY <2>1, <3>1
    <3>3. QED
      BY <1>3, <3>1, <3>2
  <2>4. QED
    BY <2>2, <2>3
<1>5. QED
  BY <1>4, FilterIsFcn

-----------------------------------------------------------------------------
(***************************************************************************)
(* The sort.  K[i] is the key of the i-th server.  An index comes before   *)
(* another when its key is smaller, or equal and its index smaller: the    *)
(* order of a stable sort.  The rank of an index is its place in that      *)
(* order; ranks are a permutation, and listing the indices by rank sorts   *)
(* the keys.                                                               *)
(***************************************************************************)
Before(K, j, i) == K[j] < K[i] \/ (K[j] = K[i] /\ j < i)

Below(K, i) == {j \in DOMAIN K : Before(K, j, i)}

Rank(K, i) == Cardinality(Below(K, i)) + 1

\* The indices listed by rank
ByRank(K) == [k \in DOMAIN K |-> CHOOSE i \in DOMAIN K : Rank(K, i) = k]

LEMMA BelowSize ==
    ASSUME NEW n \in Nat, NEW K \in [1..n -> Nat], NEW i \in 1..n
    PROVE  /\ IsFiniteSet(Below(K, i))
           /\ Rank(K, i) \in 1..n
<1>1. IsFiniteSet(1..n) /\ Cardinality(1..n) = n
  BY FS_Interval
<1>2. IsFiniteSet((1..n) \ {i}) /\ Cardinality((1..n) \ {i}) = n - 1
  BY <1>1, FS_RemoveElement
<1>3. Below(K, i) \subseteq (1..n) \ {i}
  BY DEF Below, Before
<1>4. IsFiniteSet(Below(K, i)) /\ Cardinality(Below(K, i)) <= n - 1
  BY <1>2, <1>3, FS_Subset
<1>5. Cardinality(Below(K, i)) \in Nat
  BY <1>4, FS_CardinalityType
<1>6. QED
  BY <1>4, <1>5 DEF Rank

\* An index that comes before another has a smaller rank
LEMMA RankMono ==
    ASSUME NEW n \in Nat, NEW K \in [1..n -> Nat], NEW i \in 1..n, NEW j \in 1..n,
           Before(K, j, i)
    PROVE  Rank(K, j) < Rank(K, i)
<1>1. Below(K, j) \subseteq Below(K, i)
  BY DEF Below, Before
<1>2. j \in Below(K, i) /\ j \notin Below(K, j)
  BY DEF Below, Before
<1>3. /\ Cardinality(Below(K, j)) <= Cardinality(Below(K, i))
      /\ Cardinality(Below(K, i)) = Cardinality(Below(K, j)) => Below(K, i) = Below(K, j)
  BY <1>1, BelowSize, FS_Subset
<1>4. Cardinality(Below(K, j)) \in Nat /\ Cardinality(Below(K, i)) \in Nat
  BY BelowSize, FS_CardinalityType
<1>5. QED
  BY <1>2, <1>3, <1>4 DEF Rank

\* Distinct indices have distinct ranks, and every place 1..n is a rank
LEMMA RankBijective ==
    ASSUME NEW n \in Nat, NEW K \in [1..n -> Nat]
    PROVE  /\ \A i, j \in 1..n : Rank(K, i) = Rank(K, j) => i = j
           /\ \A k \in 1..n : \E i \in 1..n : Rank(K, i) = k
<1>1. ASSUME NEW i \in 1..n, NEW j \in 1..n, i # j PROVE Rank(K, i) # Rank(K, j)
  <2>1. Before(K, j, i) \/ Before(K, i, j)
    BY <1>1 DEF Before
  <2>2. Rank(K, i) \in 1..n /\ Rank(K, j) \in 1..n
    BY BelowSize
  <2>3. CASE Before(K, j, i)
    <3>1. Rank(K, j) < Rank(K, i)
      BY <2>3, RankMono
    <3>2. QED
      BY <2>2, <3>1
  <2>4. CASE Before(K, i, j)
    <3>1. Rank(K, i) < Rank(K, j)
      BY <2>4, RankMono
    <3>2. QED
      BY <2>2, <3>1
  <2>5. QED
    BY <2>1, <2>3, <2>4
<1> DEFINE f == [i \in 1..n |-> Rank(K, i)]
<1>2. f \in Injection(1..n, 1..n)
  BY <1>1, BelowSize DEF Injection, IsInjective
<1>3. f \in Surjection(1..n, 1..n)
  BY <1>2, FS_Interval, FS_Injection
<1>4. QED
  BY <1>1, <1>3 DEF Surjection

\* Listing the indices by rank is a permutation that sorts the keys
LEMMA ByRankSorts ==
    ASSUME NEW n \in Nat, NEW K \in [1..n -> Nat]
    PROVE  /\ ByRank(K) \in Reorderings(n)
           /\ \A i, j \in 1..n : i < j => K[ByRank(K)[i]] <= K[ByRank(K)[j]]
<1> DEFINE p == ByRank(K)
<1>1. ASSUME NEW k \in 1..n PROVE p[k] \in 1..n /\ Rank(K, p[k]) = k
  <2>1. \E i \in 1..n : Rank(K, i) = k
    BY RankBijective
  <2>2. DOMAIN K = 1..n
    OBVIOUS
  <2>3. QED
    BY <2>1, <2>2 DEF ByRank
<1>2. p \in [1..n -> 1..n]
  BY <1>1 DEF ByRank
<1>3. ASSUME NEW w \in 1..n PROVE \E v \in 1..n : p[v] = w
  <2>1. Rank(K, w) \in 1..n
    BY BelowSize
  <2>2. Rank(K, p[Rank(K, w)]) = Rank(K, w) /\ p[Rank(K, w)] \in 1..n
    BY <1>1, <2>1
  <2>3. QED
    BY <2>1, <2>2, RankBijective
<1>4. ASSUME NEW i \in 1..n, NEW j \in 1..n, i < j PROVE K[p[i]] <= K[p[j]]
  <2> SUFFICES ASSUME K[p[j]] < K[p[i]] PROVE FALSE
    BY <1>1
  <2>1. Before(K, p[j], p[i])
    BY DEF Before
  <2>2. Rank(K, p[j]) < Rank(K, p[i])
    BY <1>1, <2>1, RankMono
  <2>3. QED
    BY <1>1, <1>4, <2>2
<1>5. QED
  BY <1>2, <1>3, <1>4 DEF Reorderings

\* Every amount a server reports is a natural number
LEMMA KeyNat ==
    ASSUME NEW r \in ServerResource, NEW key \in Dims
    PROVE  r[key] \in Vals /\ r[key] \in Nat
<1>1. r[key] \in Vals
  BY DEF ServerResource, Dims
<1>2. QED
  BY <1>1, TenantZonesAssumption

LEMMA KeysNat ==
    ASSUME NEW s \in Seq(ServerResource), NEW key \in Dims
    PROVE  [i \in 1..Len(s) |-> s[i][key]] \in [1..Len(s) -> Vals]
BY KeyNat

(***************************************************************************)
(* The server findMinValue's sort puts first has the smallest amount of    *)
(* the key among the servers it is given.                                  *)
(***************************************************************************)
LEMMA SortFirstIsMin ==
    ASSUME NEW s \in Seq(ServerResource), s # << >>, NEW key \in Dims
    PROVE  LET v == SortArray(s, key)[1][key]
           IN  /\ \E i \in 1..Len(s) : v = s[i][key]
               /\ \A i \in 1..Len(s) : v <= s[i][key]
<1> DEFINE n == Len(s)
           K == [i \in 1..n |-> s[i][key]]
           Sorted(p) == \A i, j \in 1..n : i < j => s[p[i]][key] <= s[p[j]][key]
           Perm == CHOOSE p \in Reorderings(n) : Sorted(p)
<1>1. n \in Nat /\ 1 \in 1..n
  OBVIOUS
<1>2. K \in [1..n -> Nat]
  <2>1. K \in [1..n -> Vals]
    BY KeysNat
  <2>2. QED
    BY <2>1, TenantZonesAssumption
<1>3. ByRank(K) \in Reorderings(n) /\ Sorted(ByRank(K))
  <2>1. /\ ByRank(K) \in Reorderings(n)
        /\ \A i, j \in 1..n : i < j => K[ByRank(K)[i]] <= K[ByRank(K)[j]]
    BY <1>1, <1>2, ByRankSorts
  <2>2. ByRank(K) \in [1..n -> 1..n]
    BY <2>1 DEF Reorderings
  <2>3. QED
    BY <2>1, <2>2
<1>4. Perm \in Reorderings(n) /\ Sorted(Perm)
  BY <1>3
<1>5. SortArray(s, key)[1] = s[Perm[1]]
  BY <1>1 DEF SortArray
<1>6. Perm \in [1..n -> 1..n] /\ \A w \in 1..n : \E u \in 1..n : Perm[u] = w
  BY <1>4 DEF Reorderings
<1>7. ASSUME NEW i \in 1..n PROVE s[Perm[1]][key] <= s[i][key]
  <2>1. PICK u \in 1..n : Perm[u] = i
    BY <1>6
  <2>2. Perm[1] \in 1..n /\ Perm[u] \in 1..n
    BY <1>1, <1>6
  <2>3. s[Perm[1]][key] \in Nat /\ s[i][key] \in Nat
    BY <2>2, KeyNat
  <2>4. CASE u = 1
    BY <2>1, <2>3, <2>4
  <2>5. CASE u # 1
    <3>1. 1 < u
      BY <2>5
    <3>2. s[Perm[1]][key] <= s[Perm[u]][key]
      BY <1>1, <1>4, <3>1
    <3>3. QED
      BY <2>1, <3>2
  <2>6. QED
    BY <2>4, <2>5
<1>8. QED
  BY <1>1, <1>5, <1>6, <1>7

-----------------------------------------------------------------------------
(***************************************************************************)
(* findMinParameter computes the reference bound: for every set of zones   *)
(* and every list of servers, the filtered and sorted computation gives    *)
(* the per-dimension minimum over the servers of those zones, and fails    *)
(* exactly when none of them is in those zones.                            *)
(***************************************************************************)
LEMMA FindMinParameterIsRef ==
    ASSUME NEW zones, NEW rs \in Seq(ServerResource)
    PROVE  FindMinParameter(zones, rs) = RefBound(zones, rs)
<1> DEFINE sel == FilterZones(rs, zones)
           SelSet == {rs[i] : i \in {j \in DOMAIN rs : rs[j].obZone \in zones}}
           least(d) == CHOOSE v \in {r[d] : r \in SelSet} : \A r \in SelSet : v <= r[d]
<1>1. sel \in Seq(ServerResource) /\ Range(sel) = SelSet
  BY FilterRange DEF Selected
<1>2. sel = << >> <=> SelSet = {}
  <2>1. sel # << >> => sel[1] \in Range(sel)
    BY <1>1 DEF Range
  <2>2. sel = << >> => Range(sel) = {}
    BY DEF Range
  <2>3. QED
    BY <1>1, <2>1, <2>2
<1>3. CASE SelSet = {}
  BY <1>2, <1>3 DEF FindMinParameter, RefBound
<1>4. CASE SelSet # {}
  <2>1. ASSUME NEW key \in Dims PROVE FindMinValue(key, sel) = least(key)
    <3> DEFINE v0 == SortArray(sel, key)[1][key]
    <3>1. FindMinValue(key, sel) = v0
      BY <1>2, <1>4 DEF FindMinValue
    <3>2. /\ \E i \in 1..Len(sel) : v0 = sel[i][key]
          /\ \A i \in 1..Len(sel) : v0 <= sel[i][key]
      BY <1>1, <1>2, <1>4, SortFirstIsMin
    <3>3. v0 \in {r[key] : r \in SelSet} /\ \A r \in SelSet : v0 <= r[key]
      <4>1. PICK i \in 1..Len(sel) : v0 = sel[i][key]
        BY <3>2
      <4>2. sel[i] \in SelSet
        <5>1. sel[i] \in Range(sel)
          BY <1>1 DEF Range
        <5>2. QED
          BY <1>1, <5>1
      <4>3. ASSUME NEW r \in SelSet PROVE \E j \in 1..Len(sel) : r = sel[j]
        <5>1. r \in Range(sel)
          BY <1>1
        <5>2. QED
          BY <1>1, <5>1 DEF Range
      <4>4. QED
        BY <3>2, <4>1, <4>2, <4>3
    <3>4. least(key) \in {r[key] : r \in SelSet} /\ \A r \in SelSet : least(key) <= r[key]
      BY <3>3
    <3>5. \A r \in SelSet : r[key] \in Nat
      <4>1. SelSet \subseteq ServerResource
        OBVIOUS
      <4>2. QED
        BY <4>1, KeyNat
    <3>6. PICK r1 \in SelSet : v0 = r1[key]
      BY <3>3
    <3>7. PICK r2 \in SelSet : least(key) = r2[key]
      BY <3>4
    <3>8. least(key) <= v0 /\ v0 <= least(key)
      BY <3>3, <3>4, <3>6, <3>7
    <3>9. v0 \in Nat /\ least(key) \in Nat
      BY <3>5, <3>6, <3>7
    <3>10. v0 = least(key)
      <4> HIDE DEF v0, least
      <4> QED
        BY <3>8, <3>9
    <3>11. QED
      BY <3>1, <3>10
  <2>2. QED
    BY <1>2, <1>4, <2>1 DEF FindMinParameter, RefBound, Dims
<1>5. QED
  BY <1>3, <1>4

-----------------------------------------------------------------------------
(***************************************************************************)
(* The invariant behind both theorems: the list keeps its clusters, every  *)
(* value has its type, the servers are a list, and a bound on record is    *)
(* the one findMinParameter gives for the zones it was computed for.       *)
(***************************************************************************)
BoundComputed ==
    bound # Undef => bound = FindMinParameter(boundZones, resources)

ZInv ==
    /\ NamesKept
    /\ TypeOK
    /\ resources \in Seq(ServerResource)
    /\ BoundComputed

\* A bound is an error or a bound of every dimension by an amount of Vals
LEMMA FindMinParameterType ==
    ASSUME NEW zones, NEW rs \in Seq(ServerResource)
    PROVE  FindMinParameter(zones, rs) \in MaxResource \cup {Thrown}
<1> DEFINE sel == FilterZones(rs, zones)
<1>1. sel \in Seq(ServerResource)
  BY FilterRange
<1>2. ASSUME sel # << >>, NEW key \in Dims PROVE FindMinValue(key, sel) \in Vals
  <2> DEFINE v0 == SortArray(sel, key)[1][key]
  <2>1. FindMinValue(key, sel) = v0
    BY <1>2 DEF FindMinValue
  <2>2. PICK i \in 1..Len(sel) : v0 = sel[i][key]
    BY <1>1, <1>2, SortFirstIsMin
  <2>3. sel[i] \in ServerResource
    BY <1>1
  <2>4. QED
    BY <2>1, <2>2, <2>3, KeyNat
<1>3. QED
  BY <1>2 DEF FindMinParameter, MaxResource, Dims

\* A zone click keeps every topology a checked flag per zone of the cluster
LEMMA ClickKeepsTopology ==
    ASSUME NamesKept, TypeOK, NEW z \in Zones, NEW chk \in BOOLEAN, NEW t \in Targets,
           NEW c \in ClusterIds
    PROVE  GetNewClusterList(clusterList, z, chk, t)[c].topology
              \in [TopologyOf[c] -> BOOLEAN \cup {Undef}]
<1> DEFINE tp == clusterList[c].topology
           l2 == GetNewClusterList(clusterList, z, chk, t)
<1>1. tp \in [TopologyOf[c] -> BOOLEAN \cup {Undef}]
  BY DEF TypeOK
<1>2. clusterList[c] = [name |-> clusterList[c].name, topology |-> tp]
  BY DEF NamesKept
<1>3. CASE c = t.id \/ clusterList[c].name = t.name
  <2>1. l2[c] = [clusterList[c] EXCEPT !.topology =
                    [x \in DOMAIN tp |-> IF x = z THEN chk ELSE tp[x]]]
    BY <1>3 DEF GetNewClusterList, NamesKept
  <2>2. l2[c].topology = [x \in DOMAIN tp |-> IF x = z THEN chk ELSE tp[x]]
    BY <1>2, <2>1
  <2>3. QED
    BY <1>1, <2>2
<1>4. CASE ~(c = t.id \/ clusterList[c].name = t.name)
  BY <1>1, <1>4 DEF GetNewClusterList, NamesKept
<1>5. QED
  BY <1>3, <1>4

LEMMA ZInvInit == Init => ZInv
<1> SUFFICES ASSUME Init PROVE ZInv
  OBVIOUS
<1>1. NamesKept
  BY NamesKeptInit
<1>2. TypeOK
  <2>1. \A c \in ClusterIds :
           clusterList[c].topology \in [TopologyOf[c] -> BOOLEAN \cup {Undef}]
    BY DEF Init
  <2>2. DOMAIN clusterList = ClusterIds
    BY DEF Init
  <2>3. boundZones \in (SUBSET Zones) \cup {Undef} /\ bound \in MaxResource \cup {Thrown, Undef}
    BY DEF Init
  <2>4. QED
    BY <2>1, <2>2, <2>3 DEF TypeOK
<1>3. resources \in Seq(ServerResource)
  BY TenantZonesAssumption DEF Init
<1>4. BoundComputed
  BY DEF Init, BoundComputed
<1>5. QED
  BY <1>1, <1>2, <1>3, <1>4 DEF ZInv

LEMMA ZInvStep == ZInv /\ [Next]_vars => ZInv'
<1> SUFFICES ASSUME ZInv, [Next]_vars PROVE ZInv'
  OBVIOUS
<1>0. NamesKept'
  BY NamesKeptStep DEF ZInv
<1>1. ASSUME NEW z \in Zones, NEW chk \in BOOLEAN, NEW t \in Targets,
             ClickZone(z, chk, t)
      PROVE  ZInv'
  <2>1. clusterList' = GetNewClusterList(clusterList, z, chk, t)
    BY <1>1 DEF ClickZone
  <2>2. DOMAIN clusterList' = ClusterIds
    BY <2>1, GetNewClusterListShape DEF ZInv
  <2>3. \A c \in ClusterIds : clusterList'[c].topology \in [TopologyOf[c] -> BOOLEAN \cup {Undef}]
    BY <2>1, ClickKeepsTopology DEF ZInv
  <2>4. UNCHANGED <<resources, boundZones, bound>>
    BY <1>1 DEF ClickZone
  <2>5. QED
    BY <1>0, <2>2, <2>3, <2>4 DEF ZInv, TypeOK, BoundComputed
<1>2. ASSUME NEW c \in ClusterIds, ComputeBound(c) PROVE ZInv'
  <2>1. /\ boundZones' = CheckedZones(c)
        /\ bound' = FindMinParameter(CheckedZones(c), resources)
        /\ UNCHANGED <<clusterList, resources>>
    BY <1>2 DEF ComputeBound
  <2>2. CheckedZones(c) \in SUBSET Zones
    <3>1. DOMAIN clusterList[c].topology = TopologyOf[c]
      BY DEF ZInv, TypeOK
    <3>2. QED
      BY <3>1, TenantZonesAssumption DEF CheckedZones
  <2>3. bound' \in MaxResource \cup {Thrown}
    BY <2>1, FindMinParameterType DEF ZInv
  <2>4. QED
    BY <1>0, <2>1, <2>2, <2>3 DEF ZInv, TypeOK, BoundComputed
<1>3. CASE UNCHANGED vars
  BY <1>0, <1>3 DEF vars, ZInv, TypeOK, BoundComputed
<1>4. QED
  BY <1>1, <1>2, <1>3 DEF Next

(***************************************************************************)
(* For every value of the constants, the zone picker and the bound always  *)
(* have their types: every cluster keeps a checked flag per zone of its    *)
(* topology, and a bound is an error or an amount of Vals per dimension.   *)
(***************************************************************************)
THEOREM TypeCorrect == Spec => []TypeOK
<1>1. ZInv => TypeOK
  BY DEF ZInv
<1>2. QED
  BY <1>1, ZInvInit, ZInvStep, PTL DEF Spec

(***************************************************************************)
(* For every value of the constants and every list of servers, the bound   *)
(* findMinParameter gives the form is, per dimension, the smallest amount  *)
(* free on a server of the chosen zones, and choosing zones without a      *)
(* server fails: the filter-then-sort-then-first computation is right for  *)
(* lists of any length, ties included.                                     *)
(***************************************************************************)
THEOREM BoundTightestAlways == Spec => []BoundIsTightest
<1>1. ZInv => BoundIsTightest
  BY FindMinParameterIsRef DEF ZInv, BoundComputed, BoundIsTightest
<1>2. QED
  BY <1>1, ZInvInit, ZInvStep, PTL DEF Spec
=============================================================================
