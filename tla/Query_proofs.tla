---------------------------- MODULE Query_proofs ----------------------------
(***************************************************************************)
(* The query layer (src/query) besides its caches: find_call_path over any *)
(* call graph, with any number of searches at work; the pool of            *)
(* supervisors, whatever the languages, tasks and bounds; and paging, over *)
(* a graph that changes between the pages.                                 *)
(***************************************************************************)
EXTENDS CallPath, ServerPool, ResultPages, FiniteSetTheorems, SequenceTheorems, TLAPS

(***************************************************************************)
(* Induction over the naturals, for sets: of the intervals 1..n that are   *)
(* counterexamples one is smallest.                                        *)
(***************************************************************************)
LEMMA SetInduction ==
  ASSUME NEW S, 0 \in S, \A n \in Nat : n \in S => n + 1 \in S
  PROVE  Nat \subseteq S
<1> SUFFICES ASSUME NEW b \in Nat, b \notin S PROVE FALSE
  OBVIOUS
<1> DEFINE T == {1..n : n \in Nat \ S}
<1>1. \A n \in Nat : 1..n \in FiniteSubsetsOf(Nat)
  BY FS_Interval DEF FiniteSubsetsOf
<1>2. T \subseteq FiniteSubsetsOf(Nat) /\ T # {}
  BY <1>1
<1>3. PICK t \in T : \A y \in T : ~(<<y, t>> \in StrictSubsetOrdering(Nat))
  <2> HIDE DEF T
  <2> QED
    BY <1>2, FS_StrictSubsetOrderingWellFounded, WFMin
<1>4. PICK n \in Nat \ S : t = 1..n
  BY <1>3
<1>5. n # 0 /\ n - 1 \in Nat /\ n - 1 \notin S
  BY <1>4
<1>6. 1..(n - 1) \in T /\ 1..(n - 1) \subseteq 1..n /\ n \in 1..n /\ n \notin 1..(n - 1)
  BY <1>5
<1>7. <<1..(n - 1), 1..n>> \in StrictSubsetOrdering(Nat)
  BY <1>6 DEF StrictSubsetOrdering
<1> QED
  BY <1>3, <1>4, <1>6, <1>7

LEMMA StepInduction ==
  ASSUME NEW n \in Nat, NEW S, 0 \in S, \A k \in 0..(n - 1) : k \in S => k + 1 \in S
  PROVE  0..n \subseteq S
<1> DEFINE T == {k \in Nat : k <= n => k \in S}
<1>1. 0 \in T /\ \A k \in Nat : k \in T => k + 1 \in T
  OBVIOUS
<1>2. Nat \subseteq T
  <2> HIDE DEF T
  <2> QED
    BY <1>1, SetInduction
<1> QED
  BY <1>2

-----------------------------------------------------------------------------
(***************************************************************************)
(* ORDER BY: each of the rows at one place, and in order.                  *)
(***************************************************************************)
Behind(S, key, n) == Cardinality({m \in S : key[m] < key[n]})

\* Each place of F holds a row of S with as many rows before it, if S has one.
Sorts(F, S, key) ==
    /\ F = [i \in 1..Cardinality(S) |-> F[i]]
    /\ \A i \in 1..Cardinality(S) :
          (\E n \in S : Behind(S, key, n) = i - 1) => F[i] \in S /\ Behind(S, key, F[i]) = i - 1

IsKey(key, S) == \A m, n \in S : key[m] \in Nat /\ (key[m] = key[n] => m = n)

LEMMA SortedBy ==
  ASSUME NEW S, IsFiniteSet(S), NEW key, IsKey(key, S), NEW F, Sorts(F, S, key)
  PROVE  /\ Cardinality(S) \in Nat
         /\ F \in [1..Cardinality(S) -> S]
         /\ \A n \in S : \E i \in 1..Cardinality(S) : F[i] = n
         /\ \A i, j \in 1..Cardinality(S) : i < j => key[F[i]] < key[F[j]]
<1> DEFINE Below(n) == {m \in S : key[m] < key[n]}
           rank == [n \in S |-> Cardinality(Below(n))]
           size == Cardinality(S)
<1>0. (\A n \in S : key[n] \in Nat) /\ \A m, n \in S : key[m] = key[n] => m = n
  BY DEF IsKey
<1>1. size \in Nat
  BY FS_CardinalityType
<1>2. ASSUME NEW n \in S PROVE IsFiniteSet(Below(n)) /\ rank[n] \in Nat /\ rank[n] < size
  <2>1. Below(n) \in SUBSET S /\ n \notin Below(n)
    <3>1. ~(key[n] < key[n])
      BY <1>0
    <3> QED
      BY <3>1
  <2>2. /\ IsFiniteSet(Below(n)) /\ Cardinality(Below(n)) <= size
        /\ size = Cardinality(Below(n)) => S = Below(n)
    <3> HIDE DEF Below
    <3> QED
      BY <2>1, FS_Subset
  <2>3. Cardinality(Below(n)) \in Nat
    BY <2>2, FS_CardinalityType
  <2>4. S # Below(n)
    BY <2>1
  <2> HIDE DEF Below
  <2> QED
    BY <1>1, <2>2, <2>3, <2>4
<1>3. ASSUME NEW m \in S, NEW n \in S, key[m] < key[n] PROVE rank[m] < rank[n]
  <2>1. Below(m) \in SUBSET Below(n) /\ m \in Below(n) /\ m \notin Below(m)
    <3>1. key[m] \in Nat /\ key[n] \in Nat /\ ~(key[m] < key[m])
      BY <1>0
    <3>2. \A l \in S : key[l] < key[m] => key[l] < key[n]
      <4> SUFFICES ASSUME NEW l \in S, key[l] < key[m] PROVE key[l] < key[n]
        OBVIOUS
      <4>1. key[l] \in Nat
        BY <1>0
      <4> QED
        BY <1>3, <3>1, <4>1
    <3> QED
      BY <1>3, <3>1, <3>2
  <2>2. IsFiniteSet(Below(n))
    BY <1>2
  <2>3. /\ Cardinality(Below(m)) <= Cardinality(Below(n))
        /\ Cardinality(Below(n)) = Cardinality(Below(m)) => Below(n) = Below(m)
    <3> HIDE DEF Below
    <3> QED
      BY <2>1, <2>2, FS_Subset
  <2>4. Below(n) # Below(m)
    BY <2>1
  <2>5. rank[m] = Cardinality(Below(m)) /\ rank[n] = Cardinality(Below(n))
    OBVIOUS
  <2>6. rank[m] \in Nat /\ rank[n] \in Nat
    BY <1>2
  <2> HIDE DEF Below, rank
  <2> QED
    BY <2>3, <2>4, <2>5, <2>6
<1>4. ASSUME NEW m \in S, NEW n \in S, rank[m] = rank[n] PROVE m = n
  <2>1. key[m] \in Nat /\ key[n] \in Nat /\ rank[m] \in Nat
    BY <1>0, <1>2
  <2>2. ~(rank[m] < rank[n]) /\ ~(rank[n] < rank[m])
    BY <1>4, <2>1
  <2>3. ~(key[m] < key[n]) /\ ~(key[n] < key[m])
    BY <1>3, <2>2
  <2> QED
    BY <1>0, <2>1, <2>3
<1>5. ASSUME NEW i \in 1..size PROVE \E n \in S : rank[n] = i - 1
  <2> DEFINE f == [n \in S |-> rank[n] + 1]
  <2>1. \A n \in S : rank[n] \in Nat /\ rank[n] + 1 \in 1..size
    <3>1. \A n \in S : rank[n] \in Nat /\ rank[n] < size
      BY <1>2
    <3> HIDE DEF rank, size
    <3> QED
      BY <1>1, <3>1
  <2>2. f \in Injection(S, 1..size)
    <3>1. f \in [S -> 1..size]
      BY <2>1
    <3>2. \A m, n \in S : f[m] = f[n] => m = n
      <4> SUFFICES ASSUME NEW m \in S, NEW n \in S, f[m] = f[n] PROVE m = n
        OBVIOUS
      <4>1. rank[m] + 1 = rank[n] + 1 /\ rank[m] \in Nat /\ rank[n] \in Nat
        BY <2>1
      <4>2. rank[m] = rank[n]
        <5> HIDE DEF rank
        <5> QED
          BY <4>1
      <4> QED
        BY <1>4, <4>2
    <3> HIDE DEF f
    <3> QED
      BY <3>1, <3>2 DEF Injection, IsInjective
  <2>3. IsFiniteSet(1..size) /\ Cardinality(1..size) = size
    <3>1. 1 \in Int /\ size \in Int
      BY <1>1
    <3>2. IsFiniteSet(1..size) /\ Cardinality(1..size) = IF 1 > size THEN 0 ELSE size - 1 + 1
      <4> HIDE DEF size
      <4> QED
        BY <3>1, FS_Interval
    <3> HIDE DEF size
    <3> QED
      BY <1>1, <3>2
  <2>4. f \in Surjection(S, 1..size)
    <3> HIDE DEF f
    <3> QED
      BY <2>2, <2>3, FS_Injection
  <2>5. \E n \in S : f[n] = i
    <3> HIDE DEF f
    <3> QED
      BY <2>4 DEF Surjection
  <2>6. PICK n \in S : rank[n] + 1 = i
    BY <2>5
  <2>7. rank[n] \in Nat
    BY <2>1
  <2> HIDE DEF rank
  <2> QED
    BY <2>6, <2>7
<1>11. \A i \in 1..size : F[i] \in S /\ rank[F[i]] = i - 1
  BY <1>5 DEF Sorts, Behind
<1>6. F = [i \in 1..size |-> F[i]]
  BY DEF Sorts
<1> HIDE DEF rank, size
<1>8. F \in [1..size -> S]
  BY <1>6, <1>11
<1>9. ASSUME NEW n \in S PROVE \E i \in 1..size : F[i] = n
  <2>1. rank[n] + 1 \in 1..size /\ (rank[n] + 1) - 1 = rank[n]
    <3>1. rank[n] \in Nat /\ rank[n] < size
      BY <1>2
    <3> QED
      BY <1>1, <3>1
  <2>2. rank[F[rank[n] + 1]] = rank[n] /\ F[rank[n] + 1] \in S
    BY <1>11, <2>1
  <2> QED
    BY <1>4, <2>1, <2>2
<1>10. ASSUME NEW i \in 1..size, NEW j \in 1..size, i < j PROVE key[F[i]] < key[F[j]]
  <2> DEFINE a == F[i]
             b == F[j]
  <2>1. a \in S /\ b \in S /\ rank[a] = i - 1 /\ rank[b] = j - 1
    BY <1>11
  <2>2. ~(rank[b] < rank[a]) /\ rank[a] # rank[b]
    BY <1>1, <1>10, <2>1
  <2>3. ~(key[b] < key[a]) /\ key[a] # key[b] /\ key[a] \in Nat /\ key[b] \in Nat
    BY <1>0, <1>3, <2>1, <2>2
  <2> HIDE DEF a, b
  <2>4. key[a] < key[b]
    BY <2>3
  <2> QED
    BY <2>4 DEF a, b
<1> QED
  BY <1>1, <1>8, <1>9, <1>10 DEF size

LEMMA InOrderIs ==
  ASSUME NEW S \in SUBSET Nat, IsFiniteSet(S)
  PROVE  /\ Cardinality(S) \in Nat
         /\ InOrder(S) \in [1..Cardinality(S) -> S]
         /\ \A n \in S : \E i \in 1..Cardinality(S) : InOrder(S)[i] = n
         /\ \A i, j \in 1..Cardinality(S) : i < j => InOrder(S)[i] < InOrder(S)[j]
<1> DEFINE key == [n \in S |-> n]
           Place(i) == CHOOSE n \in S : Cardinality({m \in S : m < n}) = i - 1
<1>1. InOrder(S) = [i \in 1..Cardinality(S) |-> Place(i)]
  BY DEF InOrder
<1>2. ASSUME NEW n \in S PROVE Behind(S, key, n) = Cardinality({m \in S : m < n})
  <2>1. {m \in S : key[m] < key[n]} = {m \in S : m < n}
    OBVIOUS
  <2> QED
    BY <2>1 DEF Behind
<1>3. ASSUME NEW i \in 1..Cardinality(S), \E n \in S : Behind(S, key, n) = i - 1
      PROVE  Place(i) \in S /\ Behind(S, key, Place(i)) = i - 1
  <2>1. \E n \in S : Cardinality({m \in S : m < n}) = i - 1
    BY <1>2, <1>3
  <2>2. Place(i) \in S /\ Cardinality({m \in S : m < Place(i)}) = i - 1
    BY <2>1
  <2> QED
    BY <1>2, <2>2
<1>4. Sorts(InOrder(S), S, key)
  <2> HIDE DEF key, Place
  <2> QED
    BY <1>1, <1>3 DEF Sorts
<1>5. \A n \in S : key[n] = n /\ key[n] \in Nat
  OBVIOUS
<1> HIDE DEF key, Place
<1>6. IsKey(key, S)
  BY <1>5 DEF IsKey
<1> DEFINE F == InOrder(S)
<1>7. /\ Cardinality(S) \in Nat /\ F \in [1..Cardinality(S) -> S]
      /\ \A n \in S : \E i \in 1..Cardinality(S) : F[i] = n
      /\ \A i, j \in 1..Cardinality(S) : i < j => key[F[i]] < key[F[j]]
  <2>1. Sorts(F, S, key)
    BY <1>4
  <2> HIDE DEF F
  <2> QED
    BY <1>6, <2>1, SortedBy
<1>8. \A i \in 1..Cardinality(S) : key[F[i]] = F[i]
  <2> HIDE DEF F
  <2> QED
    BY <1>5, <1>7
<1> QED
  BY <1>7, <1>8

-----------------------------------------------------------------------------
(***************************************************************************)
(* Reachability, over a set C of calls.                                    *)
(***************************************************************************)
Calls == SUBSET (Nodes \X Nodes)
Called(C, n) == {d \in Nodes : <<n, d>> \in C}
Onward(C, S) == S \cup UNION {Called(C, n) : n \in S}

Reach(C, from, k) ==
    LET reach[i \in 0..k] == IF i = 0 THEN {from} ELSE Onward(C, reach[i - 1])
    IN reach[k]

LEMMA WithinIs ==
  ASSUME NEW from, NEW k
  PROVE  Within(from, k) = Reach(calls, from, k)
  BY DEF Within, Reach, Onward, Called, Callees

Unrolled(C, from, k, f) == f = [i \in 0..k |-> IF i = 0 THEN {from} ELSE Onward(C, f[i - 1])]

LEMMA ReachFunction ==
  ASSUME NEW C, NEW from, NEW k \in Nat
  PROVE  \E f : Unrolled(C, from, k, f) /\ Reach(C, from, k) = f[k]
<1> DEFINE S == {m \in Nat : \E g : g = [i \in 0..m |-> IF i = 0 THEN {from} ELSE Onward(C, g[i - 1])]}
<1>1. 0 \in S
  <2>1. [i \in 0..0 |-> {from}]
          = [i \in 0..0 |-> IF i = 0 THEN {from} ELSE Onward(C, [j \in 0..0 |-> {from}][i - 1])]
    OBVIOUS
  <2> QED
    BY <2>1
<1>2. ASSUME NEW m \in Nat, m \in S PROVE m + 1 \in S
  <2>1. PICK g : g = [i \in 0..m |-> IF i = 0 THEN {from} ELSE Onward(C, g[i - 1])]
    BY <1>2
  <2> DEFINE h == [i \in 0..(m + 1) |-> IF i = m + 1 THEN Onward(C, g[m]) ELSE g[i]]
  <2>2. ASSUME NEW i \in 0..(m + 1)
        PROVE  h[i] = IF i = 0 THEN {from} ELSE Onward(C, h[i - 1])
    <3>1. CASE i = 0
      BY <2>1, <3>1
    <3>2. CASE i = m + 1
      BY <3>2
    <3>3. CASE i # 0 /\ i # m + 1
      <4>1. i \in 0..m /\ i - 1 \in 0..m /\ i - 1 # m + 1
        BY <3>3
      <4>2. g[i] = Onward(C, g[i - 1])
        BY <2>1, <3>3, <4>1
      <4> QED
        BY <3>3, <4>1, <4>2
    <3> QED
      BY <3>1, <3>2, <3>3
  <2>3. h = [i \in 0..(m + 1) |-> IF i = 0 THEN {from} ELSE Onward(C, h[i - 1])]
    <3> HIDE DEF h
    <3>1. h = [i \in 0..(m + 1) |-> h[i]]
      BY DEF h
    <3> QED
      BY <2>2, <3>1
  <2>4. \E f : f = [i \in 0..(m + 1) |-> IF i = 0 THEN {from} ELSE Onward(C, f[i - 1])]
    BY <2>3
  <2> QED
    BY <2>4
<1>3. k \in S
  <2> HIDE DEF S
  <2> QED
    BY <1>1, <1>2, SetInduction
<1>4. PICK g : g = [i \in 0..k |-> IF i = 0 THEN {from} ELSE Onward(C, g[i - 1])]
  BY <1>3
<1> DEFINE f == CHOOSE f : f = [i \in 0..k |-> IF i = 0 THEN {from} ELSE Onward(C, f[i - 1])]
<1>5. f = [i \in 0..k |-> IF i = 0 THEN {from} ELSE Onward(C, f[i - 1])]
  BY <1>4
<1>6. Reach(C, from, k) = f[k]
  BY DEF Reach
<1>7. Unrolled(C, from, k, f)
  BY <1>5 DEF Unrolled
<1> HIDE DEF f
<1> QED
  BY <1>6, <1>7

\* Functions that go on in the same way agree where both are defined.
LEMMA ReachSteps ==
  ASSUME NEW C, NEW from
  PROVE  /\ Reach(C, from, 0) = {from}
         /\ \A k \in Nat : Reach(C, from, k + 1) = Onward(C, Reach(C, from, k))
<1>1. Reach(C, from, 0) = {from}
  <2>1. PICK f : Unrolled(C, from, 0, f) /\ Reach(C, from, 0) = f[0]
    BY ReachFunction
  <2> QED
    BY <2>1 DEF Unrolled
<1>2. ASSUME NEW k \in Nat PROVE Reach(C, from, k + 1) = Onward(C, Reach(C, from, k))
  <2>1. PICK f : Unrolled(C, from, k, f) /\ Reach(C, from, k) = f[k]
    BY ReachFunction
  <2>2. PICK g : Unrolled(C, from, k + 1, g) /\ Reach(C, from, k + 1) = g[k + 1]
    BY ReachFunction
  <2> DEFINE S == {i \in 0..k : f[i] = g[i]}
  <2>3. 0 \in S
    BY <2>1, <2>2 DEF Unrolled
  <2>4. ASSUME NEW i \in 0..(k - 1), i \in S PROVE i + 1 \in S
    <3>1. i + 1 \in 0..k /\ i + 1 \in 0..(k + 1) /\ i + 1 # 0 /\ (i + 1) - 1 = i
      OBVIOUS
    <3>2. f[i + 1] = Onward(C, f[i])
      BY <2>1, <3>1 DEF Unrolled
    <3>3. g[i + 1] = Onward(C, g[i])
      BY <2>2, <3>1 DEF Unrolled
    <3>4. f[i] = g[i]
      BY <2>4
    <3> QED
      BY <3>1, <3>2, <3>3, <3>4
  <2>5. 0..k \subseteq S
    <3> HIDE DEF S
    <3> QED
      BY <2>3, <2>4, StepInduction
  <2>6. f[k] = g[k]
    BY <2>5
  <2>7. k + 1 \in 0..(k + 1) /\ k + 1 # 0 /\ (k + 1) - 1 = k
    OBVIOUS
  <2>8. g[k + 1] = Onward(C, g[k])
    BY <2>2, <2>7 DEF Unrolled
  <2> QED
    BY <2>1, <2>2, <2>6, <2>8
<1> QED
  BY <1>1, <1>2

\* With one more call one gets further, if anywhere.
LEMMA ReachGrows ==
  ASSUME NEW C, NEW from, NEW j \in Nat, NEW k \in Nat, j <= k
  PROVE  Reach(C, from, j) \subseteq Reach(C, from, k)
<1> DEFINE S == {i \in Nat : Reach(C, from, j) \subseteq Reach(C, from, j + i)}
<1>1. 0 \in S
  OBVIOUS
<1>2. ASSUME NEW i \in Nat, i \in S PROVE i + 1 \in S
  <2>1. j + i \in Nat /\ (j + i) + 1 = j + (i + 1)
    OBVIOUS
  <2>4. Reach(C, from, (j + i) + 1) = Onward(C, Reach(C, from, j + i))
    <3>1. \A l \in Nat : Reach(C, from, l + 1) = Onward(C, Reach(C, from, l))
      BY ReachSteps
    <3> HIDE DEF S
    <3> QED
      BY <2>1, <3>1
  <2>2. Reach(C, from, j + (i + 1)) = Onward(C, Reach(C, from, j + i))
    BY <2>1, <2>4
  <2>3. Reach(C, from, j + i) \subseteq Reach(C, from, j + (i + 1))
    BY <2>2 DEF Onward
  <2> QED
    BY <1>2, <2>3
<1>3. Nat \subseteq S
  <2> HIDE DEF S
  <2> QED
    BY <1>1, <1>2, SetInduction
<1>4. k - j \in S /\ j + (k - j) = k
  BY <1>3
<1> QED
  BY <1>4

\* What a set holds that is closed up to the depth.
LEMMA ClosedHoldsReach ==
  ASSUME NEW C, NEW from, NEW depth \in Nat, NEW V, from \in V,
         \A k \in 0..(depth - 1) : \A n \in Reach(C, from, k) : n \in V => Called(C, n) \subseteq V
  PROVE  Reach(C, from, depth) \subseteq V
<1> DEFINE S == {k \in 0..depth : Reach(C, from, k) \subseteq V}
<1>1. 0 \in S
  BY ReachSteps
<1>2. ASSUME NEW k \in 0..(depth - 1), k \in S PROVE k + 1 \in S
  <2>1. Reach(C, from, k + 1) = Onward(C, Reach(C, from, k))
    BY ReachSteps
  <2>2. Reach(C, from, k) \subseteq V
    BY <1>2
  <2>3. \A n \in Reach(C, from, k) : Called(C, n) \subseteq V
    BY <2>2
  <2> QED
    BY <2>1, <2>2, <2>3 DEF Onward
<1>3. 0..depth \subseteq S
  <2> HIDE DEF S
  <2> QED
    BY <1>1, <1>2, StepInduction
<1> QED
  BY <1>3

(***************************************************************************)
(* Ways: paths along the calls.                                            *)
(***************************************************************************)
Way(C, from, p) ==
    /\ p \in Seq(Nodes) /\ p # <<>> /\ p[1] = from
    /\ \A i \in 1..(Len(p) - 1) : <<p[i], p[i + 1]>> \in C

LEMMA WayLeads ==
  ASSUME NEW C, NEW from, NEW p, Way(C, from, p)
  PROVE  /\ Len(p) \in Nat \ {0} /\ p[Len(p)] \in Nodes
         /\ p[Len(p)] \in Reach(C, from, Len(p) - 1)
<1>1. Len(p) \in Nat \ {0} /\ p \in [1..Len(p) -> Nodes]
  BY DEF Way
<1> DEFINE S == {k \in 0..(Len(p) - 1) : p[k + 1] \in Reach(C, from, k)}
<1>2. 0 \in S
  BY <1>1, ReachSteps DEF Way
<1>3. ASSUME NEW k \in 0..(Len(p) - 1 - 1), k \in S PROVE k + 1 \in S
  <2>1. k + 1 \in 1..(Len(p) - 1) /\ k + 1 \in 1..Len(p) /\ (k + 1) + 1 \in 1..Len(p)
    BY <1>1
  <2>2. <<p[k + 1], p[(k + 1) + 1]>> \in C /\ p[(k + 1) + 1] \in Nodes
    BY <1>1, <2>1 DEF Way
  <2>3. p[(k + 1) + 1] \in Onward(C, Reach(C, from, k))
    BY <1>3, <2>2 DEF Onward, Called
  <2>4. Reach(C, from, k + 1) = Onward(C, Reach(C, from, k))
    <3>1. \A l \in Nat : Reach(C, from, l + 1) = Onward(C, Reach(C, from, l))
      BY ReachSteps
    <3>2. k \in Nat
      OBVIOUS
    <3> HIDE DEF S
    <3> QED
      BY <3>1, <3>2
  <2> QED
    BY <1>1, <2>1, <2>3, <2>4
<1>4. 0..(Len(p) - 1) \subseteq S
  <2>1. Len(p) - 1 \in Nat
    BY <1>1
  <2> HIDE DEF S
  <2> QED
    BY <1>2, <1>3, <2>1, StepInduction
<1>5. Len(p) - 1 \in S /\ (Len(p) - 1) + 1 = Len(p) /\ Len(p) \in 1..Len(p)
  BY <1>1, <1>4
<1> QED
  BY <1>1, <1>5

LEMMA WayLengthens ==
  ASSUME NEW C, NEW from, NEW p, Way(C, from, p), NEW n \in Nodes, <<p[Len(p)], n>> \in C
  PROVE  /\ Way(C, from, Append(p, n)) /\ Len(Append(p, n)) = Len(p) + 1
         /\ Append(p, n)[Len(p) + 1] = n
<1>1. p \in Seq(Nodes) /\ Len(p) \in Nat \ {0}
  BY DEF Way
<1>2. /\ Append(p, n) \in Seq(Nodes) /\ Len(Append(p, n)) = Len(p) + 1
      /\ \A i \in 1..Len(p) : Append(p, n)[i] = p[i]
      /\ Append(p, n)[Len(p) + 1] = n
  BY <1>1
<1>3. ASSUME NEW i \in 1..Len(p) PROVE <<Append(p, n)[i], Append(p, n)[i + 1]>> \in C
  <2>1. CASE i = Len(p)
    BY <1>1, <1>2, <2>1
  <2>2. CASE i # Len(p)
    <3>1. i \in 1..(Len(p) - 1) /\ i + 1 \in 1..Len(p)
      BY <1>1, <2>2
    <3>2. <<p[i], p[i + 1]>> \in C
      BY <3>1 DEF Way
    <3> QED
      BY <1>2, <3>1, <3>2
  <2> QED
    BY <2>1, <2>2
<1>4. Append(p, n)[1] = from /\ Append(p, n) # <<>>
  BY <1>1, <1>2 DEF Way
<1>5. (Len(p) + 1) - 1 = Len(p)
  BY <1>1
<1> QED
  BY <1>2, <1>3, <1>4, <1>5 DEF Way

-----------------------------------------------------------------------------
(***************************************************************************)
(* A search, over the calls C, if it is clean and not short: every node it *)
(* has visited is closed, or waits in the queue, or is at work, or is too  *)
(* far; the queue is in the order of distance, and whoever is nearer than  *)
(* the node at work has been visited.                                      *)
(***************************************************************************)
Busy == {"check", "drop", "ask", "write", "fail", "read"}
Question == [from : Nodes, to : Nodes, depth : Nat \ {0}, budget : Nat, client : BOOLEAN]
Search == [pc : Busy \cup {"next", "done"}, asked : Question, budget : Nat, queue : Seq(Seq(Nodes)),
           path : Seq(Nodes), visited : SUBSET Nodes, todo : SUBSET Nodes, found : BOOLEAN,
           limit : BOOLEAN, late : BOOLEAN, short : BOOLEAN, clean : BOOLEAN]

End(p) == p[Len(p)]

Typed(r) ==
    /\ r \in Search /\ r.path # <<>> /\ \A i \in 1..Len(r.queue) : r.queue[i] # <<>>
    /\ r.short => r.limit

Fits(C, r, p) ==
    /\ Way(C, r.asked.from, p) /\ End(p) \in r.visited
    /\ Len(p) > 1 => End(p) \notin Reach(C, r.asked.from, Len(p) - 2)

Closed(C, r, n) == Called(C, n) \subseteq r.visited
Pending(r, n) == \E i \in 1..Len(r.queue) : End(r.queue[i]) = n
AtWork(r, n) == r.pc \in Busy /\ End(r.path) = n
TooFar(C, r, n) == r.limit /\ n \notin Reach(C, r.asked.from, r.asked.depth - 1)

QueueFits(C, r) == \A i \in 1..Len(r.queue) : Fits(C, r, r.queue[i])
QueueInOrder(r) ==
    \A i, j \in 1..Len(r.queue) :
       i < j => Len(r.queue[i]) <= Len(r.queue[j]) /\ Len(r.queue[j]) <= Len(r.queue[i]) + 1
NothingForgotten(C, r) ==
    \A n \in r.visited : Closed(C, r, n) \/ Pending(r, n) \/ AtWork(r, n) \/ TooFar(C, r, n)
NearerVisited(C, r, p) == Reach(C, r.asked.from, Len(p) - 1) \subseteq r.visited
WorkFits(C, r) ==
    r.pc \in Busy =>
       /\ Fits(C, r, r.path) /\ Len(r.path) <= r.asked.depth /\ NearerVisited(C, r, r.path)
       /\ \A i \in 1..Len(r.queue) : Len(r.queue[i]) \in {Len(r.path), Len(r.path) + 1}
HeadFits(C, r) ==
    r.pc = "next" /\ r.queue # <<>> /\ Len(r.queue[1]) <= r.asked.depth => NearerVisited(C, r, r.queue[1])

Searching(C, r) ==
    /\ r.asked.from \in r.visited /\ r.asked.to \notin r.visited /\ ~r.found
    /\ QueueFits(C, r) /\ QueueInOrder(r) /\ NothingForgotten(C, r) /\ WorkFits(C, r) /\ HeadFits(C, r)

SearchEnded(C, r) ==
    IF r.found
    THEN /\ Way(C, r.asked.from, r.path) /\ End(r.path) = r.asked.to /\ Len(r.path) <= r.asked.depth + 1
         /\ Len(r.path) > 1 => r.asked.to \notin Reach(C, r.asked.from, Len(r.path) - 2)
    ELSE /\ r.asked.to \notin Reach(C, r.asked.from, r.asked.depth)
         /\ ~r.limit => r.asked.to \notin Reach(C, r.asked.from, N)

Holds(C, r) == r.clean /\ ~r.short => IF r.pc = "done" THEN SearchEnded(C, r) ELSE Searching(C, r)

\* Begin
LEMMA BeginHolds ==
  ASSUME NEW C, NEW r, Typed(r), r.pc = IF r.asked.from = r.asked.to THEN "done" ELSE "next",
         r.queue = <<<<r.asked.from>>>>, r.path = <<r.asked.from>>, r.visited = {r.asked.from},
         r.found = (r.asked.from = r.asked.to)
  PROVE  Holds(C, r)
<1>1. r.asked.from \in Nodes /\ r.asked.depth \in Nat \ {0}
  BY DEF Typed, Search, Question
<1> DEFINE p == <<r.asked.from>>
<1>2. Way(C, r.asked.from, p) /\ Len(p) = 1 /\ End(p) = r.asked.from
  BY <1>1 DEF Way, End
<1>3. CASE r.asked.from = r.asked.to
  <2>1. SearchEnded(C, r)
    <3>1. r.found
      BY <1>3
    <3>2. r.path = p /\ Len(p) <= r.asked.depth + 1 /\ ~(Len(p) > 1)
      BY <1>1
    <3> HIDE DEF p
    <3> QED
      BY <1>2, <1>3, <3>1, <3>2 DEF SearchEnded
  <2> QED
    BY <1>3, <2>1 DEF Holds
<1>4. CASE r.asked.from # r.asked.to
  <2>1. Len(r.queue) = 1 /\ r.queue[1] = p /\ 1..Len(r.queue) = {1}
    OBVIOUS
  <2>2. r.pc = "next" /\ ~r.found
    BY <1>4
  <2> HIDE DEF p
  <2>3. QueueFits(C, r)
    <3>1. ~(Len(p) > 1) /\ End(p) \in r.visited
      BY <1>2
    <3>2. Fits(C, r, p)
      BY <1>2, <3>1 DEF Fits
    <3> QED
      BY <2>1, <3>2 DEF QueueFits
  <2>4. QueueInOrder(r)
    BY <2>1 DEF QueueInOrder
  <2>5. NothingForgotten(C, r)
    BY <1>2, <2>1 DEF NothingForgotten, Pending
  <2>6. WorkFits(C, r)
    BY <2>2 DEF WorkFits, Busy
  <2>7. HeadFits(C, r)
    <3>1. Reach(C, r.asked.from, 0) = {r.asked.from}
      BY ReachSteps
    <3> QED
      BY <1>2, <2>1, <3>1 DEF HeadFits, NearerVisited
  <2>8. Searching(C, r)
    BY <1>4, <2>2, <2>3, <2>4, <2>5, <2>6, <2>7 DEF Searching
  <2> QED
    BY <2>2, <2>8 DEF Holds
<1> QED
  BY <1>3, <1>4

\* The awaits between taking a node and reading it.
LEMMA WorkGoesOn ==
  ASSUME NEW C, NEW r, NEW n, Holds(C, r), r.pc \in Busy, n.pc \in Busy, n.clean = r.clean,
         r.short => n.short, n.short \/ n.limit = r.limit,
         n.asked = r.asked, n.queue = r.queue, n.path = r.path, n.visited = r.visited, n.found = r.found
  PROVE  Holds(C, n)
<1>1. CASE r.clean /\ ~n.short
  <2>1. r.pc # "done" /\ n.pc # "done" /\ r.pc # "next" /\ n.pc # "next"
    BY DEF Busy
  <2>2. Searching(C, r) /\ n.limit = r.limit
    BY <1>1, <2>1 DEF Holds
  <2>3. QueueFits(C, n) /\ QueueInOrder(n) /\ HeadFits(C, n)
    BY <2>1, <2>2 DEF Searching, QueueFits, Fits, QueueInOrder, HeadFits
  <2>4. NothingForgotten(C, n)
    BY <2>2 DEF Searching, NothingForgotten, Closed, Pending, AtWork, TooFar
  <2>5. WorkFits(C, n)
    BY <2>2 DEF Searching, WorkFits, Fits, NearerVisited
  <2>6. Searching(C, n)
    BY <2>2, <2>3, <2>4, <2>5 DEF Searching
  <2> QED
    BY <2>1, <2>6 DEF Holds
<1>2. CASE ~r.clean \/ n.short
  BY <1>2 DEF Holds
<1> QED
  BY <1>1, <1>2

\* NextNode
LEMMA NextNodeHolds ==
  ASSUME NEW C, NEW r, NEW n, Typed(r), Holds(C, r), r.pc = "next", r.queue # <<>>,
         n.queue = Tail(r.queue), n.path = Head(r.queue),
         n.pc = IF Len(n.path) > r.asked.depth THEN "next" ELSE "check",
         n.limit = (r.limit \/ Len(n.path) > r.asked.depth),
         n.asked = r.asked, n.visited = r.visited, n.found = r.found, n.short = r.short, n.clean = r.clean
  PROVE  Holds(C, n)
<1> SUFFICES ASSUME r.clean, ~r.short PROVE Holds(C, n)
  BY DEF Holds
<1>1. Searching(C, r)
  BY DEF Holds
<1>2. /\ r.queue \in Seq(Seq(Nodes)) /\ r.asked.depth \in Nat \ {0} /\ r.limit \in BOOLEAN
      /\ r.visited \subseteq Nodes
  BY DEF Typed, Search, Question
<1>3. /\ Len(r.queue) \in Nat \ {0} /\ Len(n.queue) = Len(r.queue) - 1
      /\ n.path = r.queue[1] /\ \A i \in 1..Len(n.queue) : n.queue[i] = r.queue[i + 1]
      /\ \A i \in 1..Len(n.queue) : i + 1 \in 1..Len(r.queue)
  BY <1>2
<1>4. \A i \in 1..Len(r.queue) : Fits(C, r, r.queue[i]) /\ Fits(C, n, r.queue[i])
  BY <1>1 DEF Searching, QueueFits, Fits
<1>5. \A i \in 1..Len(r.queue) : Len(r.queue[i]) \in Nat \ {0}
  BY <1>2 DEF Typed
<1>6. QueueFits(C, n)
  BY <1>3, <1>4 DEF QueueFits
<1>7. QueueInOrder(n)
  <2> SUFFICES ASSUME NEW i \in 1..Len(n.queue), NEW j \in 1..Len(n.queue), i < j
               PROVE  Len(n.queue[i]) <= Len(n.queue[j]) /\ Len(n.queue[j]) <= Len(n.queue[i]) + 1
    BY DEF QueueInOrder
  <2>1. i + 1 \in 1..Len(r.queue) /\ j + 1 \in 1..Len(r.queue) /\ i + 1 < j + 1
    BY <1>3
  <2>2. /\ Len(r.queue[i + 1]) <= Len(r.queue[j + 1])
        /\ Len(r.queue[j + 1]) <= Len(r.queue[i + 1]) + 1
    BY <1>1, <2>1 DEF Searching, QueueInOrder
  <2> QED
    BY <1>3, <2>2
<1>8. \A i \in 1..Len(n.queue) : Len(n.queue[i]) \in {Len(n.path), Len(n.path) + 1}
  <2> SUFFICES ASSUME NEW i \in 1..Len(n.queue)
               PROVE  Len(n.queue[i]) \in {Len(n.path), Len(n.path) + 1}
    OBVIOUS
  <2>1. 1 \in 1..Len(r.queue) /\ i + 1 \in 1..Len(r.queue) /\ 1 < i + 1
    BY <1>3
  <2>2. Len(r.queue[1]) <= Len(r.queue[i + 1]) /\ Len(r.queue[i + 1]) <= Len(r.queue[1]) + 1
    BY <1>1, <2>1 DEF Searching, QueueInOrder
  <2>3. Len(r.queue[1]) \in Nat /\ Len(r.queue[i + 1]) \in Nat
    BY <1>5, <2>1
  <2> QED
    BY <1>3, <2>2, <2>3
<1>9. Fits(C, n, n.path) /\ Len(n.path) \in Nat \ {0} /\ 1 \in 1..Len(r.queue)
  BY <1>3, <1>4, <1>5
<1>10. \A m \in n.visited : \/ Closed(C, n, m) \/ Pending(n, m) \/ TooFar(C, n, m)
                            \/ End(n.path) = m
  <2> SUFFICES ASSUME NEW m \in r.visited, End(n.path) # m
               PROVE  Closed(C, n, m) \/ Pending(n, m) \/ TooFar(C, n, m)
    OBVIOUS
  <2>1. ~AtWork(r, m)
    BY DEF AtWork, Busy
  <2>2. CASE Closed(C, r, m)
    BY <2>2 DEF Closed
  <2>3. CASE TooFar(C, r, m)
    BY <2>3 DEF TooFar
  <2>4. CASE Pending(r, m)
    <3>1. PICK i \in 1..Len(r.queue) : End(r.queue[i]) = m
      BY <2>4 DEF Pending
    <3>2. i # 1
      BY <1>3, <3>1
    <3>3. i - 1 \in 1..Len(n.queue) /\ (i - 1) + 1 = i
      BY <1>3, <3>2
    <3>4. n.queue[i - 1] = r.queue[i]
      BY <1>3, <3>3
    <3> QED
      BY <3>1, <3>3, <3>4 DEF Pending
  <2> QED
    BY <1>1, <2>1, <2>2, <2>3, <2>4 DEF Searching, NothingForgotten
<1>11. CASE Len(n.path) > r.asked.depth
  <2>1. n.pc = "next" /\ n.limit
    BY <1>11
  <2>2. End(n.path) \notin Reach(C, n.asked.from, n.asked.depth - 1)
    <3>1. Len(n.path) > 1 /\ Len(n.path) - 2 \in Nat /\ r.asked.depth - 1 \in Nat
          /\ r.asked.depth - 1 <= Len(n.path) - 2
      BY <1>2, <1>9, <1>11
    <3>2. End(n.path) \notin Reach(C, n.asked.from, Len(n.path) - 2)
      BY <1>9, <3>1 DEF Fits
    <3>3. Reach(C, n.asked.from, r.asked.depth - 1) \subseteq Reach(C, n.asked.from, Len(n.path) - 2)
      BY <3>1, ReachGrows
    <3> QED
      BY <3>2, <3>3
  <2>3. NothingForgotten(C, n)
    BY <1>10, <2>1, <2>2 DEF NothingForgotten, TooFar
  <2>4. WorkFits(C, n)
    BY <2>1 DEF WorkFits, Busy
  <2>5. HeadFits(C, n)
    <3> SUFFICES ASSUME n.queue # <<>> PROVE ~(Len(n.queue[1]) <= n.asked.depth)
      BY DEF HeadFits
    <3>1. 1 \in 1..Len(n.queue)
      BY <1>2, <1>3
    <3>2. Len(n.queue[1]) \in {Len(n.path), Len(n.path) + 1}
      BY <1>8, <3>1
    <3>3. Len(n.path) \in Nat /\ n.asked.depth \in Nat /\ Len(n.path) > n.asked.depth
      BY <1>2, <1>9, <1>11
    <3>4. \A a, d \in Nat : \A b \in {a, a + 1} : a > d => ~(b <= d)
      OBVIOUS
    <3> QED
      BY <3>2, <3>3, <3>4
  <2>6. Searching(C, n)
    BY <1>1, <1>6, <1>7, <2>3, <2>4, <2>5 DEF Searching
  <2> QED
    BY <2>1, <2>6 DEF Holds
<1>12. CASE ~(Len(n.path) > r.asked.depth)
  <2>1. n.pc = "check" /\ n.pc \in Busy /\ Len(n.path) <= n.asked.depth
    BY <1>2, <1>9, <1>12 DEF Busy
  <2>2. NothingForgotten(C, n)
    BY <1>10, <2>1 DEF NothingForgotten, AtWork
  <2>3. NearerVisited(C, n, n.path)
    BY <1>1, <1>3, <2>1 DEF Searching, HeadFits, NearerVisited
  <2>4. WorkFits(C, n)
    BY <1>8, <1>9, <2>1, <2>3 DEF WorkFits
  <2>5. HeadFits(C, n)
    BY <2>1 DEF HeadFits
  <2>6. Searching(C, n)
    BY <1>1, <1>6, <1>7, <2>2, <2>4, <2>5 DEF Searching
  <2> QED
    BY <2>1, <2>6 DEF Holds
<1> QED
  BY <1>11, <1>12

\* NotFound
LEMMA NotFoundHolds ==
  ASSUME NEW C, NEW r, NEW n, N \in Nat, Typed(r), Holds(C, r), r.pc = "next", r.queue = <<>>,
         n.pc = "done", n.limit = r.limit, n.asked = r.asked, n.found = r.found,
         n.short = r.short, n.clean = r.clean
  PROVE  Holds(C, n)
<1> SUFFICES ASSUME r.clean, ~r.short PROVE Holds(C, n)
  BY DEF Holds
<1>1. Searching(C, r)
  BY DEF Holds
<1>2. r.asked.depth \in Nat \ {0}
  BY DEF Typed, Search, Question
<1>3. \A m \in r.visited : Closed(C, r, m) \/ TooFar(C, r, m)
  <2>1. ~(r.pc \in Busy) /\ Len(r.queue) = 0
    BY DEF Busy
  <2>2. \A m : ~Pending(r, m) /\ ~AtWork(r, m)
    BY <2>1 DEF Pending, AtWork
  <2> QED
    BY <1>1, <2>2 DEF Searching, NothingForgotten
<1>4. Reach(C, r.asked.from, r.asked.depth) \subseteq r.visited
  <2>1. ASSUME NEW k \in 0..(r.asked.depth - 1), NEW m \in Reach(C, r.asked.from, k), m \in r.visited
        PROVE  Called(C, m) \subseteq r.visited
    <3>1. k \in Nat /\ r.asked.depth - 1 \in Nat /\ k <= r.asked.depth - 1
      BY <1>2
    <3>2. Reach(C, r.asked.from, k) \subseteq Reach(C, r.asked.from, r.asked.depth - 1)
      BY <3>1, ReachGrows
    <3>3. ~TooFar(C, r, m)
      BY <3>2 DEF TooFar
    <3> QED
      BY <1>3, <2>1, <3>3 DEF Closed
  <2>2. r.asked.from \in r.visited
    BY <1>1 DEF Searching
  <2> QED
    BY <1>2, <2>1, <2>2, ClosedHoldsReach
<1>5. ASSUME ~r.limit PROVE Reach(C, r.asked.from, N) \subseteq r.visited
  <2>1. \A m \in r.visited : Called(C, m) \subseteq r.visited
    BY <1>3, <1>5 DEF TooFar, Closed
  <2>2. r.asked.from \in r.visited
    BY <1>1 DEF Searching
  <2> QED
    BY <2>1, <2>2, ClosedHoldsReach
<1>6. r.asked.to \notin r.visited /\ ~r.found
  BY <1>1 DEF Searching
<1>7. SearchEnded(C, n)
  BY <1>4, <1>5, <1>6 DEF SearchEnded
<1> QED
  BY <1>7 DEF Holds

\* Neighbours, if the end of the search is among them
LEMMA FoundHolds ==
  ASSUME NEW C, NEW r, NEW n, NEW S, Typed(r), Holds(C, r), r.pc = "read", r.asked.to \in S,
         n.clean => r.clean, n.clean /\ ~r.short => S = Called(C, End(r.path)),
         n.pc = "done", n.found = TRUE, n.path = Append(r.path, r.asked.to),
         n.asked = r.asked, n.short = r.short
  PROVE  Holds(C, n)
<1> SUFFICES ASSUME n.clean, ~n.short PROVE SearchEnded(C, n)
  BY DEF Holds
<1>1. Searching(C, r) /\ r.pc \in Busy
  BY DEF Holds, Busy
<1>2. /\ Fits(C, r, r.path) /\ Len(r.path) <= r.asked.depth /\ NearerVisited(C, r, r.path)
      /\ r.asked.to \notin r.visited
  BY <1>1 DEF Searching, WorkFits
<1>3. Way(C, r.asked.from, r.path) /\ r.path \in Seq(Nodes) /\ Len(r.path) \in Nat \ {0}
  BY <1>2, WayLeads DEF Fits, Way
<1>4. r.asked.to \in Nodes /\ <<r.path[Len(r.path)], r.asked.to>> \in C /\ r.asked.depth \in Nat
  BY DEF Called, End, Typed, Search, Question
<1>5. /\ Way(C, r.asked.from, n.path) /\ Len(n.path) = Len(r.path) + 1
      /\ End(n.path) = r.asked.to
  <2>1. /\ Way(C, r.asked.from, Append(r.path, r.asked.to))
        /\ Len(Append(r.path, r.asked.to)) = Len(r.path) + 1
        /\ Append(r.path, r.asked.to)[Len(r.path) + 1] = r.asked.to
    BY <1>3, <1>4, WayLengthens
  <2> QED
    BY <2>1 DEF End
<1>6. Len(n.path) <= r.asked.depth + 1 /\ Len(n.path) - 2 = Len(r.path) - 1
  BY <1>2, <1>3, <1>4, <1>5
<1>7. r.asked.to \notin Reach(C, r.asked.from, Len(n.path) - 2)
  BY <1>2, <1>6 DEF NearerVisited
<1> QED
  BY <1>5, <1>6, <1>7 DEF SearchEnded

\* What the neighbours add to the queue.
Lengthened(queue, path, S) == queue \o [i \in 1..Cardinality(S) |-> Append(path, InOrder(S)[i])]
Continues(longer, queue, path, S) ==
    /\ longer \in Seq(Seq(Nodes)) /\ Len(longer) \in Nat /\ Len(queue) <= Len(longer)
    /\ \A i \in 1..Len(queue) : i \in 1..Len(longer) /\ longer[i] = queue[i]
    /\ \A i \in 1..Len(longer) : ~(i <= Len(queue)) => \E m \in S : longer[i] = Append(path, m)
    /\ \A m \in S : \E i \in 1..Len(longer) : longer[i] = Append(path, m)

LEMMA QueueIs ==
  ASSUME NEW queue \in Seq(Seq(Nodes)), NEW path \in Seq(Nodes), NEW S \in SUBSET Nodes, N \in Nat
  PROVE  Continues(Lengthened(queue, path, S), queue, path, S)
<1> DEFINE longer == Lengthened(queue, path, S)
<1> DEFINE c == Cardinality(S)
           more == [i \in 1..c |-> Append(path, InOrder(S)[i])]
<1>1. S \in SUBSET Nat /\ IsFiniteSet(S)
  <2>1. Nodes \subseteq Nat /\ IsFiniteSet(Nodes)
    BY FS_Interval DEF Nodes
  <2> QED
    BY <2>1, FS_Subset
<1>2. /\ c \in Nat /\ InOrder(S) \in [1..c -> S]
      /\ \A n \in S : \E i \in 1..c : InOrder(S)[i] = n
  BY <1>1, InOrderIs
<1> HIDE DEF c
<1>3. ASSUME NEW i \in 1..c PROVE InOrder(S)[i] \in S /\ Append(path, InOrder(S)[i]) \in Seq(Nodes)
  <2>1. InOrder(S)[i] \in S
    BY <1>2
  <2> QED
    BY <2>1, AppendProperties
<1>4. /\ more \in Seq(Seq(Nodes)) /\ Len(more) = c
      /\ \A i \in 1..c : more[i] = Append(path, InOrder(S)[i])
  BY <1>2, <1>3
<1> HIDE DEF more
<1> HIDE DEF longer
<1> DEFINE a == Len(queue)
           b == Len(longer)
<1>5. /\ longer \in Seq(Seq(Nodes)) /\ a \in Nat /\ b = a + c
      /\ \A i \in 1..b : longer[i] = IF i <= a THEN queue[i] ELSE more[i - a]
  <2>1. longer = queue \o more
    BY DEF more, c, longer, Lengthened
  <2>2. /\ queue \o more \in Seq(Seq(Nodes)) /\ Len(queue \o more) = Len(queue) + Len(more)
        /\ \A i \in 1..Len(queue) + Len(more) :
             (queue \o more)[i] = IF i <= Len(queue) THEN queue[i] ELSE more[i - Len(queue)]
    BY <1>4, ConcatProperties
  <2>3. Len(queue) \in Nat
    BY LenProperties
  <2> QED
    BY <1>4, <2>1, <2>2, <2>3
<1> HIDE DEF a, b
<1>6. b \in Nat /\ a <= b /\ \A i \in 1..a : i \in 1..b /\ i <= a
  BY <1>2, <1>5
<1>7. ASSUME NEW i \in 1..b, ~(i <= a)
      PROVE  \E m \in S : longer[i] = Append(path, m)
  <2>1. i - a \in 1..c
    BY <1>2, <1>5, <1>7
  <2>2. longer[i] = Append(path, InOrder(S)[i - a]) /\ InOrder(S)[i - a] \in S
    BY <1>3, <1>4, <1>5, <1>7, <2>1
  <2> QED
    BY <2>2
<1>8. ASSUME NEW m \in S PROVE \E i \in 1..b : longer[i] = Append(path, m)
  <2>1. PICK i \in 1..c : InOrder(S)[i] = m
    BY <1>2
  <2>2. i + a \in 1..b /\ ~(i + a <= a) /\ (i + a) - a = i
    BY <1>2, <1>5
  <2>3. longer[i + a] = more[i]
    BY <1>5, <2>2
  <2>4. longer[i + a] = Append(path, m)
    BY <1>4, <2>1, <2>3
  <2> QED
    BY <2>2, <2>4
<1>9. \A i \in 1..a : i \in 1..b /\ longer[i] = queue[i]
  BY <1>5, <1>6
<1> QED
  BY <1>5, <1>6, <1>7, <1>8, <1>9 DEF a, b, longer, Continues

\* Neighbours, otherwise
LEMMA NeighboursHold ==
  ASSUME NEW C, NEW r, NEW n, NEW S \in SUBSET Nodes, N \in Nat,
         Typed(r), Holds(C, r), r.pc = "read", r.asked.to \notin S,
         n.clean => r.clean, n.clean /\ ~r.short => S = Called(C, End(r.path)),
         n.pc = "next", n.visited = r.visited \cup (S \ r.visited),
         n.queue = r.queue \o [i \in 1..Cardinality(S \ r.visited) |->
                                 Append(r.path, InOrder(S \ r.visited)[i])],
         n.asked = r.asked, n.path = r.path, n.limit = r.limit, n.found = r.found, n.short = r.short
  PROVE  Holds(C, n)
<1> SUFFICES ASSUME n.clean, ~n.short PROVE Searching(C, n)
  BY DEF Holds
<1> DEFINE new == S \ r.visited
           from == r.asked.from
           L == Len(r.path)
<1>1. Searching(C, r) /\ r.pc \in Busy /\ S = Called(C, End(r.path))
  BY DEF Holds, Busy
<1>2. /\ r.queue \in Seq(Seq(Nodes)) /\ r.path \in Seq(Nodes) /\ r.visited \in SUBSET Nodes
      /\ r.asked.depth \in Nat \ {0} /\ new \in SUBSET Nodes
  BY DEF Typed, Search, Question
<1>3. /\ n.queue \in Seq(Seq(Nodes)) /\ Len(n.queue) \in Nat /\ Len(r.queue) <= Len(n.queue)
      /\ \A i \in 1..Len(r.queue) : i \in 1..Len(n.queue) /\ n.queue[i] = r.queue[i]
      /\ \A i \in 1..Len(n.queue) : ~(i <= Len(r.queue)) => \E m \in new : n.queue[i] = Append(r.path, m)
      /\ \A m \in new : \E i \in 1..Len(n.queue) : n.queue[i] = Append(r.path, m)
  <2>1. n.queue = Lengthened(r.queue, r.path, new)
    BY DEF Lengthened
  <2> HIDE DEF new
  <2>2. Continues(Lengthened(r.queue, r.path, new), r.queue, r.path, new)
    BY <1>2, QueueIs
  <2>3. Continues(n.queue, r.queue, r.path, new)
    BY <2>1, <2>2
  <2> QED
    BY <2>3 DEF Continues
<1>4. /\ Fits(C, r, r.path) /\ L <= r.asked.depth /\ NearerVisited(C, r, r.path)
      /\ \A i \in 1..Len(r.queue) : Len(r.queue[i]) \in {L, L + 1}
  BY <1>1 DEF Searching, WorkFits
<1>5. Way(C, from, r.path) /\ L \in Nat \ {0} /\ Len(r.queue) \in Nat
  BY <1>2, <1>4, WayLeads DEF Fits
<1>6. ASSUME NEW m \in new
      PROVE  /\ Fits(C, n, Append(r.path, m)) /\ Len(Append(r.path, m)) = L + 1
             /\ End(Append(r.path, m)) = m
  <2>1. m \in Nodes /\ <<r.path[L], m>> \in C
    BY <1>1 DEF Called, End
  <2>2. /\ Way(C, from, Append(r.path, m)) /\ Len(Append(r.path, m)) = L + 1
        /\ Append(r.path, m)[L + 1] = m
    BY <1>5, <2>1, WayLengthens
  <2>3. m \notin r.visited /\ m \in n.visited /\ (L + 1) - 2 = L - 1
    BY <1>5
  <2>4. m \notin Reach(C, from, L - 1)
    BY <1>4, <2>3 DEF NearerVisited
  <2> QED
    BY <2>2, <2>3, <2>4 DEF Fits, End
<1>7. ASSUME NEW i \in 1..Len(n.queue), ~(i <= Len(r.queue))
      PROVE  Fits(C, n, n.queue[i]) /\ Len(n.queue[i]) = L + 1
  <2>1. PICK m \in new : n.queue[i] = Append(r.path, m)
    BY <1>3, <1>7
  <2>2. Fits(C, n, Append(r.path, m)) /\ Len(Append(r.path, m)) = L + 1
    BY <1>6
  <2> QED
    BY <2>1, <2>2
<1>8. ASSUME NEW i \in 1..Len(r.queue)
      PROVE  Fits(C, n, n.queue[i]) /\ Len(n.queue[i]) \in {L, L + 1} /\ n.queue[i] = r.queue[i]
  <2>1. Fits(C, r, r.queue[i])
    BY <1>1 DEF Searching, QueueFits
  <2>2. Fits(C, n, r.queue[i])
    BY <2>1 DEF Fits
  <2> QED
    BY <1>3, <1>4, <2>2
<1>9. ASSUME NEW i \in 1..Len(n.queue) PROVE i \in 1..Len(r.queue) \/ ~(i <= Len(r.queue))
  BY <1>3, <1>5
<1>10. QueueFits(C, n)
  BY <1>7, <1>8, <1>9 DEF QueueFits
<1>11. QueueInOrder(n)
  <2> SUFFICES ASSUME NEW i \in 1..Len(n.queue), NEW j \in 1..Len(n.queue), i < j
               PROVE  Len(n.queue[i]) <= Len(n.queue[j]) /\ Len(n.queue[j]) <= Len(n.queue[i]) + 1
    BY DEF QueueInOrder
  <2>1. CASE j \in 1..Len(r.queue)
    <3>1. i \in 1..Len(r.queue)
      BY <1>5, <2>1
    <3>2. Len(r.queue[i]) <= Len(r.queue[j]) /\ Len(r.queue[j]) <= Len(r.queue[i]) + 1
      BY <1>1, <2>1, <3>1 DEF Searching, QueueInOrder
    <3> QED
      BY <1>8, <2>1, <3>1, <3>2
  <2>2. CASE ~(j <= Len(r.queue))
    <3>1. Len(n.queue[j]) = L + 1
      BY <1>7, <2>2
    <3>2. Len(n.queue[i]) \in {L, L + 1}
      BY <1>7, <1>8, <1>9
    <3>3. \A a \in {L, L + 1} : a <= L + 1 /\ L + 1 <= a + 1
      BY <1>5
    <3> HIDE DEF L
    <3> QED
      BY <3>1, <3>2, <3>3
  <2> QED
    BY <1>9, <2>1, <2>2
<1>12. NothingForgotten(C, n)
  <2> SUFFICES ASSUME NEW m \in n.visited PROVE Closed(C, n, m) \/ Pending(n, m) \/ TooFar(C, n, m)
    BY DEF NothingForgotten
  <2>1. CASE m \in new
    BY <1>3, <1>6, <2>1 DEF Pending
  <2>2. CASE m = End(r.path)
    BY <1>1, <2>2 DEF Closed
  <2>3. CASE m \in r.visited /\ m # End(r.path)
    <3>1. Closed(C, r, m) \/ Pending(r, m) \/ TooFar(C, r, m)
      BY <1>1, <2>3 DEF Searching, NothingForgotten, AtWork
    <3> QED
      BY <1>3, <3>1 DEF Closed, Pending, TooFar
  <2> QED
    BY <2>1, <2>2, <2>3
<1>13. HeadFits(C, n)
  <2> SUFFICES ASSUME n.queue # <<>>, Len(n.queue[1]) <= n.asked.depth PROVE NearerVisited(C, n, n.queue[1])
    BY DEF HeadFits
  <2>1. 1 \in 1..Len(n.queue)
    <3>1. n.queue \in Seq(Seq(Nodes))
      BY <1>3
    <3>2. Len(n.queue) \in Nat \ {0}
      BY <3>1, EmptySeq
    <3>3. \A a \in Nat \ {0} : 1 \in 1..a
      OBVIOUS
    <3> QED
      BY <3>2, <3>3
  <2>2. Len(n.queue[1]) \in {L, L + 1}
    BY <1>7, <1>8, <1>9, <2>1
  <2>3. CASE Len(n.queue[1]) = L
    BY <1>4, <2>3 DEF NearerVisited
  <2>4. CASE Len(n.queue[1]) = L + 1
    <3>1. ASSUME NEW i \in 1..Len(n.queue) PROVE Len(n.queue[i]) = L + 1
      <4>1. 1 < i \/ i = 1
        OBVIOUS
      <4>2. Len(n.queue[i]) \in {L, L + 1}
        BY <1>7, <1>8, <1>9
      <4>3. Len(n.queue[1]) <= Len(n.queue[i]) \/ i = 1
        BY <1>11, <2>1, <4>1 DEF QueueInOrder
      <4>4. \A a \in {L, L + 1} : L + 1 <= a => a = L + 1
        BY <1>5
      <4> HIDE DEF L
      <4> QED
        BY <2>4, <4>2, <4>3, <4>4
    <3>2. ASSUME NEW m \in Reach(C, from, L - 1) PROVE Called(C, m) \subseteq n.visited
      <4>1. m \in n.visited
        BY <1>4 DEF NearerVisited
      <4>2. ~Pending(n, m)
        <5> SUFFICES ASSUME NEW i \in 1..Len(n.queue), End(n.queue[i]) = m PROVE FALSE
          BY DEF Pending
        <5>1. Fits(C, n, n.queue[i]) /\ Len(n.queue[i]) = L + 1
          BY <1>10, <3>1 DEF QueueFits
        <5>2. L + 1 > 1 /\ (L + 1) - 2 = L - 1
          BY <1>5
        <5> QED
          BY <5>1, <5>2 DEF Fits
      <4>3. ~TooFar(C, n, m)
        <5>1. L - 1 \in Nat /\ n.asked.depth - 1 \in Nat /\ L - 1 <= n.asked.depth - 1
          BY <1>2, <1>4, <1>5
        <5>2. Reach(C, from, L - 1) \subseteq Reach(C, from, n.asked.depth - 1)
          BY <5>1, ReachGrows
        <5> QED
          BY <5>2 DEF TooFar
      <4>4. ~AtWork(n, m)
        BY DEF AtWork, Busy
      <4> QED
        BY <1>12, <4>1, <4>2, <4>3, <4>4 DEF NothingForgotten, Closed
    <3>3. L - 1 \in Nat /\ (L - 1) + 1 = L /\ (L + 1) - 1 = L
      BY <1>5
    <3>4. \A k \in Nat : Reach(C, from, k + 1) = Onward(C, Reach(C, from, k))
      <4> HIDE DEF L, from, new
      <4> QED
        BY ReachSteps
    <3>5. Reach(C, from, (L - 1) + 1) = Onward(C, Reach(C, from, L - 1))
      BY <3>3, <3>4
    <3>6. Reach(C, from, L - 1) \subseteq n.visited
      BY <1>4 DEF NearerVisited
    <3>7. Reach(C, from, L) \subseteq n.visited
      BY <3>2, <3>3, <3>5, <3>6 DEF Onward
    <3> QED
      BY <2>4, <3>3, <3>7 DEF NearerVisited
  <2> QED
    BY <2>2, <2>3, <2>4
<1>14. WorkFits(C, n)
  BY DEF WorkFits, Busy
<1>15. n.asked.from \in n.visited /\ n.asked.to \notin n.visited /\ ~n.found
  BY <1>1 DEF Searching
<1> QED
  BY <1>10, <1>11, <1>12, <1>13, <1>14, <1>15 DEF Searching

-----------------------------------------------------------------------------
(***************************************************************************)
(* The graph: of a node that is recorded or is being asked about again,    *)
(* nothing is shown but its callees, and all of them are shown unless a    *)
(* lookup failed or somebody has still to write them.                      *)
(***************************************************************************)
Redoing == {"ask", "write", "fail"}
Redoes(t, n) == search[t].pc \in Redoing /\ At(t) = n
Kept(n) == n \in recorded \/ \E t \in Searches : Redoes(t, n)
Finishes(t, n) ==
    Redoes(t, n) /\ (search[t].pc = "write" => Callees(n) \subseteq Stored(n) \cup search[t].todo)

Shape ==
    /\ calls \in Calls /\ edges \in Calls /\ recorded \subseteq Nodes /\ spoiled \subseteq recorded
    /\ search \in [Searches -> {Idle} \cup Search]
    /\ \A s \in Searches : search[s] = Idle \/ Typed(search[s])
ShowsNoMore == \A n \in Nodes : Kept(n) => Stored(n) \subseteq Callees(n)
ShowsAll ==
    \A n \in Nodes : Kept(n) /\ n \notin spoiled =>
        Callees(n) \subseteq Stored(n) \/ \E t \in Searches : Finishes(t, n)
WritesCalls == \A t \in Searches : search[t].pc = "write" => search[t].todo \subseteq Callees(At(t))
ReadsRecorded == \A t \in Searches : search[t].pc = "read" /\ ~search[t].short => At(t) \in recorded
SearchesHold == \A t \in Searches : search[t].pc # "idle" => Holds(calls, search[t])

GraphInv == ShowsNoMore /\ ShowsAll /\ WritesCalls /\ ReadsRecorded
IInv == Shape /\ GraphInv /\ SearchesHold

LEMMA IdleIs == Idle.pc = "idle" /\ \A r : Typed(r) => r # Idle /\ r.pc # "idle"
  BY DEF Idle, Typed, Search, Busy

LEMMA WorkIs ==
  ASSUME Shape, NEW s \in Searches, search[s].pc # "idle"
  PROVE  /\ Typed(search[s]) /\ search[s] \in Search
         /\ At(s) = End(search[s].path) /\ At(s) \in Nodes
         /\ search[s].visited \in SUBSET Nodes /\ search[s].todo \in SUBSET Nodes
<1>1. Typed(search[s])
  BY IdleIs DEF Shape
<1>2. search[s] \in Search /\ search[s].path # <<>> /\ search[s].path \in Seq(Nodes)
  BY <1>1 DEF Typed, Search
<1>3. At(s) = End(search[s].path)
  BY DEF At, End
<1>4. search[s].path[Len(search[s].path)] \in Nodes
  <2>1. Len(search[s].path) \in Nat \ {0} /\ search[s].path \in [1..Len(search[s].path) -> Nodes]
    BY <1>2, EmptySeq, LenProperties
  <2> QED
    BY <2>1
<1> QED
  BY <1>1, <1>2, <1>3, <1>4 DEF End, Search

LEMMA InitEstablishesIInv == Init => IInv
<1> SUFFICES ASSUME Init PROVE IInv
  OBVIOUS
<1>1. Shape
  BY CallPathAssumption DEF Init, Shape, Calls
<1>2. \A s \in Searches : search[s].pc = "idle"
  BY DEF Init, Idle
<1>3. ShowsNoMore /\ ShowsAll
  <2>1. \A n : Kept(n) <=> n \in recorded
    BY <1>2 DEF Kept, Redoes, Redoing
  <2>2. \A n \in recorded : Stored(n) = Callees(n)
    BY DEF Init, Stored, Callees
  <2> QED
    BY <2>1, <2>2 DEF ShowsNoMore, ShowsAll
<1>4. WritesCalls /\ ReadsRecorded /\ SearchesHold
  BY <1>2 DEF WritesCalls, ReadsRecorded, SearchesHold
<1> QED
  BY <1>1, <1>3, <1>4 DEF IInv, GraphInv

\* What a step of a search leaves of the other searches.
Moves(s) == \A t \in Searches \ {s} : search'[t] = search[t]

LEMMA BeginIs ==
  ASSUME Shape, NEW s \in Searches, NEW q \in Question, Begin(s, q)
  PROVE  /\ Shape' /\ Moves(s) /\ search'[s].pc \in {"next", "done"} /\ Holds(calls', search'[s])
<1> DEFINE r == [pc |-> IF q.from = q.to THEN "done" ELSE "next", asked |-> q, budget |-> q.budget,
           queue |-> <<<<q.from>>>>, path |-> <<q.from>>, visited |-> {q.from}, todo |-> {},
           found |-> q.from = q.to, limit |-> FALSE, late |-> FALSE, short |-> FALSE, clean |-> TRUE]
<1>1. q.from \in Nodes /\ q.to \in Nodes /\ q.budget \in Nat
  BY DEF Question
<1>2. r \in Search
  BY <1>1 DEF Search, Busy
<1>3. Typed(r)
  <2>1. Len(r.queue) = 1 /\ r.queue[1] = <<q.from>> /\ r.path = <<q.from>> /\ ~r.short
    OBVIOUS
  <2>2. <<q.from>> # <<>>
    OBVIOUS
  <2> HIDE DEF r
  <2>3. \A i \in 1..Len(r.queue) : r.queue[i] # <<>>
    BY <2>1, <2>2
  <2> QED
    BY <1>2, <2>1, <2>2, <2>3 DEF Typed
<1>4. search' = [search EXCEPT ![s] = r] /\ UNCHANGED <<calls, graph>>
  BY DEF Begin
<1>5. Holds(calls, r)
  <2>1. /\ r.pc = IF r.asked.from = r.asked.to THEN "done" ELSE "next"
        /\ r.queue = <<<<r.asked.from>>>> /\ r.path = <<r.asked.from>> /\ r.visited = {r.asked.from}
        /\ r.found = (r.asked.from = r.asked.to)
    OBVIOUS
  <2> HIDE DEF r
  <2> QED
    BY <1>3, <2>1, BeginHolds
<1>6. r.pc \in {"next", "done"}
  OBVIOUS
<1> HIDE DEF r
<1>7. search'[s] = r /\ Moves(s) /\ search' \in [Searches -> {Idle} \cup Search]
  BY <1>2, <1>4 DEF Shape, Moves
<1>8. Shape'
  BY <1>3, <1>4, <1>7 DEF Shape, Moves, graph
<1> QED
  BY <1>4, <1>5, <1>6, <1>7, <1>8

LEMMA UnresolvedIs ==
  ASSUME Shape, NEW s \in Searches, NEW late, Unresolved(s, late)
  PROVE  Shape' /\ Moves(s) /\ search'[s].pc = "idle"
  BY IdleIs DEF Shape, Moves, Unresolved, graph

LEMMA NextNodeIs ==
  ASSUME Shape, NEW s \in Searches, Holds(calls, search[s]), NextNode(s)
  PROVE  Shape' /\ Moves(s) /\ search'[s].pc \in {"next", "check"} /\ Holds(calls', search'[s])
<1> DEFINE r == search[s]
           n == search'[s]
           first == Head(r.queue)
<1>1. r.pc = "next" /\ r.queue # <<>> /\ Typed(r) /\ r \in Search
  BY WorkIs DEF NextNode, Is
<1>2. /\ n = [r EXCEPT !.queue = Tail(r.queue), !.path = first,
                !.pc = IF Len(first) > r.asked.depth THEN "next" ELSE "check",
                !.limit = r.limit \/ Len(first) > r.asked.depth]
      /\ Moves(s) /\ UNCHANGED <<calls, graph>> /\ search' = [search EXCEPT ![s] = n]
  BY DEF NextNode, Shape, Moves
<1>3. /\ r.queue \in Seq(Seq(Nodes)) /\ first \in Seq(Nodes) /\ Tail(r.queue) \in Seq(Seq(Nodes))
      /\ first # <<>> /\ \A i \in 1..Len(Tail(r.queue)) : Tail(r.queue)[i] # <<>>
  <2>1. r.queue \in Seq(Seq(Nodes))
    BY <1>1 DEF Search
  <2>2. /\ Len(r.queue) \in Nat \ {0} /\ first = r.queue[1] /\ Tail(r.queue) \in Seq(Seq(Nodes))
        /\ \A i \in 1..Len(Tail(r.queue)) : i + 1 \in 1..Len(r.queue) /\ Tail(r.queue)[i] = r.queue[i + 1]
    BY <1>1, <2>1
  <2>3. r.queue[1] \in Seq(Nodes) /\ 1 \in 1..Len(r.queue)
    BY <2>1, <2>2, LenProperties
  <2> QED
    BY <1>1, <2>1, <2>2, <2>3 DEF Typed
<1>4. /\ n.queue = Tail(r.queue) /\ n.path = first
      /\ n.pc = (IF Len(first) > r.asked.depth THEN "next" ELSE "check")
      /\ n.limit = (r.limit \/ Len(first) > r.asked.depth)
      /\ n.asked = r.asked /\ n.visited = r.visited /\ n.found = r.found
      /\ n.short = r.short /\ n.clean = r.clean
  BY <1>1, <1>2 DEF Search
<1>5. n \in Search
  BY <1>1, <1>2, <1>3 DEF Search, Busy
<1> HIDE DEF n, r, first
<1>6. Typed(n)
  BY <1>1, <1>3, <1>4, <1>5 DEF Typed
<1>7. Holds(calls, n)
  BY <1>1, <1>4, NextNodeHolds DEF r, first
<1>8. Shape'
  BY <1>2, <1>5, <1>6 DEF Shape, Moves, graph, n
<1> QED
  BY <1>2, <1>4, <1>7, <1>8 DEF n

LEMMA NotFoundIs ==
  ASSUME Shape, NEW s \in Searches, Holds(calls, search[s]), NotFound(s)
  PROVE  Shape' /\ Moves(s) /\ search'[s].pc = "done" /\ Holds(calls', search'[s])
<1> DEFINE r == search[s]
           n == search'[s]
<1>1. r.pc = "next" /\ r.queue = <<>> /\ Typed(r) /\ r \in Search
  BY WorkIs DEF NotFound, Is
<1>2. /\ n = [r EXCEPT !.pc = "done"] /\ Moves(s) /\ UNCHANGED <<calls, graph>>
      /\ search' = [search EXCEPT ![s] = n]
  BY DEF NotFound, Becomes, Shape, Moves
<1>3. /\ n \in Search /\ n.pc = "done" /\ n.queue = r.queue /\ n.path = r.path /\ n.limit = r.limit
      /\ n.asked = r.asked /\ n.found = r.found /\ n.short = r.short /\ n.clean = r.clean
  BY <1>1, <1>2 DEF Search, Busy
<1> HIDE DEF n, r
<1>4. Typed(n)
  BY <1>1, <1>3 DEF Typed
<1>5. Holds(calls, n)
  BY <1>1, <1>3, NotFoundHolds, CallPathAssumption DEF r
<1>6. Shape'
  BY <1>2, <1>3, <1>4 DEF Shape, Moves, graph, n
<1> QED
  BY <1>2, <1>3, <1>5, <1>6 DEF n

\* A search at work stays at its node.
LEMMA WorkStep ==
  ASSUME Shape, NEW s \in Searches, Holds(calls, search[s]), search[s].pc \in Busy,
         NEW n \in Search, search' = [search EXCEPT ![s] = n], n.pc \in Busy,
         n.clean = search[s].clean, search[s].short => n.short, n.short => n.limit,
         n.short \/ n.limit = search[s].limit, n.asked = search[s].asked, n.queue = search[s].queue,
         n.path = search[s].path, n.visited = search[s].visited, n.found = search[s].found,
         calls' = calls, edges' \in Calls, recorded' \in SUBSET Nodes, spoiled' \in SUBSET recorded'
  PROVE  Shape' /\ Moves(s) /\ search'[s] = n /\ Holds(calls', search'[s]) /\ At(s)' = At(s)
<1>1. Typed(search[s])
  BY WorkIs DEF Busy
<1>2. Typed(n)
  BY <1>1 DEF Typed
<1>3. Moves(s) /\ search'[s] = n /\ search' \in [Searches -> {Idle} \cup Search]
  BY DEF Shape, Moves
<1>4. Holds(calls, n)
  BY WorkGoesOn
<1>5. Shape'
  BY <1>2, <1>3 DEF Shape, Moves
<1>6. At(s)' = At(s)
  BY <1>3 DEF At
<1> QED
  BY <1>3, <1>4, <1>5, <1>6

LEMMA ExpandIs ==
  ASSUME Shape, NEW s \in Searches, Holds(calls, search[s]), Expand(s)
  PROVE  /\ Shape' /\ Moves(s) /\ search'[s].pc \in {"drop", "read"} /\ Holds(calls', search'[s])
         /\ At(s)' = At(s)
         /\ search'[s].pc = "read" /\ ~search'[s].short => At(s) \in recorded
<1> DEFINE r == search[s]
           usable == r.asked.client /\ (At(s) \in recorded \/ r.budget > 0)
           left == IF usable /\ At(s) \notin recorded THEN r.budget - 1 ELSE r.budget
           n == [r EXCEPT !.short = r.short \/ ~usable, !.limit = r.limit \/ ~usable,
                          !.pc = IF usable /\ At(s) \notin recorded THEN "drop" ELSE "read",
                          !.budget = left]
<1>1. r.pc = "check" /\ Typed(r) /\ r \in Search
  BY WorkIs DEF Expand, Is
<1>2. search' = [search EXCEPT ![s] = n] /\ UNCHANGED <<calls, graph>>
  BY DEF Expand
<1>3. n \in Search
  <2>1. r.budget \in Nat
    BY <1>1 DEF Search
  <2>2. left \in Nat
    BY <2>1
  <2> HIDE DEF left, usable
  <2> QED
    BY <1>1, <2>2 DEF Search, Busy
<1>4. /\ n.short = (r.short \/ ~usable) /\ n.limit = (r.limit \/ ~usable)
      /\ n.pc = (IF usable /\ At(s) \notin recorded THEN "drop" ELSE "read")
      /\ n.asked = r.asked /\ n.queue = r.queue /\ n.path = r.path /\ n.visited = r.visited
      /\ n.found = r.found /\ n.clean = r.clean
  BY <1>1 DEF Search
<1>5. usable \/ ~usable
  OBVIOUS
<1>6. r.short => r.limit
  BY <1>1 DEF Typed
<1>7. r.short \in BOOLEAN /\ r.limit \in BOOLEAN
  BY <1>1 DEF Search
<1> HIDE DEF n, usable, left
<1>8. /\ n.pc \in Busy /\ r.pc \in Busy /\ n.pc \in {"drop", "read"}
      /\ r.short => n.short
      /\ n.short => n.limit
      /\ n.short \/ n.limit = r.limit
  BY <1>1, <1>4, <1>6, <1>7 DEF Busy
<1>9. n.pc = "read" /\ ~n.short => At(s) \in recorded
  BY <1>4
<1>10. edges' \in Calls /\ recorded' \in SUBSET Nodes /\ spoiled' \in SUBSET recorded' /\ calls' = calls
  BY <1>2 DEF Shape, graph
<1>11. Shape' /\ Moves(s) /\ search'[s] = n /\ Holds(calls', search'[s]) /\ At(s)' = At(s)
  BY <1>2, <1>3, <1>4, <1>8, <1>10, WorkStep
<1> QED
  BY <1>8, <1>9, <1>11

LEMMA InvalidateIs ==
  ASSUME Shape, NEW s \in Searches, Holds(calls, search[s]), InvalidateOutgoingCalls(s)
  PROVE  /\ Shape' /\ Moves(s) /\ search[s].pc = "drop" /\ search'[s].pc = "ask"
         /\ Holds(calls', search'[s]) /\ At(s)' = At(s)
<1> DEFINE r == search[s]
           n == [r EXCEPT !.pc = "ask"]
<1>1. r.pc = "drop" /\ Typed(r) /\ r \in Search
  BY WorkIs DEF InvalidateOutgoingCalls, Is
<1>2. /\ search' = [search EXCEPT ![s] = n] /\ calls' = calls /\ recorded' = recorded /\ spoiled' = spoiled
      /\ edges' = {e \in edges : e[1] # At(s)}
  BY DEF InvalidateOutgoingCalls, Becomes
<1>3. n \in Search /\ n.pc = "ask" /\ n.pc \in Busy /\ r.pc \in Busy
  BY <1>1 DEF Search, Busy
<1>4. /\ n.short = r.short /\ n.limit = r.limit /\ n.asked = r.asked /\ n.queue = r.queue
      /\ n.path = r.path /\ n.visited = r.visited /\ n.found = r.found /\ n.clean = r.clean
      /\ r.short => r.limit
  BY <1>1 DEF Search, Typed
<1> HIDE DEF n
<1>5. edges' \in Calls /\ recorded' \in SUBSET Nodes /\ spoiled' \in SUBSET recorded'
  BY <1>2 DEF Shape, Calls
<1>6. Shape' /\ Moves(s) /\ search'[s] = n /\ Holds(calls', search'[s]) /\ At(s)' = At(s)
  BY <1>2, <1>3, <1>4, <1>5, WorkStep
<1> QED
  BY <1>1, <1>3, <1>6

LEMMA AskIs ==
  ASSUME Shape, NEW s \in Searches, Holds(calls, search[s]), Ask(s)
  PROVE  /\ Shape' /\ Moves(s) /\ search[s].pc = "ask" /\ Holds(calls', search'[s]) /\ At(s)' = At(s)
         /\ \/ search'[s].pc = "fail"
            \/ search'[s].pc = "write" /\ search'[s].todo = Callees(At(s))
<1> DEFINE r == search[s]
<1>1. r.pc = "ask" /\ Typed(r) /\ r \in Search
  BY WorkIs DEF Ask, Is
<1>2. UNCHANGED <<calls, edges, recorded, spoiled>>
  BY DEF Ask, graph
<1>3. PICK n : /\ \/ n = [r EXCEPT !.pc = "write", !.todo = Callees(At(s))]
                  \/ \E timeout \in BOOLEAN : n = [r EXCEPT !.pc = "fail", !.late = r.late \/ timeout]
               /\ search' = [search EXCEPT ![s] = n]
  <2>1. CASE search' = [search EXCEPT ![s].pc = "write", ![s].todo = Callees(At(s))]
    <3> DEFINE n == [r EXCEPT !.pc = "write", !.todo = Callees(At(s))]
    <3>1. search' = [search EXCEPT ![s] = n]
      BY <2>1
    <3> QED
      BY <3>1
  <2>2. ASSUME NEW timeout \in BOOLEAN,
               search' = [search EXCEPT ![s].pc = "fail", ![s].late = @ \/ timeout]
        PROVE  \E n : /\ n = [r EXCEPT !.pc = "fail", !.late = r.late \/ timeout]
                      /\ search' = [search EXCEPT ![s] = n]
    BY <2>2
  <2> QED
    BY <2>1, <2>2 DEF Ask
<1>4. /\ n \in Search
      /\ n.pc = "fail" \/ (n.pc = "write" /\ n.todo = Callees(At(s)))
      /\ n.short = r.short /\ n.limit = r.limit /\ n.asked = r.asked /\ n.queue = r.queue
      /\ n.path = r.path /\ n.visited = r.visited /\ n.found = r.found /\ n.clean = r.clean
  <2>1. CASE n = [r EXCEPT !.pc = "write", !.todo = Callees(At(s))]
    <3>1. Callees(At(s)) \in SUBSET Nodes
      BY DEF Callees
    <3> QED
      BY <1>1, <2>1, <3>1 DEF Search, Busy
  <2>2. CASE \E timeout \in BOOLEAN : n = [r EXCEPT !.pc = "fail", !.late = r.late \/ timeout]
    BY <1>1, <2>2 DEF Search, Busy
  <2> QED
    BY <1>3, <2>1, <2>2
<1>5. n.pc \in Busy /\ r.pc \in Busy /\ (r.short => r.limit)
  BY <1>1, <1>4 DEF Busy, Typed
<1>6. edges' \in Calls /\ recorded' \in SUBSET Nodes /\ spoiled' \in SUBSET recorded'
  BY <1>2 DEF Shape
<1>7. Shape' /\ Moves(s) /\ search'[s] = n /\ Holds(calls', search'[s]) /\ At(s)' = At(s)
  BY <1>2, <1>3, <1>4, <1>5, <1>6, WorkStep
<1> QED
  BY <1>1, <1>4, <1>7

LEMMA WriteIs ==
  ASSUME Shape, NEW s \in Searches, Holds(calls, search[s]), Write(s), WritesCalls
  PROVE  /\ Shape' /\ Moves(s) /\ search[s].pc = "write" /\ search'[s].pc = "write"
         /\ Holds(calls', search'[s]) /\ At(s)' = At(s)
         /\ \E d \in search[s].todo :
               edges' = edges \cup {<<At(s), d>>} /\ search'[s].todo = search[s].todo \ {d}
<1> DEFINE r == search[s]
<1>1. r.pc = "write" /\ Typed(r) /\ r \in Search /\ At(s) \in Nodes /\ r.todo \in SUBSET Nodes
  BY WorkIs DEF Write, Is
<1>2. calls' = calls /\ recorded' = recorded /\ spoiled' = spoiled
  BY DEF Write
<1>3. PICK d \in r.todo : /\ edges' = edges \cup {<<At(s), d>>}
                          /\ search' = [search EXCEPT ![s].todo = @ \ {d}]
  BY DEF Write
<1> DEFINE n == [r EXCEPT !.todo = r.todo \ {d}]
<1>4. search' = [search EXCEPT ![s] = n]
  BY <1>3
<1>5. n \in Search /\ n.todo = r.todo \ {d} /\ n.pc = "write" /\ n.pc \in Busy /\ r.pc \in Busy
  BY <1>1 DEF Search, Busy
<1>6. /\ n.short = r.short /\ n.limit = r.limit /\ n.asked = r.asked /\ n.queue = r.queue
      /\ n.path = r.path /\ n.visited = r.visited /\ n.found = r.found /\ n.clean = r.clean
      /\ r.short => r.limit
  BY <1>1 DEF Search, Typed
<1> HIDE DEF n
<1>7. edges' \in Calls /\ recorded' \in SUBSET Nodes /\ spoiled' \in SUBSET recorded'
  BY <1>1, <1>2, <1>3 DEF Shape, Calls
<1>8. Shape' /\ Moves(s) /\ search'[s] = n /\ Holds(calls', search'[s]) /\ At(s)' = At(s)
  BY <1>2, <1>4, <1>5, <1>6, <1>7, WorkStep
<1> QED
  BY <1>1, <1>3, <1>5, <1>8

LEMMA RecordIs ==
  ASSUME Shape, NEW s \in Searches, Holds(calls, search[s]), SetCalleesCacheHash(s)
  PROVE  /\ Shape' /\ Moves(s) /\ search'[s].pc = "read" /\ Holds(calls', search'[s]) /\ At(s)' = At(s)
         /\ search[s].pc = "fail" \/ (search[s].pc = "write" /\ search[s].todo = {})
<1> DEFINE r == search[s]
           n == [r EXCEPT !.pc = "read"]
<1>1. /\ r.pc = "fail" \/ (r.pc = "write" /\ r.todo = {})
      /\ r.pc \in Busy
  BY DEF SetCalleesCacheHash, Is, Busy
<1>2. Typed(r) /\ r \in Search /\ At(s) \in Nodes
  BY <1>1, WorkIs DEF Busy
<1>3. /\ search' = [search EXCEPT ![s] = n] /\ calls' = calls /\ edges' = edges
      /\ recorded' = recorded \cup {At(s)}
      /\ spoiled' = spoiled \/ spoiled' = spoiled \cup {At(s)}
  BY DEF SetCalleesCacheHash, Becomes
<1>4. n \in Search /\ n.pc = "read" /\ n.pc \in Busy
  BY <1>2 DEF Search, Busy
<1>5. /\ n.short = r.short /\ n.limit = r.limit /\ n.asked = r.asked /\ n.queue = r.queue
      /\ n.path = r.path /\ n.visited = r.visited /\ n.found = r.found /\ n.clean = r.clean
      /\ r.short => r.limit
  BY <1>2 DEF Search, Typed
<1> HIDE DEF n
<1>6. edges' \in Calls /\ recorded' \in SUBSET Nodes /\ spoiled' \in SUBSET recorded'
  BY <1>2, <1>3 DEF Shape
<1>7. Shape' /\ Moves(s) /\ search'[s] = n /\ Holds(calls', search'[s]) /\ At(s)' = At(s)
  BY <1>1, <1>3, <1>4, <1>5, <1>6, WorkStep
<1> QED
  BY <1>1, <1>4, <1>7

\* What a clean and resourceful search reads is what the file says.
LEMMA ReadIsExact ==
  ASSUME Shape, GraphInv, NEW s \in Searches, search[s].pc = "read", ~search[s].short, Clean(s)
  PROVE  Stored(At(s)) = Callees(At(s))
<1>1. At(s) \in recorded /\ At(s) \in Nodes /\ At(s) \notin spoiled
  BY WorkIs DEF GraphInv, ReadsRecorded, Clean
<1>2. ~\E t \in Searches : Finishes(t, At(s))
  BY DEF Clean, Rebuilt, Finishes, Redoes, Redoing
<1>3. Kept(At(s))
  BY <1>1 DEF Kept
<1>4. Stored(At(s)) \subseteq Callees(At(s)) /\ Callees(At(s)) \subseteq Stored(At(s))
  BY <1>1, <1>2, <1>3 DEF GraphInv, ShowsNoMore, ShowsAll
<1> QED
  BY <1>4

LEMMA NeighboursIs ==
  ASSUME Shape, GraphInv, NEW s \in Searches, Holds(calls, search[s]), Neighbours(s)
  PROVE  /\ Shape' /\ Moves(s) /\ search[s].pc = "read" /\ search'[s].pc \in {"next", "done"}
         /\ Holds(calls', search'[s]) /\ UNCHANGED <<calls, graph>>
<1> DEFINE r == search[s]
           S == Stored(At(s))
           new == S \ r.visited
           n == search'[s]
<1>1. r.pc = "read" /\ Typed(r) /\ r \in Search /\ At(s) = End(r.path) /\ r.visited \in SUBSET Nodes
  BY WorkIs DEF Neighbours, Is
<1>2. S \in SUBSET Nodes /\ S = Called(edges, At(s)) /\ Callees(At(s)) = Called(calls, End(r.path))
  BY <1>1 DEF Stored, Callees, Called
<1>3. UNCHANGED <<calls, graph>> /\ N \in Nat
  BY CallPathAssumption DEF Neighbours
<1>4. Clean(s) /\ ~r.short => S = Called(calls, End(r.path))
  BY <1>1, <1>2, ReadIsExact
<1>5. /\ r.path \in Seq(Nodes) /\ r.asked \in Question /\ r.asked.to \in Nodes
      /\ r.queue \in Seq(Seq(Nodes)) /\ r.clean \in BOOLEAN
  BY <1>1 DEF Search, Question
<1>6. CASE r.asked.to \in S
  <2> DEFINE m == [r EXCEPT !.pc = "done", !.found = TRUE, !.path = Append(r.path, r.asked.to),
                            !.clean = r.clean /\ Clean(s)]
  <2>1. search' = [search EXCEPT ![s] = m]
    BY <1>6 DEF Neighbours
  <2>2. Append(r.path, r.asked.to) \in Seq(Nodes) /\ Append(r.path, r.asked.to) # <<>>
    BY <1>5, AppendProperties
  <2>3. (r.clean /\ Clean(s)) \in BOOLEAN
    OBVIOUS
  <2>4. m \in Search
    BY <1>1, <2>2, <2>3 DEF Search
  <2>5. /\ m.pc = "done" /\ m.found = TRUE /\ m.path = Append(r.path, r.asked.to)
        /\ m.clean = (r.clean /\ Clean(s)) /\ m.asked = r.asked /\ m.short = r.short
        /\ m.queue = r.queue /\ m.limit = r.limit
    BY <1>1 DEF Search
  <2> HIDE DEF m
  <2>6. Typed(m)
    BY <1>1, <2>2, <2>4, <2>5 DEF Typed
  <2>7. (m.clean => r.clean) /\ (m.clean /\ ~r.short => S = Called(calls, End(r.path)))
    BY <1>4, <2>5
  <2> HIDE DEF S, new
  <2>8. Holds(calls, m)
    BY <1>1, <1>6, <2>5, <2>7, FoundHolds
  <2>9. search'[s] = m /\ Moves(s)
    BY <2>1 DEF Shape, Moves
  <2>10. Shape'
    BY <1>3, <2>1, <2>4, <2>6, <2>9 DEF Shape, Moves, graph
  <2> QED
    BY <1>1, <1>3, <2>5, <2>8, <2>9, <2>10
<1>7. CASE ~(r.asked.to \in S)
  <2> DEFINE m == [r EXCEPT !.pc = "next", !.visited = r.visited \cup new,
                            !.clean = r.clean /\ Clean(s),
                            !.queue = r.queue \o [i \in 1..Cardinality(new) |->
                                                    Append(r.path, InOrder(new)[i])]]
  <2>1. search' = [search EXCEPT ![s] = m]
    BY <1>7 DEF Neighbours
  <2>2. Continues(Lengthened(r.queue, r.path, new), r.queue, r.path, new)
    <3>1. new \in SUBSET Nodes
      BY <1>2
    <3> HIDE DEF new
    <3> QED
      BY <1>3, <1>5, <3>1, QueueIs
  <2> DEFINE longer == Lengthened(r.queue, r.path, new)
  <2>3. /\ longer \in Seq(Seq(Nodes)) /\ \A i \in 1..Len(longer) : longer[i] # <<>>
    <3>1. /\ longer \in Seq(Seq(Nodes)) /\ Len(longer) \in Nat
          /\ \A i \in 1..Len(r.queue) : longer[i] = r.queue[i]
          /\ \A i \in 1..Len(longer) : ~(i <= Len(r.queue)) => \E d \in new : longer[i] = Append(r.path, d)
      BY <2>2 DEF Continues
    <3>2. \A d \in new : Append(r.path, d) # <<>>
      BY <1>2, <1>5, AppendProperties
    <3>3. Len(r.queue) \in Nat
      BY <1>5, LenProperties
    <3>4. \A i \in 1..Len(longer) : i \in 1..Len(r.queue) \/ ~(i <= Len(r.queue))
      BY <3>1, <3>3
    <3> HIDE DEF longer, new, S
    <3> QED
      BY <1>1, <3>1, <3>2, <3>4 DEF Typed
  <2>4. longer = r.queue \o [i \in 1..Cardinality(new) |-> Append(r.path, InOrder(new)[i])]
    BY DEF Lengthened
  <2>5. (r.clean /\ Clean(s)) \in BOOLEAN /\ r.visited \cup new \in SUBSET Nodes
    BY <1>1, <1>2
  <2>6. m = [r EXCEPT !.pc = "next", !.visited = r.visited \cup new, !.clean = r.clean /\ Clean(s),
                      !.queue = longer]
    BY <2>4
  <2> HIDE DEF longer, m, new
  <2>7. m \in Search
    BY <1>1, <2>3, <2>5, <2>6 DEF Search
  <2>8. /\ m.pc = "next" /\ m.visited = r.visited \cup new /\ m.clean = (r.clean /\ Clean(s))
        /\ m.queue = longer
        /\ m.asked = r.asked /\ m.path = r.path /\ m.limit = r.limit /\ m.found = r.found /\ m.short = r.short
    BY <1>1, <2>6 DEF Search
  <2>9. Typed(m)
    BY <1>1, <2>3, <2>7, <2>8 DEF Typed
  <2>10. (m.clean => r.clean) /\ (m.clean /\ ~r.short => S = Called(calls, End(r.path)))
    BY <1>4, <2>8
  <2>11. /\ m.visited = r.visited \cup (S \ r.visited)
         /\ m.queue = r.queue \o [i \in 1..Cardinality(S \ r.visited) |->
                                    Append(r.path, InOrder(S \ r.visited)[i])]
    BY <2>4, <2>8 DEF new
  <2> HIDE DEF S
  <2>12. Holds(calls, m)
    BY <1>1, <1>2, <1>3, <1>7, <2>8, <2>10, <2>11, NeighboursHold
  <2>13. search'[s] = m /\ Moves(s)
    BY <2>1 DEF Shape, Moves
  <2>14. Shape'
    BY <1>3, <2>1, <2>7, <2>9, <2>13 DEF Shape, Moves, graph
  <2> QED
    BY <1>1, <1>3, <2>8, <2>12, <2>13, <2>14
<1> QED
  BY <1>6, <1>7

(***************************************************************************)
(* The graph through the steps.                                            *)
(***************************************************************************)
LEMMA GraphUntouched ==
  ASSUME Shape, GraphInv, NEW s \in Searches, Moves(s), UNCHANGED <<calls, graph>>,
         search[s].pc \notin Redoing, search'[s].pc \notin Redoing,
         search'[s].pc = "read" /\ ~search'[s].short => At(s)' \in recorded
  PROVE  GraphInv'
<1>1. \A t \in Searches, n \in Nodes : Redoes(t, n)' <=> Redoes(t, n)
  BY DEF Moves, Redoes, At
<1>2. \A t \in Searches, n \in Nodes : Finishes(t, n)' <=> Finishes(t, n)
  BY DEF Moves, Redoes, At, Finishes, graph, Stored, Callees
<1>3. \A n \in Nodes : Kept(n)' <=> Kept(n)
  BY <1>1 DEF Kept, graph
<1>4. ShowsNoMore'
  BY <1>3 DEF GraphInv, ShowsNoMore, graph, Stored, Callees
<1>5. ShowsAll'
  BY <1>2, <1>3 DEF GraphInv, ShowsAll, graph, Stored, Callees
<1>6. WritesCalls'
  BY DEF GraphInv, WritesCalls, Moves, Redoing, At, Callees
<1>7. ReadsRecorded'
  BY DEF GraphInv, ReadsRecorded, Moves, At, graph
<1> QED
  BY <1>4, <1>5, <1>6, <1>7 DEF GraphInv

LEMMA InvalidateKeepsGraph ==
  ASSUME Shape, GraphInv, NEW s \in Searches, InvalidateOutgoingCalls(s), Moves(s),
         search[s].pc = "drop", search'[s].pc = "ask", At(s)' = At(s)
  PROVE  GraphInv'
<1>1. UNCHANGED <<calls, recorded, spoiled>> /\ edges' = {e \in edges : e[1] # At(s)}
  BY DEF InvalidateOutgoingCalls
<1>2. \A n \in Nodes : Stored(n)' = IF n = At(s) THEN {} ELSE Stored(n)
  BY <1>1 DEF Stored
<1>3. \A n : Callees(n)' = Callees(n)
  BY <1>1 DEF Callees
<1>4. \A t \in Searches, n \in Nodes : n # At(s) => (Redoes(t, n)' <=> Redoes(t, n))
  BY DEF Moves, Redoes, At, Redoing
<1>5. Redoes(s, At(s))' /\ Finishes(s, At(s))'
  BY DEF Redoes, Finishes, Redoing
<1>6. \A n \in Nodes : n # At(s) => (Kept(n)' <=> Kept(n))
  BY <1>1, <1>4 DEF Kept
<1>7. \A t \in Searches, n \in Nodes : n # At(s) /\ Finishes(t, n) => Finishes(t, n)'
  <2> SUFFICES ASSUME NEW t \in Searches, NEW n \in Nodes, n # At(s), Finishes(t, n)
               PROVE  Finishes(t, n)'
    OBVIOUS
  <2>1. t # s
    BY DEF Finishes, Redoes, Redoing
  <2>2. search'[t] = search[t]
    BY <2>1 DEF Moves
  <2> QED
    BY <1>2, <1>3, <1>4, <2>2 DEF Finishes
<1>8. ShowsNoMore'
  BY <1>2, <1>3, <1>6 DEF GraphInv, ShowsNoMore
<1>9. ShowsAll'
  <2> SUFFICES ASSUME NEW n \in Nodes, Kept(n)', n \notin spoiled'
               PROVE  Callees(n)' \subseteq Stored(n)' \/ \E t \in Searches : Finishes(t, n)'
    BY DEF ShowsAll
  <2>1. CASE n = At(s)
    BY <1>5, <2>1
  <2>2. CASE n # At(s)
    <3>1. Callees(n) \subseteq Stored(n) \/ \E t \in Searches : Finishes(t, n)
      BY <1>1, <1>6, <2>2 DEF GraphInv, ShowsAll
    <3> QED
      BY <1>2, <1>3, <1>7, <2>2, <3>1
  <2> QED
    BY <2>1, <2>2
<1>10. WritesCalls'
  BY <1>3 DEF GraphInv, WritesCalls, Moves, At
<1>11. ReadsRecorded'
  BY <1>1 DEF GraphInv, ReadsRecorded, Moves, At
<1> QED
  BY <1>8, <1>9, <1>10, <1>11 DEF GraphInv

LEMMA AskKeepsGraph ==
  ASSUME Shape, GraphInv, NEW s \in Searches, Ask(s), Moves(s), search[s].pc = "ask", At(s)' = At(s),
         \/ search'[s].pc = "fail"
         \/ search'[s].pc = "write" /\ search'[s].todo = Callees(At(s))
  PROVE  GraphInv'
<1>1. UNCHANGED <<calls, edges, recorded, spoiled>>
  BY DEF Ask, graph
<1>2. \A n : Stored(n)' = Stored(n) /\ Callees(n)' = Callees(n)
  BY <1>1 DEF Stored, Callees
<1>3. \A t \in Searches, n \in Nodes : Redoes(t, n)' <=> Redoes(t, n)
  BY DEF Moves, Redoes, At, Redoing
<1>4. \A n \in Nodes : Kept(n)' <=> Kept(n)
  BY <1>1, <1>3 DEF Kept
<1>5. \A t \in Searches, n \in Nodes : Finishes(t, n) => Finishes(t, n)'
  <2> SUFFICES ASSUME NEW t \in Searches, NEW n \in Nodes, Finishes(t, n) PROVE Finishes(t, n)'
    OBVIOUS
  <2>1. Redoes(t, n)'
    BY <1>3 DEF Finishes
  <2>2. CASE t = s
    <3>1. At(s) = n
      BY <2>2 DEF Finishes, Redoes
    <3> QED
      BY <1>2, <2>1, <2>2, <3>1 DEF Finishes
  <2>3. CASE t # s
    <3>1. search'[t] = search[t]
      BY <2>3 DEF Moves
    <3> QED
      BY <1>2, <2>1, <3>1 DEF Finishes
  <2> QED
    BY <2>2, <2>3
<1>6. ShowsNoMore' /\ ShowsAll'
  BY <1>1, <1>2, <1>4, <1>5 DEF GraphInv, ShowsNoMore, ShowsAll
<1>7. WritesCalls'
  <2> SUFFICES ASSUME NEW t \in Searches, search'[t].pc = "write" PROVE search'[t].todo \subseteq Callees(At(t))'
    BY DEF WritesCalls
  <2>1. CASE t = s
    BY <1>1, <2>1 DEF Callees
  <2>2. CASE t # s
    BY <1>1, <2>2 DEF GraphInv, WritesCalls, Moves, At, Callees
  <2> QED
    BY <2>1, <2>2
<1>8. ReadsRecorded'
  BY <1>1 DEF GraphInv, ReadsRecorded, Moves, At
<1> QED
  BY <1>6, <1>7, <1>8 DEF GraphInv

LEMMA WriteKeepsGraph ==
  ASSUME Shape, GraphInv, NEW s \in Searches, Write(s), Moves(s),
         search[s].pc = "write", search'[s].pc = "write", At(s)' = At(s), NEW d \in search[s].todo,
         edges' = edges \cup {<<At(s), d>>}, search'[s].todo = search[s].todo \ {d}
  PROVE  GraphInv'
<1>1. UNCHANGED <<calls, recorded, spoiled>>
  BY DEF Write
<1>2. \A n \in Nodes : Stored(n) \subseteq Stored(n)' /\ (n # At(s) => Stored(n)' = Stored(n))
  BY DEF Stored
<1>3. d \in Callees(At(s)) /\ search[s].todo \subseteq Callees(At(s))
  BY DEF GraphInv, WritesCalls
<1>4. d \in Stored(At(s))' /\ Stored(At(s))' \subseteq Stored(At(s)) \cup {d}
  BY <1>3 DEF Stored, Callees
<1>5. \A n : Callees(n)' = Callees(n)
  BY <1>1 DEF Callees
<1>6. \A t \in Searches, n \in Nodes : Redoes(t, n)' <=> Redoes(t, n)
  BY DEF Moves, Redoes, At, Redoing
<1>7. \A n \in Nodes : Kept(n)' <=> Kept(n)
  BY <1>1, <1>6 DEF Kept
<1>8. \A t \in Searches, n \in Nodes : Finishes(t, n) => Finishes(t, n)'
  <2> SUFFICES ASSUME NEW t \in Searches, NEW n \in Nodes, Finishes(t, n) PROVE Finishes(t, n)'
    OBVIOUS
  <2>1. Redoes(t, n)'
    BY <1>6 DEF Finishes
  <2>2. CASE t = s
    <3>1. At(s) = n /\ Callees(n) \subseteq Stored(n) \cup search[s].todo
      BY <2>2 DEF Finishes, Redoes
    <3>2. Callees(n)' \subseteq Stored(n)' \cup search'[s].todo
      BY <1>2, <1>4, <1>5, <3>1
    <3> QED
      BY <2>1, <2>2, <3>2 DEF Finishes
  <2>3. CASE t # s
    <3>1. search'[t] = search[t]
      BY <2>3 DEF Moves
    <3> QED
      BY <1>2, <1>5, <2>1, <3>1 DEF Finishes
  <2> QED
    BY <2>2, <2>3
<1>9. ShowsNoMore'
  <2> SUFFICES ASSUME NEW n \in Nodes, Kept(n)' PROVE Stored(n)' \subseteq Callees(n)'
    BY DEF ShowsNoMore
  <2>1. Stored(n) \subseteq Callees(n)
    BY <1>7 DEF GraphInv, ShowsNoMore
  <2> QED
    BY <1>2, <1>3, <1>4, <1>5, <2>1
<1>10. ShowsAll'
  <2> SUFFICES ASSUME NEW n \in Nodes, Kept(n)', n \notin spoiled'
               PROVE  Callees(n)' \subseteq Stored(n)' \/ \E t \in Searches : Finishes(t, n)'
    BY DEF ShowsAll
  <2>1. Callees(n) \subseteq Stored(n) \/ \E t \in Searches : Finishes(t, n)
    BY <1>1, <1>7 DEF GraphInv, ShowsAll
  <2> QED
    BY <1>2, <1>5, <1>8, <2>1
<1>11. WritesCalls'
  BY <1>3, <1>5 DEF GraphInv, WritesCalls, Moves, At
<1>12. ReadsRecorded'
  BY <1>1 DEF GraphInv, ReadsRecorded, Moves, At
<1> QED
  BY <1>9, <1>10, <1>11, <1>12 DEF GraphInv

LEMMA RecordKeepsGraph ==
  ASSUME Shape, GraphInv, NEW s \in Searches, SetCalleesCacheHash(s), Moves(s),
         search'[s].pc = "read", At(s)' = At(s),
         search[s].pc = "fail" \/ (search[s].pc = "write" /\ search[s].todo = {})
  PROVE  GraphInv'
<1>1. /\ UNCHANGED <<calls, edges>> /\ recorded' = recorded \cup {At(s)} /\ spoiled \subseteq spoiled'
      /\ search[s].pc = "fail" => At(s) \in spoiled'
  BY DEF SetCalleesCacheHash, Is
<1>2. \A n : Stored(n)' = Stored(n) /\ Callees(n)' = Callees(n)
  BY <1>1 DEF Stored, Callees
<1>3. \A t \in Searches, n \in Nodes : Redoes(t, n)' => Redoes(t, n)
  BY DEF Moves, Redoes, At, Redoing
<1>4. Redoes(s, At(s))
  BY DEF Redoes, Redoing
<1>5. \A n \in Nodes : Kept(n)' => Kept(n)
  BY <1>1, <1>3, <1>4 DEF Kept
<1>6. \A t \in Searches \ {s}, n \in Nodes : Finishes(t, n) => Finishes(t, n)'
  BY <1>2 DEF Finishes, Moves, Redoes, At
<1>7. \A n \in Nodes : Finishes(s, n) /\ n \notin spoiled' => Callees(n) \subseteq Stored(n)
  BY <1>1 DEF Finishes, Redoes
<1>8. ShowsNoMore'
  BY <1>2, <1>5 DEF GraphInv, ShowsNoMore
<1>9. ShowsAll'
  <2> SUFFICES ASSUME NEW n \in Nodes, Kept(n)', n \notin spoiled'
               PROVE  Callees(n)' \subseteq Stored(n)' \/ \E t \in Searches : Finishes(t, n)'
    BY DEF ShowsAll
  <2>1. Callees(n) \subseteq Stored(n) \/ \E t \in Searches : Finishes(t, n)
    BY <1>1, <1>5 DEF GraphInv, ShowsAll
  <2> QED
    BY <1>2, <1>6, <1>7, <2>1
<1>10. WritesCalls'
  BY <1>2 DEF GraphInv, WritesCalls, Moves, At
<1>11. ReadsRecorded'
  BY <1>1 DEF GraphInv, ReadsRecorded, Moves, At
<1> QED
  BY <1>8, <1>9, <1>10, <1>11 DEF GraphInv

-----------------------------------------------------------------------------
LEMMA HoldsForAll ==
  ASSUME SearchesHold, NEW s \in Searches, Moves(s), calls' = calls,
         search'[s].pc = "idle" \/ Holds(calls', search'[s])
  PROVE  SearchesHold'
<1> SUFFICES ASSUME NEW t \in Searches, search'[t].pc # "idle" PROVE Holds(calls', search'[t])
  BY DEF SearchesHold
<1>1. CASE t = s
  BY <1>1
<1>2. CASE t # s
  <2>1. search'[t] = search[t]
    BY <1>2 DEF Moves
  <2>2. Holds(calls, search[t])
    BY <2>1 DEF SearchesHold
  <2> QED
    BY <2>1, <2>2
<1> QED
  BY <1>1, <1>2

LEMMA NextPreservesIInv == IInv /\ [Next]_vars => IInv'
<1> SUFFICES ASSUME IInv, [Next]_vars PROVE IInv'
  OBVIOUS
<1>1. Shape /\ GraphInv /\ SearchesHold
  BY DEF IInv
<1>2. ASSUME NEW s \in Searches, NEW q \in Questions, Begin(s, q) PROVE IInv'
  <2>1. q \in Question
    BY CallPathAssumption DEF Question
  <2>2. Shape' /\ Moves(s) /\ search'[s].pc \in {"next", "done"} /\ Holds(calls', search'[s])
    BY <1>1, <1>2, <2>1, BeginIs
  <2>3. UNCHANGED <<calls, graph>> /\ search[s].pc \in {"idle", "done"}
    BY <1>2 DEF Begin
  <2>4. GraphInv'
    BY <1>1, <2>2, <2>3, GraphUntouched DEF Redoing
  <2>5. SearchesHold'
    BY <1>1, <2>2, <2>3, HoldsForAll
  <2> QED
    BY <2>2, <2>4, <2>5 DEF IInv
<1>3. ASSUME NEW s \in Searches, NEW late \in BOOLEAN, Unresolved(s, late) PROVE IInv'
  <2>1. Shape' /\ Moves(s) /\ search'[s].pc = "idle"
    BY <1>1, <1>3, UnresolvedIs
  <2>2. UNCHANGED <<calls, graph>> /\ search[s].pc \in {"idle", "done"}
    BY <1>3 DEF Unresolved
  <2>3. GraphInv'
    BY <1>1, <2>1, <2>2, GraphUntouched DEF Redoing
  <2>4. SearchesHold'
    BY <1>1, <2>1, <2>2, HoldsForAll
  <2> QED
    BY <2>1, <2>3, <2>4 DEF IInv
<1>4. ASSUME NEW s \in Searches, search[s].pc # "idle" PROVE Holds(calls, search[s])
  BY <1>1, <1>4 DEF SearchesHold
<1>5. ASSUME NEW s \in Searches, NextNode(s) PROVE IInv'
  <2>1. search[s].pc = "next" /\ UNCHANGED <<calls, graph>>
    BY <1>5 DEF NextNode, Is
  <2>2. Shape' /\ Moves(s) /\ search'[s].pc \in {"next", "check"} /\ Holds(calls', search'[s])
    BY <1>1, <1>4, <1>5, <2>1, NextNodeIs
  <2>3. GraphInv'
    BY <1>1, <2>1, <2>2, GraphUntouched DEF Redoing
  <2>4. SearchesHold'
    BY <1>1, <2>1, <2>2, HoldsForAll
  <2> QED
    BY <2>2, <2>3, <2>4 DEF IInv
<1>6. ASSUME NEW s \in Searches, NotFound(s) PROVE IInv'
  <2>1. search[s].pc = "next" /\ UNCHANGED <<calls, graph>>
    BY <1>6 DEF NotFound, Is
  <2>2. Shape' /\ Moves(s) /\ search'[s].pc = "done" /\ Holds(calls', search'[s])
    BY <1>1, <1>4, <1>6, <2>1, NotFoundIs
  <2>3. GraphInv'
    BY <1>1, <2>1, <2>2, GraphUntouched DEF Redoing
  <2>4. SearchesHold'
    BY <1>1, <2>1, <2>2, HoldsForAll
  <2> QED
    BY <2>2, <2>3, <2>4 DEF IInv
<1>7. ASSUME NEW s \in Searches, Expand(s) PROVE IInv'
  <2>1. search[s].pc = "check" /\ UNCHANGED <<calls, graph>>
    BY <1>7 DEF Expand, Is
  <2>2. /\ Shape' /\ Moves(s) /\ search'[s].pc \in {"drop", "read"} /\ Holds(calls', search'[s])
        /\ At(s)' = At(s)
        /\ search'[s].pc = "read" /\ ~search'[s].short => At(s) \in recorded
    BY <1>1, <1>4, <1>7, <2>1, ExpandIs
  <2>3. GraphInv'
    BY <1>1, <2>1, <2>2, GraphUntouched DEF Redoing
  <2>4. SearchesHold'
    BY <1>1, <2>1, <2>2, HoldsForAll
  <2> QED
    BY <2>2, <2>3, <2>4 DEF IInv
<1>8. ASSUME NEW s \in Searches, InvalidateOutgoingCalls(s) PROVE IInv'
  <2>1. search[s].pc = "drop" /\ calls' = calls
    BY <1>8 DEF InvalidateOutgoingCalls, Is
  <2>2. /\ Shape' /\ Moves(s) /\ search[s].pc = "drop" /\ search'[s].pc = "ask"
        /\ Holds(calls', search'[s]) /\ At(s)' = At(s)
    BY <1>1, <1>4, <1>8, <2>1, InvalidateIs
  <2>3. GraphInv'
    BY <1>1, <1>8, <2>2, InvalidateKeepsGraph
  <2>4. SearchesHold'
    BY <1>1, <2>1, <2>2, HoldsForAll
  <2> QED
    BY <2>2, <2>3, <2>4 DEF IInv
<1>9. ASSUME NEW s \in Searches, Ask(s) PROVE IInv'
  <2>1. search[s].pc = "ask" /\ calls' = calls
    BY <1>9 DEF Ask, Is
  <2>2. /\ Shape' /\ Moves(s) /\ search[s].pc = "ask" /\ Holds(calls', search'[s]) /\ At(s)' = At(s)
        /\ \/ search'[s].pc = "fail"
           \/ search'[s].pc = "write" /\ search'[s].todo = Callees(At(s))
    BY <1>1, <1>4, <1>9, <2>1, AskIs
  <2>3. GraphInv'
    BY <1>1, <1>9, <2>2, AskKeepsGraph
  <2>4. SearchesHold'
    BY <1>1, <2>1, <2>2, HoldsForAll
  <2> QED
    BY <2>2, <2>3, <2>4 DEF IInv
<1>10. ASSUME NEW s \in Searches, Write(s) PROVE IInv'
  <2>1. search[s].pc = "write" /\ calls' = calls /\ WritesCalls
    BY <1>1, <1>10 DEF Write, Is, GraphInv
  <2>2. /\ Shape' /\ Moves(s) /\ search[s].pc = "write" /\ search'[s].pc = "write"
        /\ Holds(calls', search'[s]) /\ At(s)' = At(s)
        /\ \E d \in search[s].todo :
              edges' = edges \cup {<<At(s), d>>} /\ search'[s].todo = search[s].todo \ {d}
    BY <1>1, <1>4, <1>10, <2>1, WriteIs
  <2>3. GraphInv'
    BY <1>1, <1>10, <2>2, WriteKeepsGraph
  <2>4. SearchesHold'
    BY <1>1, <2>1, <2>2, HoldsForAll
  <2> QED
    BY <2>2, <2>3, <2>4 DEF IInv
<1>11. ASSUME NEW s \in Searches, SetCalleesCacheHash(s) PROVE IInv'
  <2>1. search[s].pc \in {"fail", "write"} /\ calls' = calls
    BY <1>11 DEF SetCalleesCacheHash, Is
  <2>2. /\ Shape' /\ Moves(s) /\ search'[s].pc = "read" /\ Holds(calls', search'[s]) /\ At(s)' = At(s)
        /\ search[s].pc = "fail" \/ (search[s].pc = "write" /\ search[s].todo = {})
    BY <1>1, <1>4, <1>11, <2>1, RecordIs
  <2>3. GraphInv'
    BY <1>1, <1>11, <2>2, RecordKeepsGraph
  <2>4. SearchesHold'
    BY <1>1, <2>1, <2>2, HoldsForAll
  <2> QED
    BY <2>2, <2>3, <2>4 DEF IInv
<1>12. ASSUME NEW s \in Searches, Neighbours(s) PROVE IInv'
  <2>1. search[s].pc = "read"
    BY <1>12 DEF Neighbours, Is
  <2>2. /\ Shape' /\ Moves(s) /\ search[s].pc = "read" /\ search'[s].pc \in {"next", "done"}
        /\ Holds(calls', search'[s]) /\ UNCHANGED <<calls, graph>>
    BY <1>1, <1>4, <1>12, <2>1, NeighboursIs
  <2>3. GraphInv'
    BY <1>1, <2>2, GraphUntouched DEF Redoing
  <2>4. SearchesHold'
    BY <1>1, <2>2, HoldsForAll
  <2> QED
    BY <2>2, <2>3, <2>4 DEF IInv
<1>13. CASE UNCHANGED vars
  <2>1. Shape'
    BY <1>1, <1>13 DEF vars, Shape
  <2>2. GraphInv'
    <3>1. \A t, n : (Redoes(t, n)' <=> Redoes(t, n)) /\ (Finishes(t, n)' <=> Finishes(t, n))
      BY <1>13 DEF vars, Redoes, Finishes, At, Stored, Callees
    <3>2. \A n : (Kept(n)' <=> Kept(n)) /\ Stored(n)' = Stored(n) /\ Callees(n)' = Callees(n)
      BY <1>13, <3>1 DEF vars, Kept, Stored, Callees
    <3>3. ShowsNoMore' /\ ShowsAll'
      BY <1>1, <1>13, <3>1, <3>2 DEF vars, GraphInv, ShowsNoMore, ShowsAll
    <3>4. WritesCalls' /\ ReadsRecorded'
      BY <1>1, <1>13, <3>2 DEF vars, GraphInv, WritesCalls, ReadsRecorded, At, Callees
    <3> QED
      BY <3>3, <3>4 DEF GraphInv
  <2>3. SearchesHold'
    BY <1>1, <1>13 DEF vars, SearchesHold
  <2> QED
    BY <2>1, <2>2, <2>3 DEF IInv
<1> QED
  BY <1>2, <1>3, <1>5, <1>6, <1>7, <1>8, <1>9, <1>10, <1>11, <1>12, <1>13 DEF Next, SearchStep

\* query/dto.rs: a search that nothing disturbed and that met no limit has looked at
\* everything there is to reach: closed under calls, what it visited holds no way.
THEOREM NegativesAreExhaustive == Spec => []ExhaustiveUnlessDisturbed
<1>1. IInv => ExhaustiveUnlessDisturbed
  <2> SUFFICES ASSUME IInv, NEW s \in Searches, search[s].pc = "done", search[s].clean,
                      ~search[s].found, ~search[s].limit
               PROVE  search[s].asked.to \notin Within(search[s].asked.from, N)
    BY DEF ExhaustiveUnlessDisturbed
  <2>1. Typed(search[s]) /\ Holds(calls, search[s])
    BY WorkIs DEF IInv, SearchesHold
  <2>2. search[s].asked.to \notin Reach(calls, search[s].asked.from, N)
    BY <2>1 DEF Typed, Holds, SearchEnded
  <2> QED
    BY <2>2, WithinIs
<1> QED
  BY <1>1, InitEstablishesIInv, NextPreservesIInv, PTL DEF Spec

\* mcp-tools.md: what find_call_path finds, with a server and budget for every node, is
\* a way of at most max_depth calls exactly if there is one, and none is shorter.
THEOREM PathsAreShortest == Spec => []FindsTheShortest
<1>1. IInv => FindsTheShortest
  <2> SUFFICES ASSUME IInv, NEW s \in Searches, search[s].pc = "done", search[s].clean, ~search[s].short
               PROVE  /\ search[s].found <=> search[s].asked.to \in Within(search[s].asked.from, search[s].asked.depth)
                      /\ search[s].found =>
                           /\ search[s].path[1] = search[s].asked.from
                           /\ search[s].path[Len(search[s].path)] = search[s].asked.to
                           /\ \A i \in 1..Len(search[s].path) - 1 :
                                 <<search[s].path[i], search[s].path[i + 1]>> \in calls
                           /\ Len(search[s].path) > 1 =>
                                 search[s].asked.to \notin Within(search[s].asked.from, Len(search[s].path) - 2)
    BY DEF FindsTheShortest
  <2> DEFINE r == search[s]
  <2>1. Typed(r) /\ SearchEnded(calls, r)
    BY WorkIs DEF IInv, SearchesHold, Holds
  <2>2. r.asked.depth \in Nat
    BY <2>1 DEF Typed, Search, Question
  <2>3. \A k : Within(r.asked.from, k) = Reach(calls, r.asked.from, k)
    BY WithinIs
  <2> HIDE DEF r
  <2>4. CASE ~r.found
    BY <2>1, <2>3, <2>4 DEF SearchEnded, r
  <2>5. CASE r.found
    <3>1. /\ Way(calls, r.asked.from, r.path) /\ End(r.path) = r.asked.to
          /\ Len(r.path) <= r.asked.depth + 1
          /\ Len(r.path) > 1 => r.asked.to \notin Reach(calls, r.asked.from, Len(r.path) - 2)
      BY <2>1, <2>5 DEF SearchEnded
    <3>2. Len(r.path) \in Nat \ {0} /\ End(r.path) \in Reach(calls, r.asked.from, Len(r.path) - 1)
      BY <3>1, WayLeads DEF End
    <3>3. Len(r.path) - 1 \in Nat /\ Len(r.path) - 1 <= r.asked.depth
      BY <2>2, <3>1, <3>2
    <3>4. Reach(calls, r.asked.from, Len(r.path) - 1) \subseteq Reach(calls, r.asked.from, r.asked.depth)
      BY <2>2, <3>3, ReachGrows
    <3>5. r.asked.to \in Reach(calls, r.asked.from, r.asked.depth)
      BY <3>1, <3>2, <3>4
    <3> QED
      BY <2>3, <2>5, <3>1, <3>5 DEF Way, End, r
  <2> QED
    BY <2>4, <2>5
<1> QED
  BY <1>1, InitEstablishesIInv, NextPreservesIInv, PTL DEF Spec

-----------------------------------------------------------------------------
(***************************************************************************)
(* The pool.  The strengthening says what the lock of the map is for: an   *)
(* entry is a supervisor of its language, and what a restart has taken is  *)
(* in no entry any more.                                                   *)
(***************************************************************************)
Alive == {"new", "starting", "up", "failing", "stopping"}
PoolStatus == Alive \cup {"unborn", "closed"}

PoolShape ==
    /\ pool \in [Languages -> Supervisors \cup {None}]
    /\ status \in [Supervisors -> PoolStatus]
    /\ speaks \in [Supervisors -> Languages \cup {None}]
    /\ closing \subseteq Supervisors /\ taken \in [Restarters -> SUBSET Supervisors]
    /\ \A s \in Supervisors : status[s] # "unborn" => speaks[s] \in Languages

EntriesAreBorn == \A l \in Languages : pool[l] # None => speaks[pool[l]] = l /\ status[pool[l]] # "unborn"
TakenAreOut == \A r \in Restarters : \A s \in taken[r] :
                   status[s] # "unborn" /\ \A l \in Languages : pool[l] # s

SnapshotIsBorn == (\A s \in closing : status[s] # "unborn") /\ (daemon = "serving" => closing = {})

PoolInv == PoolShape /\ EntriesAreBorn /\ TakenAreOut /\ SnapshotIsBorn /\ NoServerIsLost /\ PoolOffersLiveOnes

\* A bound on supervisors is a set of numbers, none of them None.
LEMMA NoneIsNoSupervisor ==
  None \notin Supervisors
  BY PoolAssumption DEF Supervisors

LEMMA InitEstablishesPoolInv ==
  PoolInit => PoolInv
  BY NoneIsNoSupervisor
  DEF PoolInit, PoolInv, PoolShape, PoolStatus, Alive, EntriesAreBorn, TakenAreOut, SnapshotIsBorn, NoServerIsLost, PoolOffersLiveOnes

\* Steps that leave the pool alone leave the invariant alone.
LEMMA PoolUntouched ==
  ASSUME PoolInv, UNCHANGED supervisors, daemon' = daemon \/ daemon' # "serving"
  PROVE  PoolInv'
  BY DEF PoolInv, PoolShape, supervisors, EntriesAreBorn, TakenAreOut, SnapshotIsBorn, NoServerIsLost, PoolOffersLiveOnes

\* A supervisor with a server, or soon with one, changes its status and stays so.
LEMMA StatusOnly ==
  ASSUME PoolInv, NEW s \in Supervisors, NEW now \in Alive \ {"stopping"},
         status[s] \in Alive, Changes(s, now), daemon' = daemon
  PROVE  PoolInv'
<1>1. status' = [status EXCEPT ![s] = now] /\ UNCHANGED <<pool, speaks, taken, closing, daemon>>
  BY DEF Changes
<1>2. \A u \in Supervisors : status'[u] = IF u = s THEN now ELSE status[u]
  BY <1>1 DEF PoolInv, PoolShape
<1>3. \A u \in Supervisors : (status'[u] # "unborn" <=> status[u] # "unborn")
                             /\ (status'[u] = "closed" => status[u] = "closed")
                             /\ (status'[u] = "stopping" => status[u] = "stopping")
  BY <1>2 DEF Alive
<1>4. PoolShape'
  BY <1>1, <1>3 DEF PoolInv, PoolShape, PoolStatus
<1>5. EntriesAreBorn'
  BY <1>1, <1>3 DEF PoolInv, PoolShape, EntriesAreBorn
<1>6. TakenAreOut' /\ SnapshotIsBorn'
  BY <1>1, <1>3 DEF PoolInv, PoolShape, TakenAreOut, SnapshotIsBorn
<1>7. NoServerIsLost'
  <2> SUFFICES ASSUME NEW u \in Supervisors, status'[u] \notin {"unborn", "closed"}
               PROVE  pool[speaks[u]] = u \/ u \in closing \/ \E r \in Restarters : u \in taken[r]
    BY <1>1 DEF NoServerIsLost
  <2>1. status[u] \notin {"unborn", "closed"}
    BY <1>2 DEF Alive
  <2> QED
    BY <2>1 DEF PoolInv, NoServerIsLost
<1>8. PoolOffersLiveOnes'
  BY <1>1, <1>3 DEF PoolInv, PoolShape, PoolOffersLiveOnes
<1> QED
  BY <1>4, <1>5, <1>6, <1>7, <1>8 DEF PoolInv

\* A supervisor that a restart has taken out of the map, or that shutdown_all has in its
\* snapshot, stops: nothing the map offers to a serving daemon is touched.
LEMMA StopsTheTaken ==
  ASSUME PoolInv, NEW s \in Supervisors, NEW now \in {"stopping", "closed"},
         status[s] \in Alive, Changes(s, now), daemon' = daemon,
         daemon # "serving" \/ \A l \in Languages : pool[l] # s
  PROVE  PoolInv'
<1>1. status' = [status EXCEPT ![s] = now] /\ UNCHANGED <<pool, speaks, taken, closing, daemon>>
  BY DEF Changes
<1>2. \A u \in Supervisors : status'[u] = IF u = s THEN now ELSE status[u]
  BY <1>1 DEF PoolInv, PoolShape
<1>3. \A u \in Supervisors : status'[u] # "unborn" <=> status[u] # "unborn"
  BY <1>2 DEF Alive
<1>4. PoolShape'
  BY <1>1, <1>3 DEF PoolInv, PoolShape, PoolStatus, Alive
<1>5. EntriesAreBorn'
  BY <1>1, <1>3 DEF PoolInv, PoolShape, EntriesAreBorn
<1>6. TakenAreOut' /\ SnapshotIsBorn'
  BY <1>1, <1>3 DEF PoolInv, PoolShape, TakenAreOut, SnapshotIsBorn
<1>7. NoServerIsLost'
  <2> SUFFICES ASSUME NEW u \in Supervisors, status'[u] \notin {"unborn", "closed"}
               PROVE  pool[speaks[u]] = u \/ u \in closing \/ \E r \in Restarters : u \in taken[r]
    BY <1>1 DEF NoServerIsLost
  <2>1. status[u] \notin {"unborn", "closed"}
    BY <1>2 DEF Alive
  <2> QED
    BY <2>1 DEF PoolInv, NoServerIsLost
<1>8. PoolOffersLiveOnes'
  BY <1>1, <1>2 DEF PoolInv, PoolShape, PoolOffersLiveOnes
<1> QED
  BY <1>4, <1>5, <1>6, <1>7, <1>8 DEF PoolInv

LEMMA SupervisorForPreservesPoolInv ==
  ASSUME PoolInv, NEW t \in Tasks, NEW l \in Languages, SupervisorFor(t, l)
  PROVE  PoolInv'
<1>1. CASE pool[l] # None
  BY <1>1, PoolUntouched DEF SupervisorFor
<1>2. CASE pool[l] = None
  <2> DEFINE s == NewSupervisor
  <2>1. /\ s \in Supervisors /\ status[s] = "unborn"
        /\ pool' = [pool EXCEPT ![l] = s]
        /\ status' = [status EXCEPT ![s] = "new"] /\ speaks' = [speaks EXCEPT ![s] = l]
        /\ UNCHANGED <<taken, closing, daemon>>
    BY <1>2 DEF SupervisorFor, NewSupervisor, Unborn
  <2> HIDE DEF s
  <2>2. PoolShape'
    BY <2>1 DEF PoolInv, PoolShape, PoolStatus, Alive
  <2>3. \A m \in Languages : m # l => pool'[m] = pool[m] /\ pool[m] # s
    BY <2>1, NoneIsNoSupervisor DEF PoolInv, PoolShape, EntriesAreBorn
  <2>4. \A u \in Supervisors : u # s => status'[u] = status[u] /\ speaks'[u] = speaks[u]
    BY <2>1 DEF PoolInv, PoolShape
  <2>5. pool'[l] = s /\ status'[s] = "new" /\ speaks'[s] = l
    BY <2>1 DEF PoolInv, PoolShape
  <2>6. EntriesAreBorn'
    BY <2>1, <2>3, <2>4, <2>5 DEF PoolInv, PoolShape, EntriesAreBorn
  <2>7. TakenAreOut'
    BY <2>1, <2>3, <2>4, <2>5 DEF PoolInv, PoolShape, TakenAreOut
  <2>8. NoServerIsLost'
    <3> SUFFICES ASSUME NEW u \in Supervisors, u # s, status[u] \notin {"unborn", "closed"}
                 PROVE  pool'[speaks[u]] = u \/ u \in closing \/ \E r \in Restarters : u \in taken[r]
      BY <2>1, <2>4, <2>5 DEF NoServerIsLost
    <3>1. pool[speaks[u]] = u => speaks[u] # l
      BY <1>2, NoneIsNoSupervisor
    <3>2. pool[speaks[u]] = u => pool'[speaks[u]] = u
      BY <2>1, <3>1 DEF PoolInv, PoolShape
    <3> QED
      BY <3>2 DEF PoolInv, NoServerIsLost
  <2>9. PoolOffersLiveOnes' /\ SnapshotIsBorn'
    BY <2>1, <2>3, <2>4, <2>5 DEF PoolInv, PoolShape, PoolOffersLiveOnes, SnapshotIsBorn
  <2> QED
    BY <2>2, <2>6, <2>7, <2>8, <2>9 DEF PoolInv
<1> QED
  BY <1>1, <1>2

LEMMA AcquireStartsPreservesPoolInv ==
  ASSUME PoolInv, NEW t \in Tasks, AcquireStarts(t)
  PROVE  PoolInv'
<1> DEFINE s == task[t].sup
<1>1. status[s] = "new" /\ Changes(s, "starting") /\ daemon' = daemon
  BY DEF AcquireStarts, Changes
<1> HIDE DEF s
<1>2. CASE s \in Supervisors
  BY <1>1, <1>2, StatusOnly DEF Alive
<1>3. CASE s \notin Supervisors
  <2>1. status' = status /\ UNCHANGED <<pool, speaks, taken, closing>>
    BY <1>1, <1>3 DEF PoolInv, PoolShape, Changes
  <2> QED
    BY <1>1, <2>1, PoolUntouched DEF supervisors
<1> QED
  BY <1>2, <1>3

LEMMA TakeOutPreservesPoolInv ==
  ASSUME PoolInv, NEW r \in Restarters, NEW langs \in SUBSET Languages, TakeOut(r, langs)
  PROVE  PoolInv'
<1>1. /\ taken' = [taken EXCEPT ![r] = Provisioned(langs)]
      /\ pool' = [l \in Languages |-> IF l \in langs THEN None ELSE pool[l]]
      /\ taken[r] = {}
      /\ UNCHANGED <<status, speaks, closing, daemon>>
  BY DEF TakeOut
<1>2. \A u : u \in Provisioned(langs) <=> u # None /\ \E l \in langs : pool[l] = u
  BY DEF Provisioned
<1>3. PoolShape'
  BY <1>1, <1>2 DEF PoolInv, PoolShape
<1>4. EntriesAreBorn'
  BY <1>1 DEF PoolInv, PoolShape, EntriesAreBorn
<1>5. TakenAreOut'
  <2> SUFFICES ASSUME NEW q \in Restarters, NEW u \in taken'[q]
               PROVE  status[u] # "unborn" /\ \A l \in Languages : pool'[l] # u
    BY <1>1 DEF TakenAreOut
  <2>1. CASE q # r
    <3>1. u \in taken[q] /\ u \in Supervisors
      BY <1>1, <2>1 DEF PoolInv, PoolShape
    <3> QED
      BY <1>1, <3>1, NoneIsNoSupervisor DEF PoolInv, TakenAreOut
  <2>2. CASE q = r
    <3>1. u \in Provisioned(langs)
      BY <1>1, <2>2 DEF PoolInv, PoolShape
    <3>2. PICK l \in langs : pool[l] = u /\ u # None
      BY <1>2, <3>1
    <3>3. \A m \in Languages : pool[m] = u => m = l
      BY <3>2 DEF PoolInv, EntriesAreBorn
    <3> QED
      BY <1>1, <3>2, <3>3 DEF PoolInv, EntriesAreBorn
  <2> QED
    BY <2>1, <2>2
<1>6. NoServerIsLost'
  <2> SUFFICES ASSUME NEW u \in Supervisors, status[u] \notin {"unborn", "closed"}
               PROVE  pool'[speaks[u]] = u \/ u \in closing \/ \E q \in Restarters : u \in taken'[q]
    BY <1>1 DEF NoServerIsLost
  <2>1. CASE pool[speaks[u]] = u /\ speaks[u] \in Languages
    <3>1. CASE speaks[u] \in langs
      BY <1>1, <1>2, <2>1, <3>1, NoneIsNoSupervisor DEF PoolInv, PoolShape
    <3>2. CASE speaks[u] \notin langs
      BY <1>1, <2>1, <3>2
    <3> QED
      BY <3>1, <3>2
  <2>2. CASE u \in closing
    BY <2>2
  <2>3. CASE \E q \in Restarters : u \in taken[q]
    BY <1>1, <2>3 DEF PoolInv, PoolShape
  <2> QED
    BY <2>1, <2>2, <2>3 DEF PoolInv, PoolShape, NoServerIsLost
<1>7. PoolOffersLiveOnes' /\ SnapshotIsBorn'
  BY <1>1 DEF PoolInv, PoolShape, PoolOffersLiveOnes, SnapshotIsBorn
<1> QED
  BY <1>3, <1>4, <1>5, <1>6, <1>7 DEF PoolInv

LEMMA ShutDownTakenPreservesPoolInv ==
  ASSUME PoolInv, NEW r \in Restarters, NEW s \in Supervisors, ShutDownTaken(r, s)
  PROVE  PoolInv'
<1>1. s \in taken[r] /\ status[s] \in Alive /\ daemon' = daemon
      /\ \E now \in {"stopping", "closed"} : Changes(s, now)
  BY DEF ShutDownTaken, Stop, Changes, Alive
<1>2. \A l \in Languages : pool[l] # s
  BY <1>1 DEF PoolInv, TakenAreOut
<1> QED
  BY <1>1, <1>2, StopsTheTaken

LEMMA TakenIsDownPreservesPoolInv ==
  ASSUME PoolInv, NEW r \in Restarters, NEW s \in Supervisors, TakenIsDown(r, s)
  PROVE  PoolInv'
<1>1. /\ status[s] = "closed" /\ taken' = [taken EXCEPT ![r] = @ \ {s}]
      /\ UNCHANGED <<pool, status, speaks, closing, daemon>>
  BY DEF TakenIsDown
<1>2. \A q \in Restarters : taken'[q] = IF q = r THEN taken[q] \ {s} ELSE taken[q]
  BY <1>1 DEF PoolInv, PoolShape
<1>3. PoolShape' /\ TakenAreOut' /\ EntriesAreBorn' /\ SnapshotIsBorn' /\ PoolOffersLiveOnes'
  BY <1>1, <1>2 DEF PoolInv, PoolShape, EntriesAreBorn, TakenAreOut, SnapshotIsBorn, PoolOffersLiveOnes
<1>4. NoServerIsLost'
  BY <1>1, <1>2 DEF PoolInv, NoServerIsLost
<1> QED
  BY <1>3, <1>4 DEF PoolInv

LEMMA ShutDownNextPreservesPoolInv ==
  ASSUME PoolInv, NEW s \in Supervisors, ShutDownNext(s) \/ NextIsDown(s)
  PROVE  PoolInv'
<1>1. CASE ShutDownNext(s)
  <2>1. daemon = "closing" /\ status[s] \in Alive /\ daemon' = daemon
        /\ \E now \in {"stopping", "closed"} : Changes(s, now)
    BY <1>1 DEF ShutDownNext, Stop, Changes, Alive
  <2> QED
    BY <2>1, StopsTheTaken
<1>2. CASE NextIsDown(s)
  <2>1. /\ status[s] = "closed" /\ closing' = closing \ {s} /\ daemon = "closing"
        /\ UNCHANGED <<pool, status, speaks, taken, daemon>>
    BY <1>2 DEF NextIsDown
  <2>2. PoolShape' /\ TakenAreOut' /\ EntriesAreBorn' /\ SnapshotIsBorn' /\ PoolOffersLiveOnes'
    BY <2>1 DEF PoolInv, PoolShape, EntriesAreBorn, TakenAreOut, SnapshotIsBorn, PoolOffersLiveOnes
  <2>3. NoServerIsLost'
    BY <2>1 DEF PoolInv, NoServerIsLost
  <2> QED
    BY <2>2, <2>3 DEF PoolInv
<1> QED
  BY <1>1, <1>2

\* The server's own steps; only an actor that was told to stop ends.
LEMMA ServerStepPreservesPoolInv ==
  ASSUME PoolInv, NEW s \in Supervisors, ServerStep(s)
  PROVE  PoolInv'
<1>1. CASE Fails(s) \/ StartsAgain(s) \/ StartEnds(s)
  <2>1. status[s] \in Alive /\ daemon' = daemon /\ \E now \in Alive \ {"stopping"} : Changes(s, now)
    BY <1>1 DEF Fails, StartsAgain, StartEnds, Changes, Alive
  <2> QED
    BY <2>1, StatusOnly
<1>2. CASE StopEnds(s)
  <2>1. status[s] = "stopping" /\ Changes(s, "closed") /\ daemon' = daemon
    BY <1>2 DEF StopEnds, Changes
  <2>2. daemon # "serving" \/ \A l \in Languages : pool[l] # s
    BY <2>1, NoneIsNoSupervisor DEF PoolInv, PoolOffersLiveOnes
  <2> QED
    BY <2>1, <2>2, StopsTheTaken DEF Alive
<1> QED
  BY <1>1, <1>2 DEF ServerStep

LEMMA ShutdownAllPreservesPoolInv ==
  ASSUME PoolInv, ShutdownAll
  PROVE  PoolInv'
<1>1. /\ closing' = Provisioned(Languages) /\ daemon' = "closing" /\ daemon = "serving"
      /\ UNCHANGED <<pool, status, speaks, taken>>
  BY DEF ShutdownAll
<1>2. \A u \in closing' : u \in Supervisors /\ status[u] # "unborn"
  BY <1>1 DEF Provisioned, PoolInv, PoolShape, EntriesAreBorn
<1>3. closing = {}
  BY <1>1 DEF PoolInv, SnapshotIsBorn
<1> QED
  BY <1>1, <1>2, <1>3
  DEF PoolInv, PoolShape, EntriesAreBorn, TakenAreOut, NoServerIsLost, PoolOffersLiveOnes, SnapshotIsBorn

LEMMA NextPreservesPoolInv ==
  PoolInv /\ [PoolNext]_(poolVars) => PoolInv'
<1> SUFFICES ASSUME PoolInv, [PoolNext]_(poolVars) PROVE PoolInv'
  OBVIOUS
<1>1. CASE UNCHANGED poolVars
  BY <1>1, PoolUntouched DEF poolVars, supervisors
<1>2. CASE \E q \in Queries, gated \in BOOLEAN : Enter(q, gated)
  BY <1>2, PoolUntouched DEF Enter
<1>3. CASE \E q \in Queries : QueryStep(q)
  BY <1>3, PoolUntouched DEF QueryStep, Leave, Notify
<1>4. CASE \E w \in Background : Wait(w) \/ GateStep(w)
  BY <1>4, PoolUntouched DEF Wait, GateStep, CheckIdle, Sleep, Wake, NextFile
<1>5. CASE \E t \in Tasks : PoolStep(t) \/ AcquireAnswered(t) \/ Opened(t)
  <2> PICK t \in Tasks : PoolStep(t) \/ AcquireAnswered(t) \/ Opened(t)
    BY <1>5
  <2>1. CASE \E l \in Languages : SupervisorFor(t, l)
    BY <2>1, SupervisorForPreservesPoolInv
  <2>2. CASE NoLanguage(t) \/ AcquireAnswered(t) \/ Opened(t)
    BY <2>2, PoolUntouched DEF NoLanguage, AcquireAnswered, Opened
  <2>3. CASE AcquireStarts(t)
    BY <2>3, AcquireStartsPreservesPoolInv
  <2> QED
    BY <2>1, <2>2, <2>3 DEF PoolStep
<1>6. CASE \E s \in Supervisors : ServerStep(s)
  BY <1>6, ServerStepPreservesPoolInv
<1>7. CASE \E s \in Supervisors : ShutDownNext(s) \/ NextIsDown(s)
  BY <1>7, ShutDownNextPreservesPoolInv
<1>8. CASE \E r \in Restarters, langs \in {{l} : l \in Languages} \cup {Languages} : TakeOut(r, langs)
  <2> PICK r \in Restarters, langs \in {{l} : l \in Languages} \cup {Languages} : TakeOut(r, langs)
    BY <1>8
  <2>1. langs \in SUBSET Languages
    OBVIOUS
  <2> QED
    BY <2>1, TakeOutPreservesPoolInv
<1>9. CASE \E r \in Restarters, s \in Supervisors : ShutDownTaken(r, s)
  BY <1>9, ShutDownTakenPreservesPoolInv
<1>10. CASE \E r \in Restarters, s \in Supervisors : TakenIsDown(r, s)
  BY <1>10, TakenIsDownPreservesPoolInv
<1>11. CASE ShutdownAll
  BY <1>11, ShutdownAllPreservesPoolInv
<1>12. CASE Teardown
  BY <1>12, PoolUntouched DEF Teardown
<1> QED
  BY <1>1, <1>2, <1>3, <1>4, <1>5, <1>6, <1>7, <1>8, <1>9, <1>10, <1>11, <1>12 DEF PoolNext

LEMMA PoolInvHolds ==
  PoolSpec => []PoolInv
  BY InitEstablishesPoolInv, NextPreservesPoolInv, PTL DEF PoolSpec

\* supervisor_for looks up and spawns under one lock, restart_language removes under
\* it: every supervisor with a server is in the map or about to be shut down.
THEOREM NoServerIsEverLost ==
  PoolSpec => []NoServerIsLost
<1>1. PoolInv => NoServerIsLost
  BY DEF PoolInv
<1> QED
  BY <1>1, PoolInvHolds, PTL

\* restart_language removes before it shuts down: until the daemon ends, the map never
\* offers a supervisor that is going or gone.
THEOREM PoolAlwaysOffersLiveOnes ==
  PoolSpec => []PoolOffersLiveOnes
<1>1. PoolInv => PoolOffersLiveOnes
  BY DEF PoolInv
<1> QED
  BY <1>1, PoolInvHolds, PTL
-----------------------------------------------------------------------------
(***************************************************************************)
(* Pages.                                                                  *)
(***************************************************************************)
Item == [node : Symbols, sites : SUBSET (Sites \cup {0})]
Cursor == (Symbols \X Lines) \cup {Nothing}

ListedFor(request, s) == IF request.of = "symbols" THEN {0} ELSE row[s].sites
Belongs(request, s) == row[s].valid /\ ListedFor(request, s) # {} /\ Matches(request, s)
ItemOf(request, s) == [node |-> s, sites |-> ListedFor(request, s)]

Ahead(cursor, s) == cursor = Nothing \/ Before(cursor, SortKey(s))
Reached(cursor, s) == cursor = Nothing \/ ~Before(cursor, SortKey(s))

Places(items, s) == {i \in DOMAIN items : items[i].node = s}
OnceIn(items, request, s) ==
    \E i \in Places(items, s) : Places(items, s) = {i} /\ items[i].sites = ListedFor(request, s)

RowsShape == row \in [Symbols -> Row]

LEMMA RowIs ==
  ASSUME RowsShape, NEW s \in Symbols
  PROVE  /\ s \in Nat /\ row[s] \in Row /\ row[s].valid \in BOOLEAN /\ row[s].line \in Lines /\ row[s].line \in Nat
         /\ row[s].sites \subseteq Sites /\ SortKey(s) = <<s, row[s].line>> /\ SortKey(s) \in Symbols \X Lines
<1>1. s \in Nat
  BY PagesAssumption DEF Symbols
<1>2. row[s] \in Row
  BY DEF RowsShape
<1>3. row[s].line \in Lines /\ row[s].valid \in BOOLEAN /\ row[s].sites \subseteq Sites
  BY <1>2 DEF Row
<1> QED
  BY <1>1, <1>2, <1>3, PagesAssumption DEF SortKey

LEMMA OrderIs ==
  ASSUME RowsShape, NEW s \in Symbols, NEW t \in Symbols
  PROVE  Before(SortKey(s), SortKey(t)) <=> s < t
<1>1. s \in Nat /\ t \in Nat /\ row[s].line \in Nat /\ row[t].line \in Nat
  BY RowIs
<1>2. SortKey(s)[1] = s /\ SortKey(s)[2] = row[s].line /\ SortKey(t)[1] = t /\ SortKey(t)[2] = row[t].line
  BY DEF SortKey
<1>3. s = t => row[s].line = row[t].line
  OBVIOUS
<1> QED
  BY <1>1, <1>2, <1>3 DEF Before

LEMMA ItemsAre ==
  ASSUME RowsShape, NEW request \in Request
  PROVE  {i \in GroupByNode(Rows(request.of)) : Matches(request, i.node)}
         = {ItemOf(request, s) : s \in {t \in Symbols : Belongs(request, t)}}
<1> DEFINE rows == Rows(request.of)
           sitesOf(s) == {r[2] : r \in {q \in rows : q[1] = s}}
<1>1. ASSUME NEW s PROVE s \in {r[1] : r \in rows} <=> s \in Symbols /\ row[s].valid /\ ListedFor(request, s) # {}
  <2>1. CASE request.of = "symbols"
    <3>1. rows = {<<t, 0>> : t \in {u \in Symbols : row[u].valid}}
      BY <2>1 DEF Rows
    <3>2. \A r \in rows : r[1] \in Symbols /\ row[r[1]].valid
      BY <3>1
    <3>3. s \in Symbols /\ row[s].valid => <<s, 0>> \in rows
      BY <3>1
    <3>4. ListedFor(request, s) = {0} /\ <<s, 0>>[1] = s
      BY <2>1 DEF ListedFor
    <3> HIDE DEF rows
    <3> QED
      BY <3>2, <3>3, <3>4
  <2>2. CASE request.of # "symbols"
    <3>1. rows = {r \in Symbols \X Sites : row[r[1]].valid /\ r[2] \in row[r[1]].sites}
      BY <2>2 DEF Rows
    <3>2. \A t \in Symbols : row[t].sites \subseteq Sites
      BY RowIs
    <3>3. ASSUME s \in Symbols, row[s].valid, NEW x \in row[s].sites PROVE s \in {r[1] : r \in rows}
      <4>1. <<s, x>> \in rows /\ <<s, x>>[1] = s
        BY <3>1, <3>2, <3>3
      <4> HIDE DEF rows
      <4> QED
        BY <4>1
    <3>4. \A r \in rows : r[1] \in Symbols /\ row[r[1]].valid /\ row[r[1]].sites # {}
      BY <3>1
    <3>5. ListedFor(request, s) = row[s].sites
      BY <2>2 DEF ListedFor
    <3> HIDE DEF rows
    <3> QED
      BY <3>3, <3>4, <3>5
  <2> QED
    BY <2>1, <2>2
<1>2. ASSUME NEW s \in Symbols, row[s].valid PROVE sitesOf(s) = ListedFor(request, s)
  <2>1. CASE request.of = "symbols"
    <3>1. rows = {<<t, 0>> : t \in {u \in Symbols : row[u].valid}}
      BY <2>1 DEF Rows
    <3>2. <<s, 0>> \in rows /\ \A q \in rows : q[2] = 0
      BY <1>2, <3>1
    <3> HIDE DEF rows
    <3> QED
      BY <2>1, <3>2 DEF ListedFor
  <2>2. CASE request.of # "symbols"
    <3>1. rows = {r \in Symbols \X Sites : row[r[1]].valid /\ r[2] \in row[r[1]].sites}
      BY <2>2 DEF Rows
    <3>2. row[s].sites \subseteq Sites
      BY RowIs
    <3>3. ASSUME NEW x \in row[s].sites PROVE x \in sitesOf(s)
      <4>1. <<s, x>> \in rows /\ <<s, x>>[1] = s /\ <<s, x>>[2] = x
        BY <1>2, <3>1, <3>2, <3>3
      <4> HIDE DEF rows
      <4> QED
        BY <4>1
    <3>4. \A q \in rows : q[1] = s => q[2] \in row[s].sites
      BY <3>1
    <3>5. ListedFor(request, s) = row[s].sites
      BY <2>2 DEF ListedFor
    <3> HIDE DEF rows
    <3> QED
      BY <3>3, <3>4, <3>5
  <2> QED
    BY <2>1, <2>2
<1>3. GroupByNode(rows) = {[node |-> s, sites |-> sitesOf(s)] : s \in {r[1] : r \in rows}}
  BY DEF GroupByNode
<1> HIDE DEF rows, sitesOf
<1>4. GroupByNode(rows)
      = {ItemOf(request, s) : s \in {t \in Symbols : row[t].valid /\ ListedFor(request, t) # {}}}
  BY <1>1, <1>2, <1>3 DEF ItemOf
<1>5. \A s : ItemOf(request, s).node = s
  BY DEF ItemOf
<1>6. {i \in GroupByNode(rows) : Matches(request, i.node)}
      = {ItemOf(request, s) : s \in {t \in Symbols : Belongs(request, t)}}
  BY <1>4, <1>5 DEF Belongs
<1> QED
  BY <1>6 DEF rows

\* What a page is cut from: the items after the cursor, each once, in order.
Rest(request, cursor) ==
    {i \in {ItemOf(request, s) : s \in {t \in Symbols : Belongs(request, t)}} : Ahead(cursor, i.node)}

LEMMA RestIs ==
  ASSUME RowsShape, NEW request \in Request, NEW cursor
  PROVE  LET J == Rest(request, cursor)
             rest == Sorted(J)
         IN  /\ rest \in Seq(Item) /\ DOMAIN rest = 1..Len(rest)
             /\ \A s \in Symbols :
                   IF Belongs(request, s) /\ Ahead(cursor, s)
                   THEN \E i \in 1..Len(rest) : rest[i] = ItemOf(request, s)
                   ELSE \A i \in 1..Len(rest) : rest[i].node # s
             /\ \A i \in 1..Len(rest) : Ahead(cursor, rest[i].node)
             /\ \A i, j \in 1..Len(rest) : i < j => rest[i].node < rest[j].node
<1> DEFINE J == Rest(request, cursor)
           rest == Sorted(J)
           B == {s \in Symbols : Belongs(request, s) /\ Ahead(cursor, s)}
           key == [i \in J |-> i.node]
           f == [s \in B |-> ItemOf(request, s)]
<1>1. \A s : ItemOf(request, s).node = s
  BY DEF ItemOf
<1>2. J = {ItemOf(request, s) : s \in B}
  BY <1>1 DEF Rest
<1>3. IsFiniteSet(J)
  <2>1. IsFiniteSet(Symbols)
    BY PagesAssumption, FS_Interval DEF Symbols
  <2>2. IsFiniteSet(B)
    <3>1. B \in SUBSET Symbols
      OBVIOUS
    <3> HIDE DEF B
    <3> QED
      BY <2>1, <3>1, FS_Subset
  <2>3. f \in Surjection(B, J)
    <3>1. f \in [B -> J] /\ \A i \in J : \E s \in B : f[s] = i
      <4> HIDE DEF B, J
      <4> QED
        BY <1>2
    <3> HIDE DEF f, B, J
    <3> QED
      BY <3>1 DEF Surjection
  <2> HIDE DEF f, B, J
  <2> QED
    BY <2>2, <2>3, FS_Surjection
<1>4. \A s \in B : s \in Symbols /\ s \in Nat /\ ItemOf(request, s) \in Item
  <2> SUFFICES ASSUME NEW s \in B PROVE s \in Nat /\ ItemOf(request, s) \in Item
    OBVIOUS
  <2>1. s \in Symbols /\ s \in Nat /\ row[s].sites \subseteq Sites
    BY RowIs
  <2>2. ListedFor(request, s) \in SUBSET (Sites \cup {0})
    BY <2>1 DEF ListedFor
  <2> QED
    BY <2>1, <2>2 DEF ItemOf, Item
<1>5. \A i \in J : i \in Item /\ i.node \in Symbols /\ i.node \in Nat /\ key[i] = i.node /\ i = ItemOf(request, i.node)
  <2> HIDE DEF B
  <2>1. \A i \in J : i \in Item /\ i.node \in Symbols /\ i.node \in Nat /\ i = ItemOf(request, i.node)
    <3> HIDE DEF J
    <3> QED
      BY <1>1, <1>2, <1>4
  <2> QED
    BY <2>1
<1>6. IsKey(key, J)
  <2> HIDE DEF J, key
  <2> QED
    BY <1>5 DEF IsKey
<1>7. ASSUME NEW i \in J
      PROVE  Behind(J, key, i)
             = Cardinality({other \in J : Before(SortKey(other.node), SortKey(i.node))})
  <2>1. \A other \in J : key[other] < key[i] <=> Before(SortKey(other.node), SortKey(i.node))
    <3> HIDE DEF J, key
    <3> QED
      BY <1>5, OrderIs
  <2>2. {other \in J : key[other] < key[i]} = {other \in J : Before(SortKey(other.node), SortKey(i.node))}
    <3> HIDE DEF J, key
    <3> QED
      BY <2>1
  <2> QED
    BY <2>2 DEF Behind
<1> DEFINE Place(i) ==
             CHOOSE item \in J :
                Cardinality({other \in J : Before(SortKey(other.node), SortKey(item.node))}) = i - 1
<1>8. rest = [i \in 1..Cardinality(J) |-> Place(i)]
  BY DEF Sorted
<1> HIDE DEF J, key, B
<1>9. ASSUME NEW i \in 1..Cardinality(J), \E n \in J : Behind(J, key, n) = i - 1
      PROVE  Place(i) \in J /\ Behind(J, key, Place(i)) = i - 1
  <2>1. \E item \in J : Cardinality({other \in J : Before(SortKey(other.node), SortKey(item.node))}) = i - 1
    BY <1>7, <1>9
  <2>2. Place(i) \in J /\ Cardinality({other \in J : Before(SortKey(other.node), SortKey(Place(i).node))}) = i - 1
    BY <2>1
  <2> HIDE DEF Place
  <2> QED
    BY <1>7, <2>2
<1> HIDE DEF Place
<1>10. Sorts(rest, J, key)
  <2> HIDE DEF rest
  <2> QED
    BY <1>8, <1>9 DEF Sorts
<1> HIDE DEF rest
<1>12. /\ Cardinality(J) \in Nat /\ rest \in [1..Cardinality(J) -> J]
       /\ \A n \in J : \E i \in 1..Cardinality(J) : rest[i] = n
       /\ \A i, j \in 1..Cardinality(J) : i < j => key[rest[i]] < key[rest[j]]
  BY <1>3, <1>6, <1>10, SortedBy
<1>13. rest \in [1..Cardinality(J) -> Item] /\ Len(rest) = Cardinality(J) /\ DOMAIN rest = 1..Len(rest)
  BY <1>5, <1>12
<1>14. rest \in Seq(Item)
  BY <1>12, <1>13, SeqDef
<1>15. ASSUME NEW s \in Symbols
       PROVE  IF Belongs(request, s) /\ Ahead(cursor, s)
              THEN \E i \in 1..Len(rest) : rest[i] = ItemOf(request, s)
              ELSE \A i \in 1..Len(rest) : rest[i].node # s
  <2>1. CASE s \in B
    <3>1. ItemOf(request, s) \in J
      BY <1>2, <2>1
    <3> QED
      BY <1>12, <1>13, <2>1, <3>1 DEF B
  <2>2. CASE s \notin B
    <3>1. \A i \in 1..Len(rest) : rest[i] \in J
      BY <1>12, <1>13
    <3> QED
      BY <1>1, <1>2, <2>2, <3>1 DEF B
  <2> QED
    BY <2>1, <2>2
<1>16. ASSUME NEW i \in 1..Len(rest) PROVE rest[i] \in J /\ Ahead(cursor, rest[i].node)
  <2>1. rest[i] \in J
    BY <1>12, <1>13
  <2> QED
    BY <1>1, <1>2, <2>1 DEF B
<1>17. \A i, j \in 1..Len(rest) : i < j => rest[i].node < rest[j].node
  BY <1>5, <1>12, <1>13, <1>16
<1> QED
  BY <1>13, <1>14, <1>15, <1>16, <1>17 DEF J, rest

Shown(request, cursor, next, s) == Belongs(request, s) /\ Ahead(cursor, s) /\ Reached(next, s)

LEMMA PageIs ==
  ASSUME RowsShape, NEW request \in Request, NEW cursor \in Cursor
  PROVE  LET page == Page(request, cursor)
         IN  /\ page.items \in Seq(Item) /\ page.next \in Cursor
             /\ \A s \in Symbols :
                   IF Shown(request, cursor, page.next, s)
                   THEN OnceIn(page.items, request, s) ELSE Places(page.items, s) = {}
             /\ \A s \in Symbols : ~Ahead(cursor, s) => Reached(page.next, s)
<1> DEFINE page == Page(request, cursor)
           J == Rest(request, cursor)
           rest == Sorted(J)
           most == PageLimit(request.limit)
<1>1. most \in Nat /\ most >= 1
  <2>1. request.limit \in Nat
    BY PagesAssumption DEF Request
  <2> QED
    BY <2>1, PagesAssumption DEF PageLimit
<1>2. page = IF Len(rest) > most
             THEN [items |-> SubSeq(rest, 1, most), next |-> SortKey(rest[most].node)]
             ELSE [items |-> rest, next |-> Nothing]
  <2>1. {i \in {i \in GroupByNode(Rows(request.of)) : Matches(request, i.node)} :
            cursor = Nothing \/ Before(cursor, SortKey(i.node))} = J
    BY ItemsAre DEF Rest, Ahead
  <2> QED
    BY <2>1 DEF Page, Paginate
<1> HIDE DEF most, page, J
<1>3. /\ rest \in Seq(Item) /\ DOMAIN rest = 1..Len(rest) /\ Len(rest) \in Nat
      /\ \A s \in Symbols :
            IF Belongs(request, s) /\ Ahead(cursor, s)
            THEN \E i \in 1..Len(rest) : rest[i] = ItemOf(request, s)
            ELSE \A i \in 1..Len(rest) : rest[i].node # s
      /\ \A i \in 1..Len(rest) : Ahead(cursor, rest[i].node)
      /\ \A i, j \in 1..Len(rest) : i < j => rest[i].node < rest[j].node
  BY RestIs, LenProperties DEF J
<1> HIDE DEF rest
<1>4. \A i \in 1..Len(rest) : rest[i] \in Item /\ rest[i].node \in Symbols /\ rest[i].node \in Nat
  <2>1. \A i \in 1..Len(rest) : rest[i] \in Item
    BY <1>3
  <2>2. \A item \in Item : item.node \in Symbols /\ item.node \in Nat
    BY RowIs DEF Item
  <2> QED
    BY <2>1, <2>2
<1>5. \A s : ItemOf(request, s).node = s /\ ItemOf(request, s).sites = ListedFor(request, s)
  BY DEF ItemOf
<1>6. \A i, j \in 1..Len(rest) : rest[i].node = rest[j].node => i = j
  <2> SUFFICES ASSUME NEW i \in 1..Len(rest), NEW j \in 1..Len(rest), rest[i].node = rest[j].node PROVE i = j
    OBVIOUS
  <2>1. ~(i < j) /\ ~(j < i)
    BY <1>3, <1>4
  <2> QED
    BY <1>3, <2>1
<1>7. CASE Len(rest) <= most
  <2>1. page.items = rest /\ page.next = Nothing
    <3>1. ~(Len(rest) > most)
      BY <1>1, <1>3, <1>7
    <3>2. page = [items |-> rest, next |-> Nothing]
      BY <1>2, <3>1
    <3> QED
      BY <3>2
  <2>2. ASSUME NEW s \in Symbols
        PROVE IF Shown(request, cursor, page.next, s)
              THEN OnceIn(page.items, request, s) ELSE Places(page.items, s) = {}
    <3>1. Shown(request, cursor, page.next, s) <=> Belongs(request, s) /\ Ahead(cursor, s)
      BY <2>1 DEF Shown, Reached
    <3>2. CASE Shown(request, cursor, page.next, s)
      <4>1. PICK i \in 1..Len(rest) : rest[i] = ItemOf(request, s)
        BY <1>3, <3>1, <3>2
      <4>2. Places(rest, s) = {i}
        BY <1>3, <1>5, <1>6, <4>1 DEF Places
      <4> QED
        BY <1>5, <2>1, <3>2, <4>1, <4>2 DEF OnceIn
    <3>3. CASE ~Shown(request, cursor, page.next, s)
      BY <1>3, <2>1, <3>1, <3>3 DEF Places
    <3> QED
      BY <3>2, <3>3
  <2> QED
    BY <1>3, <2>1, <2>2 DEF Cursor, Reached, page
<1>8. CASE Len(rest) > most
  <2> DEFINE last == rest[most].node
             items == SubSeq(rest, 1, most)
  <2>1. page.items = items /\ page.next = SortKey(last)
    BY <1>2, <1>8
  <2>2. most \in 1..Len(rest) /\ last \in Symbols /\ last \in Nat /\ Ahead(cursor, last)
    BY <1>1, <1>3, <1>4, <1>8
  <2>3. items \in Seq(Item) /\ Len(items) = most /\ \A i \in 1..most : items[i] = rest[i]
    <3>1. \A i \in 1..most : i \in 1..Len(rest) /\ rest[i] \in Item
      BY <1>1, <1>3, <1>4, <1>8
    <3>2. 1 \in Int /\ most \in Int /\ 1 <= most /\ most - 1 + 1 = most
      BY <1>1
    <3>3. items \in Seq(Item) /\ Len(items) = most /\ \A i \in 1..most - 1 + 1 : items[i] = rest[1 + i - 1]
      BY <3>1, <3>2, SubSeqProperties
    <3>4. \A i \in 1..most : 1 + i - 1 = i
      BY <1>1
    <3> HIDE DEF items
    <3> QED
      BY <3>2, <3>3, <3>4
  <2>4. DOMAIN items = 1..most
    <3> HIDE DEF items
    <3> QED
      BY <2>3, LenProperties
  <2>5. page.next \in Symbols \X Lines /\ page.next # Nothing
    BY <2>1, <2>2, RowIs, PagesAssumption
  <2> HIDE DEF last, items
  <2>6. ASSUME NEW s \in Symbols PROVE s \in Nat /\ (Reached(page.next, s) <=> s <= last)
    <3>1. s \in Nat /\ (Before(SortKey(last), SortKey(s)) <=> last < s)
      BY <2>2, OrderIs, RowIs
    <3> QED
      BY <2>1, <2>2, <2>5, <3>1 DEF Reached
  <2>7. ASSUME NEW i \in 1..Len(rest) PROVE i <= most <=> rest[i].node <= last
    <3>1. i < most => rest[i].node < last
      BY <1>3, <2>2 DEF last
    <3>2. most < i => last < rest[i].node
      BY <1>3, <2>2 DEF last
    <3>3. i = most => rest[i].node = last
      BY DEF last
    <3>4. rest[i].node \in Nat /\ i \in Nat
      BY <1>4
    <3> QED
      BY <1>1, <2>2, <3>1, <3>2, <3>3, <3>4
  <2>8. ASSUME NEW s \in Symbols
        PROVE IF Shown(request, cursor, page.next, s)
              THEN OnceIn(page.items, request, s) ELSE Places(page.items, s) = {}
    <3>1. \A i \in 1..most : i \in 1..Len(rest)
      BY <1>1, <1>3, <1>8
    <3>2. CASE Shown(request, cursor, page.next, s)
      <4>1. PICK i \in 1..Len(rest) : rest[i] = ItemOf(request, s)
        BY <1>3, <3>2 DEF Shown
      <4>2. rest[i].node = s /\ s <= last
        BY <1>5, <2>6, <3>2, <4>1 DEF Shown
      <4>3. i \in 1..most /\ items[i] = ItemOf(request, s)
        BY <1>3, <2>3, <2>7, <4>1, <4>2
      <4>4. Places(items, s) = {i}
        <5>1. \A j \in 1..most : items[j].node = s => j = i
          BY <1>6, <2>3, <3>1, <4>2
        <5> QED
          BY <1>5, <2>4, <4>3, <5>1 DEF Places
      <4> QED
        BY <1>5, <2>1, <3>2, <4>3, <4>4 DEF OnceIn
    <3>3. CASE ~Shown(request, cursor, page.next, s)
      <4>1. ASSUME NEW i \in 1..most, items[i].node = s PROVE FALSE
        <5>1. i \in 1..Len(rest) /\ rest[i].node = s
          BY <2>3, <3>1, <4>1
        <5>2. i <= most
          BY <1>1, <4>1
        <5>3. s <= last
          BY <2>7, <5>1, <5>2
        <5>4. Reached(page.next, s) /\ Belongs(request, s) /\ Ahead(cursor, s)
          BY <1>3, <2>6, <5>1, <5>3
        <5> QED
          BY <3>3, <5>4 DEF Shown
      <4> QED
        BY <2>1, <2>4, <3>3, <4>1 DEF Places
    <3> QED
      BY <3>2, <3>3
  <2>9. ASSUME NEW s \in Symbols, ~Ahead(cursor, s) PROVE Reached(page.next, s)
    <3>1. cursor \in Symbols \X Lines /\ ~Before(cursor, SortKey(s)) /\ Before(cursor, SortKey(last))
      BY <2>2, <2>9 DEF Cursor, Ahead
    <3>2. /\ s \in Nat /\ row[s].line \in Nat /\ row[last].line \in Nat /\ cursor[1] \in Nat /\ cursor[2] \in Nat
          /\ SortKey(s)[1] = s /\ SortKey(s)[2] = row[s].line
          /\ SortKey(last)[1] = last /\ SortKey(last)[2] = row[last].line
      <4>1. cursor[1] \in Symbols /\ cursor[2] \in Lines
        BY <3>1
      <4> QED
        BY <2>2, <4>1, RowIs, PagesAssumption DEF SortKey
    <3>3. s <= last
      <4>1. CASE s = last
        BY <2>2, <4>1
      <4>2. CASE s # last
        BY <2>2, <3>1, <3>2, <4>2 DEF Before
      <4> QED
        BY <4>1, <4>2
    <3> QED
      BY <2>6, <3>3
  <2> QED
    BY <2>1, <2>3, <2>5, <2>8, <2>9 DEF Cursor, page
<1> QED
  BY <1>1, <1>3, <1>7, <1>8

(***************************************************************************)
(* The listing.  What nothing has happened to is in it once if the cursor  *)
(* has come to it, and not at all as long as it has not.                   *)
(***************************************************************************)
PagesShape ==
    /\ RowsShape /\ touched \subseteq Symbols
    /\ listing # Nothing => listing \in [request : Request, returned : Seq(Item), cursor : Cursor]

ListedSoFar ==
    listing # Nothing =>
       \A s \in Symbols \ touched :
          IF Belongs(listing.request, s) /\ Reached(listing.cursor, s)
          THEN OnceIn(listing.returned, listing.request, s) ELSE Places(listing.returned, s) = {}

PagesInv == PagesShape /\ ListedSoFar

LEMMA InitEstablishesPagesInv == PagesInit => PagesInv
<1> SUFFICES ASSUME PagesInit PROVE PagesInv
  OBVIOUS
<1>1. listing = Nothing /\ touched = {} /\ row \in [Symbols -> Row]
  BY DEF PagesInit
<1> QED
  BY <1>1 DEF PagesInv, PagesShape, RowsShape, ListedSoFar

LEMMA FirstPagePreservesPagesInv ==
  ASSUME PagesInv, NEW request \in Request, FirstPage(request)
  PROVE  PagesInv'
<1> DEFINE page == Page(request, Nothing)
<1>1. /\ listing' = [request |-> request, returned |-> page.items, cursor |-> page.next]
      /\ row' = row /\ touched' = touched
  BY DEF FirstPage
<1>2. RowsShape /\ touched \subseteq Symbols /\ Nothing \in Cursor
  BY DEF PagesInv, PagesShape, Cursor
<1>3. /\ page.items \in Seq(Item) /\ page.next \in Cursor
      /\ \A s \in Symbols : IF Shown(request, Nothing, page.next, s)
                            THEN OnceIn(page.items, request, s) ELSE Places(page.items, s) = {}
  BY <1>2, PageIs
<1> HIDE DEF page
<1>4. listing'.request = request /\ listing'.returned = page.items /\ listing'.cursor = page.next
  BY <1>1
<1>5. PagesShape'
  BY <1>1, <1>2, <1>3 DEF PagesShape, RowsShape
<1>6. \A s \in Symbols : IF Belongs(request, s) /\ Reached(page.next, s)
                         THEN OnceIn(page.items, request, s) ELSE Places(page.items, s) = {}
  BY <1>3 DEF Shown, Ahead
<1>7. ListedSoFar'
  BY <1>1, <1>4, <1>6
     DEF ListedSoFar, Belongs, Reached, OnceIn, Places, ListedFor, Matches, SortKey
<1> QED
  BY <1>5, <1>7 DEF PagesInv

\* What two parts of a listing hold of a symbol.
LEMMA PlacesOfBoth ==
  ASSUME NEW one \in Seq(Item), NEW two \in Seq(Item), NEW request, NEW s
  PROVE  /\ Places(two, s) = {} => (Places(one, s) = {} => Places(one \o two, s) = {})
                                   /\ (OnceIn(one, request, s) => OnceIn(one \o two, request, s))
         /\ Places(one, s) = {} /\ OnceIn(two, request, s) => OnceIn(one \o two, request, s)
<1> DEFINE all == one \o two
<1>1. /\ Len(one) \in Nat /\ Len(two) \in Nat /\ DOMAIN one = 1..Len(one) /\ DOMAIN two = 1..Len(two)
      /\ all \in Seq(Item) /\ Len(all) = Len(one) + Len(two)
      /\ \A i \in 1..Len(one) + Len(two) : all[i] = IF i <= Len(one) THEN one[i] ELSE two[i - Len(one)]
  BY LenProperties, ConcatProperties
<1>2. DOMAIN all = 1..Len(one) + Len(two)
  <2> HIDE DEF all
  <2> QED
    BY <1>1, LenProperties
<1> HIDE DEF all
<1>3. \A i \in DOMAIN one : i \in DOMAIN all /\ all[i] = one[i]
  BY <1>1, <1>2
<1>4. \A i \in DOMAIN two : i + Len(one) \in DOMAIN all /\ all[i + Len(one)] = two[i]
  <2> SUFFICES ASSUME NEW i \in 1..Len(two) PROVE i + Len(one) \in DOMAIN all /\ all[i + Len(one)] = two[i]
    BY <1>1
  <2>1. i + Len(one) \in 1..Len(one) + Len(two) /\ ~(i + Len(one) <= Len(one)) /\ i + Len(one) - Len(one) = i
    BY <1>1
  <2> QED
    BY <1>1, <1>2, <2>1
<1>5. ASSUME NEW i \in DOMAIN all
      PROVE  i \in DOMAIN one \/ \E j \in DOMAIN two : i = j + Len(one)
  <2>1. CASE i <= Len(one)
    BY <1>1, <1>2, <2>1
  <2>2. CASE i > Len(one)
    <3>1. i - Len(one) \in 1..Len(two) /\ i = (i - Len(one)) + Len(one)
      BY <1>1, <1>2, <2>2
    <3> QED
      BY <1>1, <3>1
  <2> QED
    BY <1>1, <1>2, <2>1, <2>2
<1>6. Places(all, s) = Places(one, s) \cup {j + Len(one) : j \in Places(two, s)}
  BY <1>3, <1>4, <1>5 DEF Places
<1>7. \A i \in Places(one, s) : all[i] = one[i]
  BY <1>3 DEF Places
<1>8. \A i \in Places(two, s) : all[i + Len(one)] = two[i]
  BY <1>4 DEF Places
<1>9. Places(one, s) = {} /\ OnceIn(two, request, s) => OnceIn(all, request, s)
  <2> SUFFICES ASSUME Places(one, s) = {}, OnceIn(two, request, s) PROVE OnceIn(all, request, s)
    OBVIOUS
  <2>1. PICK j \in Places(two, s) : Places(two, s) = {j} /\ two[j].sites = ListedFor(request, s)
    BY DEF OnceIn
  <2>2. Places(all, s) = {j + Len(one)} /\ all[j + Len(one)].sites = ListedFor(request, s)
    BY <1>6, <1>8, <2>1
  <2> QED
    BY <2>2 DEF OnceIn
<1>10. Places(two, s) = {} => Places(all, s) = Places(one, s)
  BY <1>6
<1> QED
  BY <1>7, <1>9, <1>10 DEF OnceIn, all

LEMMA NextPagePreservesPagesInv ==
  ASSUME PagesInv, NextPage
  PROVE  PagesInv'
<1> DEFINE request == listing.request
           cursor == listing.cursor
           page == Page(request, cursor)
<1>1. /\ listing # Nothing /\ cursor # Nothing
      /\ listing' = [listing EXCEPT !.returned = @ \o page.items, !.cursor = page.next]
      /\ row' = row /\ touched' = touched
  BY DEF NextPage
<1>2. /\ RowsShape /\ touched \subseteq Symbols /\ request \in Request /\ cursor \in Cursor
      /\ listing.returned \in Seq(Item)
      /\ listing \in [request : Request, returned : Seq(Item), cursor : Cursor]
  BY <1>1 DEF PagesInv, PagesShape
<1>3. /\ page.items \in Seq(Item) /\ page.next \in Cursor
      /\ \A s \in Symbols : IF Shown(request, cursor, page.next, s)
                            THEN OnceIn(page.items, request, s) ELSE Places(page.items, s) = {}
      /\ \A s \in Symbols : ~Ahead(cursor, s) => Reached(page.next, s)
  BY <1>2, PageIs
<1>4. \A s \in Symbols \ touched :
         IF Belongs(request, s) /\ Reached(cursor, s)
         THEN OnceIn(listing.returned, request, s) ELSE Places(listing.returned, s) = {}
  BY <1>1 DEF PagesInv, ListedSoFar
<1> HIDE DEF page
<1>5. listing'.request = request /\ listing'.returned = listing.returned \o page.items /\ listing'.cursor = page.next
  BY <1>1, <1>2
<1>6. PagesShape'
  <2>1. listing.returned \o page.items \in Seq(Item)
    BY <1>2, <1>3, ConcatProperties
  <2> QED
    BY <1>1, <1>2, <1>3, <2>1 DEF PagesShape, RowsShape
<1>7. ASSUME NEW s \in Symbols \ touched
      PROVE  IF Belongs(request, s) /\ Reached(page.next, s)
             THEN OnceIn(listing.returned \o page.items, request, s)
             ELSE Places(listing.returned \o page.items, s) = {}
  <2>1. Reached(cursor, s) <=> ~Ahead(cursor, s)
    BY <1>1 DEF Reached, Ahead
  <2>2. CASE Belongs(request, s) /\ Reached(cursor, s)
    <3>1. OnceIn(listing.returned, request, s) /\ Places(page.items, s) = {} /\ Reached(page.next, s)
      BY <1>3, <1>4, <2>1, <2>2 DEF Shown
    <3> QED
      BY <1>2, <1>3, <2>2, <3>1, PlacesOfBoth
  <2>3. CASE Belongs(request, s) /\ ~Reached(cursor, s) /\ Reached(page.next, s)
    <3>1. Places(listing.returned, s) = {} /\ OnceIn(page.items, request, s)
      BY <1>3, <1>4, <2>1, <2>3 DEF Shown
    <3> QED
      BY <1>2, <1>3, <2>3, <3>1, PlacesOfBoth
  <2>4. CASE ~(Belongs(request, s) /\ Reached(page.next, s))
    <3>1. ~(Belongs(request, s) /\ Reached(cursor, s))
      BY <1>3, <2>1, <2>4
    <3>2. Places(listing.returned, s) = {} /\ Places(page.items, s) = {}
      BY <1>3, <1>4, <2>4, <3>1 DEF Shown
    <3> QED
      BY <1>2, <1>3, <2>4, <3>2, PlacesOfBoth
  <2> QED
    BY <2>2, <2>3, <2>4
<1>8. ListedSoFar'
  <2> SUFFICES ASSUME NEW s \in Symbols \ touched
               PROVE (IF Belongs(listing.request, s) /\ Reached(listing.cursor, s)
                      THEN OnceIn(listing.returned, listing.request, s)
                      ELSE Places(listing.returned, s) = {})'
    BY <1>1 DEF ListedSoFar
  <2>1. IF Belongs(request, s) /\ Reached(page.next, s)
        THEN OnceIn(listing.returned \o page.items, request, s)
        ELSE Places(listing.returned \o page.items, s) = {}
    BY <1>7
  <2> QED
    BY <1>1, <1>5, <2>1 DEF Belongs, Reached, OnceIn, Places, ListedFor, Matches, SortKey
<1> QED
  BY <1>6, <1>8 DEF PagesInv

LEMMA ChangePreservesPagesInv ==
  ASSUME PagesInv, NEW s \in Symbols, NEW new \in Row, Change(s, new)
  PROVE  PagesInv'
<1>1. row' = [row EXCEPT ![s] = new] /\ touched' = touched \cup {s} /\ listing' = listing
  BY DEF Change
<1>2. row \in [Symbols -> Row]
  BY DEF PagesInv, PagesShape, RowsShape
<1>3. PagesShape'
  BY <1>1, <1>2 DEF PagesInv, PagesShape, RowsShape
<1>4. \A t \in Symbols \ touched' : t \notin touched /\ row'[t] = row[t]
  BY <1>1, <1>2
<1>5. ListedSoFar'
  <2> SUFFICES ASSUME listing # Nothing, NEW t \in Symbols \ touched'
               PROVE (IF Belongs(listing.request, t) /\ Reached(listing.cursor, t)
                      THEN OnceIn(listing.returned, listing.request, t)
                      ELSE Places(listing.returned, t) = {})'
    BY <1>1 DEF ListedSoFar
  <2>1. IF Belongs(listing.request, t) /\ Reached(listing.cursor, t)
        THEN OnceIn(listing.returned, listing.request, t) ELSE Places(listing.returned, t) = {}
    BY <1>4 DEF PagesInv, ListedSoFar
  <2>2. row'[t] = row[t] /\ listing' = listing
    BY <1>1, <1>4
  <2> QED
    BY <2>1, <2>2 DEF Belongs, Reached, OnceIn, Places, ListedFor, Matches, SortKey
<1> QED
  BY <1>3, <1>5 DEF PagesInv

LEMMA NextPreservesPagesInv == PagesInv /\ [PagesNext]_pagesVars => PagesInv'
<1> SUFFICES ASSUME PagesInv, [PagesNext]_pagesVars PROVE PagesInv'
  OBVIOUS
<1>1. ASSUME NEW request \in Request, FirstPage(request) PROVE PagesInv'
  BY <1>1, FirstPagePreservesPagesInv
<1>2. ASSUME NextPage PROVE PagesInv'
  BY <1>2, NextPagePreservesPagesInv
<1>3. ASSUME NEW s \in Symbols PROVE row[s] \in Row
  BY <1>3, RowIs DEF PagesInv, PagesShape
<1>4. ASSUME NEW s \in Symbols, Invalidate(s) PROVE PagesInv'
  <2>1. [row[s] EXCEPT !.valid = FALSE, !.sites = {}] \in Row
    BY <1>3 DEF Row
  <2> QED
    BY <1>4, <2>1, ChangePreservesPagesInv DEF Invalidate
<1>5. ASSUME NEW s \in Symbols, Insert(s) PROVE PagesInv'
  <2>1. [row[s] EXCEPT !.valid = TRUE] \in Row
    BY <1>3 DEF Row
  <2> QED
    BY <1>5, <2>1, ChangePreservesPagesInv DEF Insert
<1>6. ASSUME NEW s \in Symbols, FindDefinition(s) PROVE PagesInv'
  <2>1. [row[s] EXCEPT !.alias = TRUE] \in Row
    BY <1>3 DEF Row
  <2> QED
    BY <1>6, <2>1, ChangePreservesPagesInv DEF FindDefinition
<1>7. ASSUME NEW s \in Symbols, NEW line \in Lines, Move(s, line) PROVE PagesInv'
  <2>1. [row[s] EXCEPT !.line = line] \in Row
    BY <1>3 DEF Row
  <2> QED
    BY <1>7, <2>1, ChangePreservesPagesInv DEF Move
<1>8. ASSUME NEW s \in Symbols, NEW site \in Sites, Refresh(s, site) PROVE PagesInv'
  <2>1. [row[s] EXCEPT !.sites = @ \cup {site}] \in Row
    BY <1>3 DEF Row
  <2> QED
    BY <1>8, <2>1, ChangePreservesPagesInv DEF Refresh
<1>9. ASSUME NEW s \in Symbols, NEW site \in Sites, Outdate(s, site) PROVE PagesInv'
  <2>1. [row[s] EXCEPT !.sites = @ \ {site}] \in Row
    BY <1>3 DEF Row
  <2> QED
    BY <1>9, <2>1, ChangePreservesPagesInv DEF Outdate
<1>10. ASSUME UNCHANGED pagesVars PROVE PagesInv'
  <2>1. row' = row /\ listing' = listing /\ touched' = touched
    BY <1>10 DEF pagesVars
  <2>2. PagesShape'
    BY <2>1 DEF PagesInv, PagesShape, RowsShape
  <2>3. ListedSoFar'
    <3> SUFFICES ASSUME listing # Nothing, NEW s \in Symbols \ touched
                 PROVE (IF Belongs(listing.request, s) /\ Reached(listing.cursor, s)
                        THEN OnceIn(listing.returned, listing.request, s)
                        ELSE Places(listing.returned, s) = {})'
      BY <2>1 DEF ListedSoFar
    <3>1. IF Belongs(listing.request, s) /\ Reached(listing.cursor, s)
          THEN OnceIn(listing.returned, listing.request, s) ELSE Places(listing.returned, s) = {}
      BY DEF PagesInv, ListedSoFar
    <3> QED
      BY <2>1, <3>1 DEF Belongs, Reached, OnceIn, Places, ListedFor, Matches, SortKey
  <2> QED
    BY <2>2, <2>3 DEF PagesInv
<1> QED
  BY <1>1, <1>2, <1>4, <1>5, <1>6, <1>7, <1>8, <1>9, <1>10 DEF PagesNext

(***************************************************************************)
(* For any number of symbols, any page sizes and any changes between the   *)
(* pages: a symbol that nothing happened to is listed once, with all its   *)
(* occurrences, if it belongs to the listing, and not at all otherwise.    *)
(***************************************************************************)
THEOREM PagesListEachRowOnce == PagesSpec => []EachRowOnce
<1>1. PagesInv => EachRowOnce
  <2> SUFFICES ASSUME PagesInv, Ended, NEW s \in Symbols \ touched
               PROVE IF row[s].valid /\ Listed(s) # {} /\ Matches(listing.request, s)
                     THEN \E i \in Times(s) : Times(s) = {i} /\ listing.returned[i].sites = Listed(s)
                     ELSE Times(s) = {}
    BY DEF EachRowOnce
  <2>1. /\ listing # Nothing /\ Reached(listing.cursor, s)
        /\ Listed(s) = ListedFor(listing.request, s) /\ Times(s) = Places(listing.returned, s)
    BY DEF Ended, Reached, Listed, ListedFor, Times, Places
  <2> QED
    BY <2>1 DEF PagesInv, ListedSoFar, Belongs, OnceIn
<1> QED
  BY <1>1, InitEstablishesPagesInv, NextPreservesPagesInv, PTL DEF PagesSpec

=============================================================================
