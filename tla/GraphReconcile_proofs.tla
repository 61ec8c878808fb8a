----------------------- MODULE GraphReconcile_proofs -----------------------
(***************************************************************************)
(* The graph under any texts, any chain of edits and any queries: what a   *)
(* committed reconcile leaves is the text it was given, names stay with    *)
(* their rows, rows go at their second strike, and what a reconcile        *)
(* changes has its calls switched off.  The passes of                      *)
(* reconcile_file_symbols_tx are a loop over the symbols; what it does to  *)
(* a file of any length is proved by induction, which the library's        *)
(* theorem on finite sets gives in a form without operators.               *)
(***************************************************************************)
EXTENDS GraphReconcile, FiniteSetTheorems, SequenceTheorems, TLAPS

(***************************************************************************)
(* Induction over the naturals, for sets: of the intervals 1..n that are   *)
(* counterexamples one is smallest.                                        *)
(***************************************************************************)
LEMMA SetInduction ==
  ASSUME NEW S, 0 \in S, \A n \in Nat : n \in S => n + 1 \in S
  PROVE  Nat \subseteq S
<1> SUFFICES ASSUME NEW b \in Nat, b \notin S PROVE FALSE
  OBVIOUS
<1> DEFINE T == {1..n : n \in Nat \ S}
<1>1. \A n \in Nat : 1..n \in FiniteSubsetsOf(Nat)
  BY FS_Interval DEF FiniteSubsetsOf
<1>2. T \subseteq FiniteSubsetsOf(Nat) /\ T # {}
  BY <1>1
<1>3. PICK t \in T : \A y \in T : ~(<<y, t>> \in StrictSubsetOrdering(Nat))
  <2> HIDE DEF T
  <2> QED
    BY <1>2, FS_StrictSubsetOrderingWellFounded, WFMin
<1>4. PICK n \in Nat \ S : t = 1..n
  BY <1>3
<1>5. n # 0 /\ n - 1 \in Nat /\ n - 1 \notin S
  BY <1>4
<1>6. 1..(n - 1) \in T /\ 1..(n - 1) \subseteq 1..n /\ n \in 1..n /\ n \notin 1..(n - 1)
  BY <1>5
<1>7. <<1..(n - 1), 1..n>> \in StrictSubsetOrdering(Nat)
  BY <1>6 DEF StrictSubsetOrdering
<1> QED
  BY <1>3, <1>4, <1>6, <1>7

\* The same up to a bound, for what holds of the steps of a loop.
LEMMA StepInduction ==
  ASSUME NEW n \in Nat, NEW S, 0 \in S, \A k \in 0..(n - 1) : k \in S => k + 1 \in S
  PROVE  0..n \subseteq S
<1> DEFINE T == {k \in Nat : k <= n => k \in S}
<1>1. 0 \in T /\ \A k \in Nat : k \in T => k + 1 \in T
  OBVIOUS
<1>2. Nat \subseteq T
  <2> HIDE DEF T
  <2> QED
    BY <1>1, SetInduction
<1> QED
  BY <1>2

-----------------------------------------------------------------------------
(***************************************************************************)
(* Pass 3 as a loop.                                                       *)
(***************************************************************************)
\* The recursive function of Applied exists, so it satisfies its equation.
LEMMA AppliedIsALoop ==
  ASSUME NEW db, NEW u, NEW t, NEW assigned, Len(t) \in Nat
  PROVE  /\ Applied(db, u, t, assigned)[0] = db
         /\ \A k \in 0..(Len(t) - 1) :
              Applied(db, u, t, assigned)[k + 1] =
                ApplySymbol(Applied(db, u, t, assigned)[k], u, t, k + 1, assigned)
<1> DEFINE S == {m \in Nat : \E g : g = [k \in 0..m |->
                    IF k = 0 THEN db ELSE ApplySymbol(g[k - 1], u, t, k, assigned)]}
<1>1. 0 \in S
  <2>1. [k \in 0..0 |-> db] = [k \in 0..0 |-> IF k = 0 THEN db
            ELSE ApplySymbol([j \in 0..0 |-> db][k - 1], u, t, k, assigned)]
    OBVIOUS
  <2> QED
    BY <2>1
<1>2. ASSUME NEW m \in Nat, m \in S PROVE m + 1 \in S
  <2>1. PICK g : g = [k \in 0..m |-> IF k = 0 THEN db ELSE ApplySymbol(g[k - 1], u, t, k, assigned)]
    BY <1>2
  <2> DEFINE h == [k \in 0..(m + 1) |->
                     IF k = m + 1 THEN ApplySymbol(g[m], u, t, m + 1, assigned) ELSE g[k]]
  <2>2. ASSUME NEW k \in 0..(m + 1)
        PROVE  h[k] = IF k = 0 THEN db ELSE ApplySymbol(h[k - 1], u, t, k, assigned)
    <3>1. CASE k = 0
      BY <2>1, <3>1
    <3>2. CASE k = m + 1
      BY <3>2
    <3>3. CASE k # 0 /\ k # m + 1
      <4>1. k \in 0..m /\ k - 1 \in 0..m /\ k - 1 # m + 1
        BY <3>3
      <4>2. g[k] = ApplySymbol(g[k - 1], u, t, k, assigned)
        BY <2>1, <3>3, <4>1
      <4> QED
        BY <3>3, <4>1, <4>2
    <3> QED
      BY <3>1, <3>2, <3>3
  <2>3. h = [k \in 0..(m + 1) |-> IF k = 0 THEN db ELSE ApplySymbol(h[k - 1], u, t, k, assigned)]
    <3> HIDE DEF h
    <3>1. h = [k \in 0..(m + 1) |-> h[k]]
      BY DEF h
    <3> QED
      BY <2>2, <3>1
  <2>4. \E f : f = [k \in 0..(m + 1) |-> IF k = 0 THEN db ELSE ApplySymbol(f[k - 1], u, t, k, assigned)]
    BY <2>3
  <2> QED
    BY <2>4
<1>3. Len(t) \in S
  <2> HIDE DEF S
  <2> QED
    BY <1>1, <1>2, SetInduction
<1>4. PICK g : g = [k \in 0..Len(t) |-> IF k = 0 THEN db ELSE ApplySymbol(g[k - 1], u, t, k, assigned)]
  BY <1>3
<1> DEFINE f == Applied(db, u, t, assigned)
<1>5. f = [k \in 0..Len(t) |-> IF k = 0 THEN db ELSE ApplySymbol(f[k - 1], u, t, k, assigned)]
  BY <1>4 DEF Applied
<1>6. ASSUME NEW k \in 0..(Len(t) - 1)
      PROVE  f[k + 1] = ApplySymbol(f[k], u, t, k + 1, assigned)
  <2> HIDE DEF f
  <2>1. k + 1 \in 0..Len(t) /\ k + 1 # 0 /\ (k + 1) - 1 = k
    OBVIOUS
  <2> QED
    BY <1>5, <2>1
<1>7. f[0] = db
  <2> HIDE DEF f
  <2> QED
    BY <1>5
<1> QED
  BY <1>6, <1>7

-----------------------------------------------------------------------------
(***************************************************************************)
(* The statements, field by field.                                         *)
(***************************************************************************)
IsDb(d) == DOMAIN d = {"nodes", "edges", "callees", "next", "ids", "ok"} /\ d.ok \in BOOLEAN

LEMMA PutIs ==
  ASSUME NEW d, IsDb(d), NEW ns
  PROVE  /\ IsDb(Put(d, ns)) /\ Put(d, ns).nodes = ns
         /\ Put(d, ns).edges = d.edges /\ Put(d, ns).callees = d.callees
         /\ Put(d, ns).next = d.next /\ Put(d, ns).ids = d.ids
         /\ Put(d, ns).ok => Unique(ns) /\ d.ok
<1>1. Unique(ns) \in BOOLEAN
  BY DEF Unique
<1> QED
  BY <1>1 DEF Put, IsDb

LEMMA WriteIs ==
  ASSUME NEW d, IsDb(d), NEW id, NEW row
  PROVE  LET w == Write(d, id, row) IN
         /\ IsDb(w) /\ w.edges = d.edges /\ w.callees = d.callees /\ w.next = d.next
         /\ w.nodes = [x \in {id} \cup DOMAIN d.nodes |-> IF x = id THEN row ELSE d.nodes[x]]
         /\ w.ids = Append(d.ids, id)
         /\ w.ok => Unique(w.nodes) /\ d.ok
<1> DEFINE ns == Over([x \in {id} |-> row], d.nodes)
           p == Put(d, ns)
<1>1. /\ IsDb(p) /\ p.nodes = ns /\ p.edges = d.edges /\ p.callees = d.callees
      /\ p.next = d.next /\ p.ids = d.ids
      /\ p.ok => Unique(p.nodes) /\ d.ok
  BY PutIs
<1>2. ns = [x \in {id} \cup DOMAIN d.nodes |-> IF x = id THEN row ELSE d.nodes[x]]
  BY DEF Over
<1>3. Write(d, id, row) = [p EXCEPT !.ids = Append(@, id)]
  BY DEF Write
<1> HIDE DEF p, ns
<1> QED
  BY <1>1, <1>2, <1>3 DEF IsDb

LEMMA InvalidateEdgesIs ==
  ASSUME NEW d, IsDb(d), NEW id
  PROVE  LET v == InvalidateEdges(d, id) IN
         /\ IsDb(v) /\ v.nodes = d.nodes /\ v.callees = d.callees /\ v.next = d.next /\ v.ids = d.ids
         /\ v.ok = d.ok
         /\ v.edges = [e \in DOMAIN d.edges |-> IF id \in {e[1], e[2]} THEN Invalid ELSE d.edges[e]]
  BY DEF InvalidateEdges, IsDb

LEMMA UpsertEdgesIs ==
  ASSUME NEW d, IsDb(d), NEW keys
  PROVE  LET v == upsert_edges(d, keys) IN
         /\ IsDb(v) /\ v.nodes = d.nodes /\ v.callees = d.callees /\ v.next = d.next /\ v.ids = d.ids
         /\ v.ok = d.ok
         /\ v.edges = [e \in keys \cup DOMAIN d.edges |->
                         IF e \in keys THEN Edge ELSE d.edges[e]]
<1>1. Over([e \in keys |-> Edge], d.edges)
        = [e \in keys \cup DOMAIN d.edges |-> IF e \in keys THEN Edge ELSE d.edges[e]]
  BY DEF Over
<1> QED
  BY <1>1 DEF upsert_edges, IsDb

LEMMA UpsertNodeIs ==
  ASSUME NEW d, IsDb(d), NEW row
  PROVE  \/ /\ \A x \in DOMAIN d.nodes : d.nodes[x].fqn # row.fqn /\ Phys(d.nodes[x]) # Phys(row)
            /\ upsert_node(d, row) = [Write(d, d.next, row) EXCEPT !.next = @ + 1]
         \/ \E id \in DOMAIN d.nodes :
              /\ d.nodes[id].fqn = row.fqn \/ Phys(d.nodes[id]) = Phys(row)
              /\ upsert_node(d, row) = Write(d, id, row)
  BY DEF upsert_node

LEMMA InsertIs ==
  ASSUME NEW d, IsDb(d), NEW row
  PROVE  LET w == [Write(d, d.next, row) EXCEPT !.next = @ + 1] IN
         /\ IsDb(w) /\ w.edges = d.edges /\ w.callees = d.callees /\ w.next = d.next + 1
         /\ w.nodes = [x \in {d.next} \cup DOMAIN d.nodes |-> IF x = d.next THEN row ELSE d.nodes[x]]
         /\ w.ids = Append(d.ids, d.next)
         /\ w.ok => Unique(w.nodes) /\ d.ok
<1> DEFINE v == Write(d, d.next, row)
<1>1. /\ IsDb(v) /\ v.edges = d.edges /\ v.callees = d.callees /\ v.next = d.next
      /\ v.nodes = [x \in {d.next} \cup DOMAIN d.nodes |-> IF x = d.next THEN row ELSE d.nodes[x]]
      /\ v.ids = Append(d.ids, d.next)
      /\ v.ok => Unique(v.nodes) /\ d.ok
  BY WriteIs
<1> DEFINE w == [v EXCEPT !.next = @ + 1]
<1>2. /\ w.edges = v.edges /\ w.callees = v.callees /\ w.nodes = v.nodes /\ w.ids = v.ids /\ w.ok = v.ok
      /\ DOMAIN w = DOMAIN v
  <2> HIDE DEF v
  <2> QED
    BY <1>1 DEF IsDb
<1>3. w.next = v.next + 1
  <2> HIDE DEF v
  <2> QED
    BY <1>1 DEF IsDb
<1> HIDE DEF v, w
<1>4. IsDb(w)
  BY <1>1, <1>2 DEF IsDb
<1>5. w = [Write(d, d.next, row) EXCEPT !.next = @ + 1]
  BY DEF w, v
<1> QED
  BY <1>1, <1>2, <1>3, <1>4, <1>5

\* The strike Pass 4 gives to a row nobody claimed.
Struck(r, id) == [r EXCEPT !.orphan = TRUE, !.valid = FALSE, !.line = nodes[id].line]

\* the second strike
Stricken(unclaimed) == {id \in unclaimed : nodes[id].orphan}

StruckFrom(d, unclaimed, gone, s) ==
  /\ IsDb(s) /\ s.next = d.next /\ s.ids = d.ids /\ s.callees = d.callees \ gone
  /\ DOMAIN s.nodes = DOMAIN d.nodes \ gone /\ s.nodes = [x \in DOMAIN s.nodes |-> s.nodes[x]]
  /\ \A x \in DOMAIN d.nodes \ gone : s.nodes[x] =
       IF x \in unclaimed THEN Struck(Unlinked(d.nodes[x], gone), x) ELSE Unlinked(d.nodes[x], gone)
  /\ DOMAIN s.edges = {e \in DOMAIN d.edges : {e[1], e[2]} \cap gone = {}}
  /\ s.edges = [e \in DOMAIN s.edges |-> d.edges[e]]
  /\ s.ok => Unique(s.nodes) /\ d.ok

LEMMA StrikeUnclaimedIs ==
  ASSUME NEW d, IsDb(d), NEW unclaimed
  PROVE  StruckFrom(d, unclaimed, Stricken(unclaimed), StrikeUnclaimed(d, unclaimed))
<1> DEFINE gone == Stricken(unclaimed)
           k == Delete(d, gone)
           ns == [x \in DOMAIN k.nodes |-> IF x \in unclaimed \ gone THEN Orphaned(k, x) ELSE k.nodes[x]]
<1>1. /\ IsDb(k) /\ k.ok = d.ok /\ k.next = d.next /\ k.ids = d.ids /\ k.callees = d.callees \ gone
      /\ k.nodes = [x \in DOMAIN d.nodes \ gone |-> Unlinked(d.nodes[x], gone)]
      /\ k.edges = [e \in {e \in DOMAIN d.edges : {e[1], e[2]} \cap gone = {}} |-> d.edges[e]]
  <2> DEFINE kn == [x \in DOMAIN d.nodes \ gone |->
                       Unlinked(d.nodes[x], gone)]
             ke == Restrict(d.edges, {e \in DOMAIN d.edges : {e[1], e[2]} \cap gone = {}})
  <2>1. k = [d EXCEPT !.nodes = kn, !.edges = ke, !.callees = @ \ gone]
    BY DEF Delete
  <2>2. ke = [e \in {e \in DOMAIN d.edges : {e[1], e[2]} \cap gone = {}} |-> d.edges[e]]
    BY DEF Restrict
  <2> HIDE DEF ke, k
  <2> QED
    BY <2>1, <2>2 DEF IsDb
<1>2. StrikeUnclaimed(d, unclaimed) = Put(k, ns)
  BY DEF StrikeUnclaimed, SecondStrike, Stricken
<1>3. ns = [x \in DOMAIN d.nodes \ gone |->
              IF x \in unclaimed THEN Struck(Unlinked(d.nodes[x], gone), x) ELSE Unlinked(d.nodes[x], gone)]
  <2> HIDE DEF k
  <2> QED
    BY <1>1 DEF Orphaned, Struck
<1> HIDE DEF k, ns
<1>4. /\ IsDb(Put(k, ns)) /\ Put(k, ns).nodes = ns
      /\ Put(k, ns).edges = k.edges /\ Put(k, ns).callees = k.callees
      /\ Put(k, ns).next = k.next /\ Put(k, ns).ids = k.ids
      /\ Put(k, ns).ok => Unique(ns) /\ k.ok
  BY <1>1, PutIs
<1> DEFINE s == Put(k, ns)
<1>5. s = StrikeUnclaimed(d, unclaimed)
  BY <1>2
<1> HIDE DEF s, gone
<1>6. StruckFrom(d, unclaimed, gone, s)
  <2>1. /\ IsDb(s) /\ s.nodes = ns /\ s.edges = k.edges /\ s.callees = k.callees
        /\ s.next = k.next /\ s.ids = k.ids
        /\ s.ok => Unique(s.nodes) /\ d.ok
    BY <1>1, <1>4 DEF s
  <2>2. /\ DOMAIN ns = DOMAIN d.nodes \ gone /\ ns = [x \in DOMAIN ns |-> ns[x]]
        /\ \A x \in DOMAIN d.nodes \ gone : ns[x] =
             IF x \in unclaimed THEN Struck(Unlinked(d.nodes[x], gone), x) ELSE Unlinked(d.nodes[x], gone)
    BY <1>3
  <2>3. /\ DOMAIN k.edges = {e \in DOMAIN d.edges : {e[1], e[2]} \cap gone = {}}
        /\ k.edges = [e \in DOMAIN k.edges |-> d.edges[e]]
    BY <1>1
  <2> QED
    BY <1>1, <2>1, <2>2, <2>3 DEF StruckFrom
<1> QED
  BY <1>5, <1>6 DEF gone

LEMMA PreparedIs ==
  ASSUME NEW u
  PROVE  LET p == Prepared(u) IN
         /\ IsDb(p) /\ p.edges = edges /\ p.callees = callees \ RowsOf(u) /\ p.next = nextId
         /\ p.ids = <<>> /\ p.ok
         /\ p.nodes = [id \in DOMAIN nodes |->
              IF id \in RowsOf(u) THEN [nodes[id] EXCEPT !.line = ParkedLine(id)] ELSE nodes[id]]
  BY DEF Prepared, Database, IsDb

LEMMA DatabaseIs ==
  /\ IsDb(Database) /\ Database.edges = edges /\ Database.callees = callees
  /\ Database.next = nextId /\ Database.ids = <<>> /\ Database.ok /\ Database.nodes = nodes
  BY DEF Database, IsDb

-----------------------------------------------------------------------------
(***************************************************************************)
(* Texts.                                                                  *)
(***************************************************************************)
LEMMA FrontIs ==
  ASSUME NEW f \in Seq(STRING) \ {<<>>}
  PROVE  /\ Front(f) \in Seq(STRING) /\ Len(Front(f)) = Len(f) - 1
         /\ Len(f) > 1 => Head(Front(f)) = Head(f)
<1>1. Len(f) \in Nat /\ Len(f) > 0
  BY EmptySeq
<1>2. Len(f) - 1 \in Nat /\ Len(f) - 1 <= Len(f) /\ DOMAIN f = 1..Len(f) /\ \A i \in 1..Len(f) : f[i] \in STRING
  BY <1>1
<1>3. Front(f) = [i \in 1..(Len(f) - 1) |-> f[i]]
  BY <1>1 DEF Front
<1>4. Front(f) \in Seq(STRING) /\ Len(Front(f)) = Len(f) - 1
  <2>1. \A i \in 1..(Len(f) - 1) : f[i] \in STRING
    BY <1>2
  <2> QED
    BY <1>2, <1>3, <2>1
<1>5. ASSUME Len(f) > 1 PROVE Front(f)[1] = f[1]
  BY <1>1, <1>3, <1>5
<1> QED
  BY <1>1, <1>4, <1>5

LEMMA TextIs ==
  ASSUME NEW u \in Uris, NEW t \in Texts[u]
  PROVE  /\ Len(t) \in Nat /\ DOMAIN t = 1..Len(t) /\ t # Nothing
         /\ \A i \in 1..Len(t) : t[i] \in Symbol /\ Head(t[i].fqn) = u
         /\ \A i, j \in 1..Len(t) : i # j =>
              <<Last(t[i].fqn), t[i].line>> # <<Last(t[j].fqn), t[j].line>>
<1>1. t \in Seq(Symbol) /\ t # Nothing /\ Proper(t) /\ \A i \in DOMAIN t : Head(t[i].fqn) = u
  BY TextsAssumption
<1>2. Len(t) \in Nat /\ DOMAIN t = 1..Len(t)
  BY <1>1
<1>3. \A i \in 1..Len(t) : t[i] \in Symbol
  BY <1>1
<1>4. \A i, j \in DOMAIN t : i # j =>
        <<Last(t[i].fqn), t[i].line>> # <<Last(t[j].fqn), t[j].line>>
  BY <1>1 DEF Proper
<1> QED
  BY <1>1, <1>2, <1>3, <1>4

\* Max, of numbers up to a bound.
LEMMA MaxIs ==
  ASSUME NEW n \in Nat, NEW S \in SUBSET (1..n), S # {}
  PROVE  Max(S) \in S /\ \E x \in S : \A y \in S : y <= x
<1> DEFINE Low == {k \in 0..n : (\E x \in S : x <= k) => \E x \in S : x <= k /\ \A y \in S : y <= k => y <= x}
<1>1. 0 \in Low
  OBVIOUS
<1>2. ASSUME NEW k \in 0..(n - 1), k \in Low PROVE k + 1 \in Low
  <2>1. CASE k + 1 \in S
    BY <2>1
  <2>2. CASE k + 1 \notin S
    <3>1. \A x \in S : x <= k + 1 <=> x <= k
      BY <2>2
    <3> QED
      BY <1>2, <3>1
  <2> QED
    BY <2>1, <2>2
<1>3. 0..n \subseteq Low
  <2> HIDE DEF Low
  <2> QED
    BY <1>1, <1>2, StepInduction
<1>4. n \in Low
  BY <1>3
<1>5. \E x \in S : \A y \in S : y <= x
  <2>1. \A x \in S : x <= n
    OBVIOUS
  <2>2. (\E x \in S : x <= n) => \E x \in S : x <= n /\ \A y \in S : y <= n => y <= x
    BY <1>4
  <2> QED
    BY <2>1, <2>2
<1>6. \E x \in S : \A y \in S : x >= y
  BY <1>5
<1> QED
  BY <1>5, <1>6 DEF Max

\* The parent of a symbol comes before it and is the symbol of its prefix; only
\* the module and what lies directly in it have none.
LEMMA ParentIs ==
  ASSUME NEW u \in Uris, NEW t \in Texts[u], NEW i \in 1..Len(t)
  PROVE  /\ Parent(t, i) \in 0..(i - 1)
         /\ Parent(t, i) # 0 => /\ t[Parent(t, i)].fqn = Front(t[i].fqn)
                                /\ Len(t[i].fqn) > 2
         /\ Len(t[i].fqn) > 2 => Parent(t, i) # 0
<1> DEFINE up == {j \in 1..(i - 1) : t[j].fqn = Front(t[i].fqn)}
<1>1. /\ Len(t) \in Nat /\ DOMAIN t = 1..Len(t)
      /\ \A j \in 1..Len(t) : t[j] \in Symbol
  BY TextIs
<1>2. Proper(t)
  BY TextsAssumption
<1>3. up # {} => Max(up) \in up
  <2>1. i - 1 \in Nat /\ up \in SUBSET (1..(i - 1))
    BY <1>1
  <2> HIDE DEF up
  <2> QED
    BY <2>1, MaxIs
<1>5. CASE up = {}
  <2>1. Parent(t, i) = 0
    BY <1>5 DEF Parent, container_prefix
  <2>2. ~ (Len(t[i].fqn) > 2)
    BY <1>1, <1>2, <1>5 DEF Proper
  <2> QED
    BY <2>1, <2>2
<1>6. CASE up # {}
  <2>1. PICK j \in up : Max(up) = j
    BY <1>3, <1>6
  <2>2. Parent(t, i) = j
    BY <1>6, <2>1 DEF Parent, container_prefix
  <2>3. j # Len(t) /\ Len(t[j].fqn) # 1
    <3>0. j \in 1..(i - 1) /\ Len(t) \in Nat /\ DOMAIN t = 1..Len(t)
      BY <1>1
    <3>2. \A n \in Nat : \A a \in 1..n : \A b \in 1..(a - 1) : b \in 1..n /\ b # n
      OBVIOUS
    <3>1. j \in DOMAIN t /\ j # Len(t)
      BY <3>0, <3>2, Zenon
    <3> QED
      BY <1>2, <3>1 DEF Proper
  <2>4. t[j].fqn \in Seq(STRING) /\ t[j].fqn # <<>> /\ t[i].fqn \in Seq(STRING) /\ t[i].fqn # <<>>
    BY <1>1 DEF Symbol
  <2>5. t[j].fqn = Front(t[i].fqn)
    OBVIOUS
  <2>6. Len(Front(t[i].fqn)) = Len(t[i].fqn) - 1
    BY <2>4, FrontIs
  <2>7. Len(t[j].fqn) \in Nat /\ Len(t[j].fqn) > 1
    <3>1. Len(t[j].fqn) \in Nat /\ Len(t[j].fqn) # 0
      BY <2>4, EmptySeq
    <3>2. \A n \in Nat : n # 0 /\ n # 1 => n > 1
      OBVIOUS
    <3> QED
      BY <2>3, <3>1, <3>2, Zenon
  <2> QED
    BY <2>2, <2>4, <2>5, <2>6, <2>7
<1> QED
  BY <1>5, <1>6

-----------------------------------------------------------------------------
(***************************************************************************)
(* The tables.                                                             *)
(***************************************************************************)
RowsWithLines(L) ==
  [uri : Uris, fqn : Seq(STRING) \ {<<>>}, kind : STRING, line : L, body : Nat,
   container : Nat \cup {Nothing}, valid : BOOLEAN, orphan : BOOLEAN]

Tables ==
  /\ nextId \in Nat \ {0} /\ nextId <= MaxId + 1
  /\ nodes \in [DOMAIN nodes -> RowsWithLines(Nat)]
  /\ DOMAIN nodes \subseteq 1..(nextId - 1)
  /\ Unique(nodes)
  /\ \A id \in DOMAIN nodes :
       /\ Head(nodes[id].fqn) = nodes[id].uri
       /\ nodes[id].orphan = ~nodes[id].valid
       /\ nodes[id].container \in DOMAIN nodes \cup {Nothing}
  /\ edges = [e \in DOMAIN edges |-> edges[e]]
  /\ \A e \in DOMAIN edges : {e[1], e[2]} \subseteq DOMAIN nodes /\ edges[e].valid \in BOOLEAN
  /\ callees \subseteq DOMAIN nodes
  /\ synced = [u \in Uris |-> synced[u]]
  /\ \A u \in Uris : synced[u] \in Texts[u] \cup {Nothing}

LEMMA RowIs ==
  ASSUME NEW u \in Uris, NEW s \in Symbol, NEW c \in Nat \cup {Nothing}
  PROVE  /\ Row(u, s, c) \in RowsWithLines(Nat) /\ Row(u, s, c) \in RowsWithLines(Int)
         /\ Row(u, s, c).uri = u /\ Row(u, s, c).fqn = s.fqn /\ Row(u, s, c).kind = s.kind
         /\ Row(u, s, c).line = s.line /\ Row(u, s, c).body = s.body
         /\ Row(u, s, c).container = c /\ Row(u, s, c).valid = TRUE /\ Row(u, s, c).orphan = FALSE
  BY DEF Row, RowsWithLines, Symbol

\* Where the two operations start from: the rows as they are, but for lines.
Base(d) ==
  /\ IsDb(d) /\ d.edges = edges /\ d.callees \subseteq callees /\ d.next = nextId /\ d.ids = <<>> /\ d.ok
  /\ d.nodes \in [DOMAIN nodes -> RowsWithLines(Int)]
  /\ \A x \in DOMAIN nodes : d.nodes[x] = [nodes[x] EXCEPT !.line = d.nodes[x].line]

LEMMA PreparedIsBase ==
  ASSUME Tables, NEW u
  PROVE  Base(Prepared(u))
<1>1. /\ IsDb(Prepared(u)) /\ Prepared(u).edges = edges /\ Prepared(u).callees = callees \ RowsOf(u)
      /\ Prepared(u).next = nextId /\ Prepared(u).ids = <<>> /\ Prepared(u).ok
      /\ Prepared(u).nodes = [id \in DOMAIN nodes |->
              IF id \in RowsOf(u) THEN [nodes[id] EXCEPT !.line = ParkedLine(id)] ELSE nodes[id]]
  BY PreparedIs
<1>2. ASSUME NEW x \in DOMAIN nodes
      PROVE  /\ [nodes[x] EXCEPT !.line = ParkedLine(x)] \in RowsWithLines(Int)
             /\ nodes[x] \in RowsWithLines(Int)
             /\ nodes[x] = [nodes[x] EXCEPT !.line = nodes[x].line]
             /\ [nodes[x] EXCEPT !.line = ParkedLine(x)].line = ParkedLine(x)
  <2>1. nodes[x] \in RowsWithLines(Nat) /\ x \in Int
    BY DEF Tables
  <2> QED
    BY <2>1 DEF RowsWithLines, ParkedLine
<1>3. Prepared(u).nodes \in [DOMAIN nodes -> RowsWithLines(Int)]
  BY <1>1, <1>2
<1>4. \A x \in DOMAIN nodes :
        Prepared(u).nodes[x] = [nodes[x] EXCEPT !.line = Prepared(u).nodes[x].line]
  <2> SUFFICES ASSUME NEW x \in DOMAIN nodes
               PROVE  Prepared(u).nodes[x] = [nodes[x] EXCEPT !.line = Prepared(u).nodes[x].line]
    OBVIOUS
  <2>1. CASE x \in RowsOf(u)
    <3>1. Prepared(u).nodes[x] = [nodes[x] EXCEPT !.line = ParkedLine(x)]
      BY <1>1, <2>1
    <3>2. Prepared(u).nodes[x].line = ParkedLine(x)
      BY <1>2, <3>1
    <3> QED
      BY <3>1, <3>2
  <2>2. CASE x \notin RowsOf(u)
    <3>1. Prepared(u).nodes[x] = nodes[x]
      BY <1>1, <2>2
    <3> QED
      BY <1>2, <3>1
  <2> QED
    BY <2>1, <2>2
<1> QED
  BY <1>1, <1>3, <1>4 DEF Base

LEMMA DatabaseIsBase ==
  ASSUME Tables
  PROVE  Base(Database)
<1>1. ASSUME NEW x \in DOMAIN nodes
      PROVE  nodes[x] \in RowsWithLines(Int) /\ nodes[x] = [nodes[x] EXCEPT !.line = nodes[x].line]
  <2>1. nodes[x] \in RowsWithLines(Nat)
    BY DEF Tables
  <2> QED
    BY <2>1 DEF RowsWithLines
<1>2. nodes = [x \in DOMAIN nodes |-> nodes[x]]
  BY DEF Tables
<1>3. nodes \in [DOMAIN nodes -> RowsWithLines(Int)]
  BY <1>1, <1>2
<1> QED
  BY <1>1, <1>3, DatabaseIs DEF Base

-----------------------------------------------------------------------------
(***************************************************************************)
(* One round of Pass 3: one row written, an old one or a new one.          *)
(***************************************************************************)
Wrote(d, a, id, row) ==
  /\ IsDb(a) /\ a.callees = d.callees /\ a.ids = Append(d.ids, id)
  /\ a.nodes = [x \in {id} \cup DOMAIN d.nodes |-> IF x = id THEN row ELSE d.nodes[x]]
  /\ a.ok => Unique(a.nodes) /\ d.ok

\* the row for symbol i, linked to the row its parent was written to
RowFor(d, u, t, i) == Row(u, t[i], IF Parent(t, i) = 0 THEN Nothing ELSE d.ids[Parent(t, i)])

Paired(a, d, u, t, i, m) ==
  /\ Wrote(d, a, m.old, RowFor(d, u, t, i)) /\ a.next = d.next
  /\ a.edges = IF Outdates(nodes[m.old], t[i])
                 THEN [e \in DOMAIN d.edges |-> IF m.old \in {e[1], e[2]} THEN Invalid ELSE d.edges[e]]
                 ELSE d.edges

Inserted(a, d, u, t, i) ==
  /\ Wrote(d, a, d.next, RowFor(d, u, t, i)) /\ a.next = d.next + 1 /\ a.edges = d.edges
  /\ \A x \in DOMAIN d.nodes : d.nodes[x].fqn # RowFor(d, u, t, i).fqn

Upserted(a, d, u, t, i, id) ==
  /\ Wrote(d, a, id, RowFor(d, u, t, i)) /\ a.next = d.next /\ a.edges = d.edges
  /\ \/ d.nodes[id].fqn = RowFor(d, u, t, i).fqn
     \/ Phys(d.nodes[id]) = Phys(RowFor(d, u, t, i))

LEMMA WriteWrote ==
  ASSUME NEW d, IsDb(d), NEW id, NEW row
  PROVE  LET w == Write(d, id, row) IN Wrote(d, w, id, row) /\ w.next = d.next /\ w.edges = d.edges
<1> DEFINE w == Write(d, id, row)
<1>1. /\ IsDb(w) /\ w.edges = d.edges /\ w.callees = d.callees /\ w.next = d.next
      /\ w.nodes = [x \in {id} \cup DOMAIN d.nodes |-> IF x = id THEN row ELSE d.nodes[x]]
      /\ w.ids = Append(d.ids, id)
      /\ w.ok => Unique(w.nodes) /\ d.ok
  BY WriteIs
<1> HIDE DEF w
<1>2. Wrote(d, w, id, row)
  BY <1>1 DEF Wrote
<1> QED
  BY <1>1, <1>2 DEF w

LEMMA InsertWrote ==
  ASSUME NEW d, IsDb(d), NEW row
  PROVE  LET w == [Write(d, d.next, row) EXCEPT !.next = @ + 1] IN
         Wrote(d, w, d.next, row) /\ w.next = d.next + 1 /\ w.edges = d.edges
<1> DEFINE w == [Write(d, d.next, row) EXCEPT !.next = @ + 1]
<1>1. /\ IsDb(w) /\ w.edges = d.edges /\ w.callees = d.callees /\ w.next = d.next + 1
      /\ w.nodes = [x \in {d.next} \cup DOMAIN d.nodes |-> IF x = d.next THEN row ELSE d.nodes[x]]
      /\ w.ids = Append(d.ids, d.next)
      /\ w.ok => Unique(w.nodes) /\ d.ok
  BY InsertIs
<1> HIDE DEF w
<1>2. Wrote(d, w, d.next, row)
  BY <1>1 DEF Wrote
<1> QED
  BY <1>1, <1>2 DEF w

LEMMA ApplySymbolIs ==
  ASSUME NEW d, IsDb(d), NEW u, NEW t, NEW i, NEW assigned
  PROVE  LET a == ApplySymbol(d, u, t, i, assigned) IN
         \/ \E m \in assigned : m.sym = i /\ Paired(a, d, u, t, i, m)
         \/ /\ ~\E m \in assigned : m.sym = i
            /\ \E id \in DOMAIN d.nodes : Upserted(a, d, u, t, i, id)
         \/ /\ ~\E m \in assigned : m.sym = i
            /\ Inserted(a, d, u, t, i)
<1> DEFINE a == ApplySymbol(d, u, t, i, assigned)
           row == RowFor(d, u, t, i)
           mine == {m \in assigned : m.sym = i}
<1>1. CASE mine = {}
  <2>1. a = upsert_node(d, row)
    BY <1>1 DEF ApplySymbol, RowFor
  <2>2. CASE \E id \in DOMAIN d.nodes :
               /\ d.nodes[id].fqn = row.fqn \/ Phys(d.nodes[id]) = Phys(row)
               /\ upsert_node(d, row) = Write(d, id, row)
    <3>1. PICK id \in DOMAIN d.nodes :
               /\ d.nodes[id].fqn = row.fqn \/ Phys(d.nodes[id]) = Phys(row)
               /\ a = Write(d, id, row)
      BY <2>1, <2>2
    <3>2. Wrote(d, Write(d, id, row), id, row) /\ Write(d, id, row).next = d.next
          /\ Write(d, id, row).edges = d.edges
      BY WriteWrote
    <3>3. Upserted(a, d, u, t, i, id)
      <4> HIDE DEF a, row
      <4>1. row = RowFor(d, u, t, i)
        BY DEF row
      <4> QED
        BY <3>1, <3>2, <4>1 DEF Upserted
    <3> QED
      BY <1>1, <3>3
  <2>3. CASE /\ \A x \in DOMAIN d.nodes : d.nodes[x].fqn # row.fqn /\ Phys(d.nodes[x]) # Phys(row)
             /\ upsert_node(d, row) = [Write(d, d.next, row) EXCEPT !.next = @ + 1]
    <3> DEFINE w == [Write(d, d.next, row) EXCEPT !.next = @ + 1]
    <3>1. Wrote(d, w, d.next, row) /\ w.next = d.next + 1 /\ w.edges = d.edges
      <4> HIDE DEF row
      <4> QED
        BY InsertWrote
    <3>2. Inserted(a, d, u, t, i)
      BY <2>1, <2>3, <3>1 DEF Inserted
    <3> QED
      BY <1>1, <3>2
  <2> QED
    BY <2>2, <2>3, UpsertNodeIs
<1>2. CASE mine # {}
  <2> DEFINE m == CHOOSE m \in mine : TRUE
             w == Write(d, m.old, row)
  <2>1. m \in mine
    BY <1>2
  <2>2. a = IF Outdates(nodes[m.old], t[i]) THEN InvalidateEdges(w, m.old) ELSE w
    BY <1>2 DEF ApplySymbol, RowFor
  <2> HIDE DEF m, a
  <2>3. Wrote(d, w, m.old, row) /\ w.next = d.next /\ w.edges = d.edges
    BY WriteWrote
  <2> DEFINE v == InvalidateEdges(w, m.old)
  <2> HIDE DEF w, row
  <2>4. /\ IsDb(v) /\ v.nodes = w.nodes /\ v.callees = w.callees /\ v.next = w.next /\ v.ids = w.ids
        /\ v.ok = w.ok
        /\ v.edges = [e \in DOMAIN w.edges |-> IF m.old \in {e[1], e[2]} THEN Invalid ELSE w.edges[e]]
    BY <2>3, InvalidateEdgesIs DEF Wrote
  <2> HIDE DEF v
  <2>5. Wrote(d, v, m.old, row) /\ v.next = d.next
        /\ v.edges = [e \in DOMAIN d.edges |-> IF m.old \in {e[1], e[2]} THEN Invalid ELSE d.edges[e]]
    BY <2>3, <2>4 DEF Wrote
  <2>6. row = RowFor(d, u, t, i) /\ v = InvalidateEdges(w, m.old)
    BY DEF row, v
  <2>7. Paired(a, d, u, t, i, m)
    BY <2>2, <2>3, <2>5, <2>6 DEF Paired
  <2> QED
    BY <2>1, <2>7 DEF a
<1> QED
  BY <1>1, <1>2

-----------------------------------------------------------------------------
(***************************************************************************)
(* What any number of rounds leaves alone, whatever the pairing and        *)
(* whether rows are parked: the rows of other files, and the references.   *)
(***************************************************************************)
\* row x is that of one of the first k symbols
HoldsSymbol(d, u, t, k, x) ==
  \E i \in 1..k : \E c \in DOMAIN d.nodes \cup {Nothing} : d.nodes[x] = Row(u, t[i], c)

Frame(u, t, base, d, k) ==
  /\ IsDb(d) /\ d.next \in Nat /\ nextId <= d.next /\ d.callees \subseteq callees
  /\ d.ids \in Seq(DOMAIN d.nodes) /\ Len(d.ids) = k
  /\ d.nodes \in [DOMAIN d.nodes -> RowsWithLines(Int)]
  /\ DOMAIN nodes \subseteq DOMAIN d.nodes /\ DOMAIN d.nodes \subseteq 1..(d.next - 1)
  /\ \A x \in DOMAIN d.nodes :
       \/ x \in DOMAIN nodes /\ d.nodes[x] = base.nodes[x]
       \/ (x \in DOMAIN nodes => nodes[x].uri = u) /\ HoldsSymbol(d, u, t, k, x)
  /\ d.edges = [e \in DOMAIN edges |-> d.edges[e]]
  /\ \A e \in DOMAIN edges : d.edges[e] \in {edges[e], Invalid}
  /\ d.ok /\ k > 0 => Unique(d.nodes)

LEMMA FrameStart ==
  ASSUME Tables, NEW u, NEW t, NEW base, Base(base)
  PROVE  Frame(u, t, base, base, 0)
<1>1. base.nodes \in [DOMAIN nodes -> RowsWithLines(Int)] /\ DOMAIN base.nodes = DOMAIN nodes
  BY DEF Base
<1>2. base.ids \in Seq(DOMAIN base.nodes) /\ Len(base.ids) = 0
  BY EmptySeq DEF Base
<1>3. edges = [e \in DOMAIN edges |-> edges[e]] /\ nextId \in Nat /\ DOMAIN nodes \subseteq 1..(nextId - 1)
  BY DEF Tables
<1> QED
  BY <1>1, <1>2, <1>3 DEF Frame, Base

\* Writing a symbol's row over one of the file's own rows, or adding it.
LEMMA FrameWrite ==
  ASSUME Tables, NEW u \in Uris, NEW t \in Texts[u], NEW base, Base(base),
         NEW d, NEW k \in 0..(Len(t) - 1), Frame(u, t, base, d, k),
         NEW a, NEW id, Wrote(d, a, id, RowFor(d, u, t, k + 1)),
         \/ id \in DOMAIN d.nodes /\ a.next = d.next /\ (id \in DOMAIN nodes => nodes[id].uri = u)
         \/ id = d.next /\ a.next = d.next + 1,
         a.edges = [e \in DOMAIN edges |-> a.edges[e]],
         \A e \in DOMAIN edges : a.edges[e] \in {edges[e], Invalid}
  PROVE  Frame(u, t, base, a, k + 1)
<1>1. /\ IsDb(a) /\ a.callees = d.callees /\ a.ids = Append(d.ids, id)
      /\ a.nodes = [x \in {id} \cup DOMAIN d.nodes |-> IF x = id THEN RowFor(d, u, t, k + 1) ELSE d.nodes[x]]
  BY DEF Wrote
<1>2. a.ok => Unique(a.nodes)
  BY DEF Wrote
<1>3. /\ d.next \in Nat /\ nextId <= d.next /\ d.callees \subseteq callees
      /\ d.ids \in Seq(DOMAIN d.nodes) /\ Len(d.ids) = k
      /\ d.nodes \in [DOMAIN d.nodes -> RowsWithLines(Int)]
      /\ DOMAIN nodes \subseteq DOMAIN d.nodes /\ DOMAIN d.nodes \subseteq 1..(d.next - 1)
  BY DEF Frame
<1>4. Len(t) \in Nat /\ k \in Nat /\ k + 1 \in 1..Len(t) /\ t[k + 1] \in Symbol
  BY TextIs
<1>5. Parent(t, k + 1) \in 0..k
  BY <1>4, ParentIs
<1> DEFINE c == IF Parent(t, k + 1) = 0 THEN Nothing ELSE d.ids[Parent(t, k + 1)]
<1>6. c \in DOMAIN d.nodes \cup {Nothing}
  BY <1>3, <1>4, <1>5
<1>7. RowFor(d, u, t, k + 1) = Row(u, t[k + 1], c)
  BY DEF RowFor
<1>8. nextId \in Nat \ {0} /\ DOMAIN nodes \subseteq 1..(nextId - 1)
  BY DEF Tables
<1>9. id \in Nat /\ {id} \cup DOMAIN d.nodes \subseteq 1..(a.next - 1) /\ a.next \in Nat /\ nextId <= a.next
  <2>1. CASE id \in DOMAIN d.nodes /\ a.next = d.next
    BY <1>3, <1>8, <2>1
  <2>2. CASE id = d.next /\ a.next = d.next + 1
    <3>1. d.next > 0
      BY <1>3, <1>8
    <3>2. DOMAIN d.nodes \subseteq 1..d.next
      BY <1>3
    <3> QED
      BY <1>3, <1>8, <2>2, <3>1, <3>2
  <2> QED
    BY <2>1, <2>2
<1>10. DOMAIN a.nodes = {id} \cup DOMAIN d.nodes
  BY <1>1
<1>11. a.nodes \in [DOMAIN a.nodes -> RowsWithLines(Int)]
  <2>1. Row(u, t[k + 1], c) \in RowsWithLines(Int)
    <3>1. c \in Nat \cup {Nothing}
      BY <1>3, <1>6
    <3> HIDE DEF c
    <3> QED
      BY <1>4, <3>1, RowIs
  <2> QED
    BY <1>1, <1>3, <1>7, <2>1
<1>12. a.ids \in Seq(DOMAIN a.nodes) /\ Len(a.ids) = k + 1
  <2>1. d.ids \in Seq({id} \cup DOMAIN d.nodes)
    BY <1>3
  <2> QED
    BY <1>1, <1>3, <1>10, <2>1, AppendProperties
<1>13. ASSUME NEW x \in DOMAIN a.nodes
       PROVE  \/ x \in DOMAIN nodes /\ a.nodes[x] = base.nodes[x]
              \/ (x \in DOMAIN nodes => nodes[x].uri = u) /\ HoldsSymbol(a, u, t, k + 1, x)
  <2>1. CASE x = id
    <3>1. id \in DOMAIN nodes => nodes[id].uri = u
      BY <1>3, <1>8
    <3>2. a.nodes[x] = Row(u, t[k + 1], c) /\ c \in DOMAIN a.nodes \cup {Nothing}
      BY <1>1, <1>6, <1>7, <1>10, <2>1
    <3>3. HoldsSymbol(a, u, t, k + 1, x)
      <4> HIDE DEF c
      <4> QED
        BY <1>4, <3>2 DEF HoldsSymbol
    <3> QED
      BY <2>1, <3>1, <3>3
  <2>2. CASE x # id
    <3>1. x \in DOMAIN d.nodes /\ a.nodes[x] = d.nodes[x]
      BY <1>1, <2>2
    <3>2. CASE (x \in DOMAIN nodes => nodes[x].uri = u) /\ HoldsSymbol(d, u, t, k, x)
      <4>1. PICK i \in 1..k : \E w \in DOMAIN d.nodes \cup {Nothing} : d.nodes[x] = Row(u, t[i], w)
        BY <3>2 DEF HoldsSymbol
      <4>2. PICK w \in DOMAIN d.nodes \cup {Nothing} : d.nodes[x] = Row(u, t[i], w)
        BY <4>1
      <4>3. w \in DOMAIN a.nodes \cup {Nothing} /\ i \in 1..(k + 1)
        BY <1>4, <1>10
      <4>4. HoldsSymbol(a, u, t, k + 1, x)
        BY <3>1, <4>2, <4>3 DEF HoldsSymbol
      <4> QED
        BY <3>2, <4>4
    <3> QED
      BY <3>1, <3>2 DEF Frame
  <2> QED
    BY <2>1, <2>2
<1> QED
  BY <1>1, <1>2, <1>3, <1>9, <1>10, <1>11, <1>12, <1>13 DEF Frame

LEMMA FrameStep ==
  ASSUME Tables, NEW u \in Uris, NEW t \in Texts[u], NEW base, Base(base),
         NEW assigned, \A m \in assigned : m.old \in RowsOf(u),
         NEW d, NEW k \in 0..(Len(t) - 1), Frame(u, t, base, d, k)
  PROVE  Frame(u, t, base, ApplySymbol(d, u, t, k + 1, assigned), k + 1)
<1> DEFINE a == ApplySymbol(d, u, t, k + 1, assigned)
<1>1. /\ IsDb(d) /\ d.next \in Nat /\ d.edges = [e \in DOMAIN edges |-> d.edges[e]]
      /\ \A e \in DOMAIN edges : d.edges[e] \in {edges[e], Invalid}
      /\ DOMAIN nodes \subseteq DOMAIN d.nodes /\ DOMAIN d.nodes \subseteq 1..(d.next - 1)
      /\ d.ids \in Seq(DOMAIN d.nodes) /\ Len(d.ids) = k
  BY DEF Frame
<1> HIDE DEF a
<1>2. ASSUME NEW m \in assigned, Paired(a, d, u, t, k + 1, m)
      PROVE  Frame(u, t, base, a, k + 1)
  <2>1. m.old \in DOMAIN d.nodes /\ nodes[m.old].uri = u
    BY <1>1 DEF RowsOf
  <2>2. Wrote(d, a, m.old, RowFor(d, u, t, k + 1)) /\ a.next = d.next
    BY <1>2 DEF Paired
  <2>3. a.edges = [e \in DOMAIN edges |-> a.edges[e]] /\ \A e \in DOMAIN edges : a.edges[e] \in {edges[e], Invalid}
    BY <1>1, <1>2 DEF Paired
  <2> QED
    BY <2>1, <2>2, <2>3, FrameWrite
<1>3. ASSUME NEW id \in DOMAIN d.nodes, Upserted(a, d, u, t, k + 1, id)
      PROVE  Frame(u, t, base, a, k + 1)
  <2>1. Wrote(d, a, id, RowFor(d, u, t, k + 1)) /\ a.next = d.next /\ a.edges = d.edges
    BY <1>3 DEF Upserted
  <2>2. t[k + 1] \in Symbol /\ Head(t[k + 1].fqn) = u
    BY TextIs
  <2>3. RowFor(d, u, t, k + 1).uri = u /\ RowFor(d, u, t, k + 1).fqn = t[k + 1].fqn
    BY DEF RowFor, Row
  <2>4. ASSUME id \in DOMAIN nodes PROVE nodes[id].uri = u
    <3>1. CASE d.nodes[id] = base.nodes[id]
      <4>1. base.nodes[id] = [nodes[id] EXCEPT !.line = base.nodes[id].line]
        BY <2>4 DEF Base
      <4>2. nodes[id] \in RowsWithLines(Nat) /\ Head(nodes[id].fqn) = nodes[id].uri
        BY <2>4 DEF Tables
      <4>3. d.nodes[id].uri = nodes[id].uri /\ d.nodes[id].fqn = nodes[id].fqn
        BY <3>1, <4>1, <4>2 DEF RowsWithLines
      <4>4. CASE d.nodes[id].fqn = RowFor(d, u, t, k + 1).fqn
        BY <2>2, <2>3, <4>2, <4>3, <4>4
      <4>5. CASE Phys(d.nodes[id]) = Phys(RowFor(d, u, t, k + 1))
        BY <2>3, <4>3, <4>5 DEF Phys
      <4> QED
        BY <1>3, <4>4, <4>5 DEF Upserted
    <3>2. CASE ~ (d.nodes[id] = base.nodes[id])
      BY <2>4, <3>2 DEF Frame
    <3> QED
      BY <3>1, <3>2
  <2> QED
    BY <1>1, <2>1, <2>4, FrameWrite
<1>4. ASSUME Inserted(a, d, u, t, k + 1)
      PROVE  Frame(u, t, base, a, k + 1)
  <2>1. Wrote(d, a, d.next, RowFor(d, u, t, k + 1)) /\ a.next = d.next + 1 /\ a.edges = d.edges
    BY <1>4 DEF Inserted
  <2> QED
    BY <1>1, <2>1, FrameWrite
<1> QED
  BY <1>1, <1>2, <1>3, <1>4, ApplySymbolIs DEF a

LEMMA FrameLoop ==
  ASSUME Tables, NEW u \in Uris, NEW t \in Texts[u], NEW base, Base(base),
         NEW assigned, \A m \in assigned : m.old \in RowsOf(u),
         NEW cut \in 0..Len(t)
  PROVE  Frame(u, t, base, Applied(base, u, t, assigned)[cut], cut)
<1> DEFINE f == Applied(base, u, t, assigned)
           S == {k \in 0..Len(t) : Frame(u, t, base, f[k], k)}
<1>1. Len(t) \in Nat
  BY TextIs
<1>2. f[0] = base /\ \A k \in 0..(Len(t) - 1) : f[k + 1] = ApplySymbol(f[k], u, t, k + 1, assigned)
  BY <1>1, AppliedIsALoop
<1> HIDE DEF f
<1>3. 0 \in S
  BY <1>1, <1>2, FrameStart
<1>4. ASSUME NEW k \in 0..(Len(t) - 1), k \in S PROVE k + 1 \in S
  <2>1. Frame(u, t, base, f[k], k)
    BY <1>4
  <2>2. Frame(u, t, base, f[k + 1], k + 1)
    BY <1>2, <2>1, FrameStep
  <2> QED
    BY <1>1, <2>2
<1>5. 0..Len(t) \subseteq S
  <2> HIDE DEF S
  <2> QED
    BY <1>1, <1>3, <1>4, StepInduction
<1> QED
  BY <1>5 DEF f

-----------------------------------------------------------------------------
(***************************************************************************)
(* Passes 1 and 2: no row and no symbol is assigned twice, and a row whose *)
(* name the text still has is the row of the first symbol of that name.   *)
(***************************************************************************)
Pairing(u, t, assigned) ==
  /\ \A m \in assigned : m.sym \in DOMAIN t /\ m.old \in RowsOf(u)
  /\ \A m, o \in assigned : Clash(m, o) => m = o
  /\ \A i \in DOMAIN t : \A id \in RowsOf(u) :
       nodes[id].fqn = t[i].fqn /\ IsFirst(t, i) => [sym |-> i, old |-> id] \in assigned

\* The sort leaves no two candidates in a tie.
LEMMA BeforeIsTotal ==
  ASSUME NEW a1 \in Int, NEW a2 \in Int, NEW a3 \in Int, NEW a4 \in Int,
         NEW b1 \in Int, NEW b2 \in Int, NEW b3 \in Int, NEW b4 \in Int,
         a3 # b3 \/ a4 # b4
  PROVE  \/ Before(<<a1, a2, a3, a4>>, <<b1, b2, b3, b4>>)
         \/ Before(<<b1, b2, b3, b4>>, <<a1, a2, a3, a4>>)
<1> DEFINE a == <<a1, a2, a3, a4>>
           b == <<b1, b2, b3, b4>>
<1>1. /\ a[1] = a1 /\ a[2] = a2 /\ a[3] = a3 /\ a[4] = a4
      /\ b[1] = b1 /\ b[2] = b2 /\ b[3] = b3 /\ b[4] = b4
  OBVIOUS
<1> HIDE DEF a, b
<1>2. ASSUME NEW k \in 1..4, a[k] # b[k], \A j \in 1..(k - 1) : a[j] = b[j]
      PROVE  Before(a, b) \/ Before(b, a)
  <2>1. a[k] \in Int /\ b[k] \in Int
    BY <1>1
  <2>2. a[k] < b[k] \/ b[k] < a[k]
    BY <1>2, <2>1
  <2> QED
    BY <1>2, <2>2 DEF Before
<1>3. \E k \in 1..4 : a[k] # b[k] /\ \A j \in 1..(k - 1) : a[j] = b[j]
  <2>1. CASE a1 # b1
    <3>1. a[1] # b[1] /\ \A j \in 1..(1 - 1) : a[j] = b[j]
      BY <1>1, <2>1
    <3> QED
      BY <3>1
  <2>2. CASE a1 = b1 /\ a2 # b2
    <3>1. a[2] # b[2] /\ \A j \in 1..(2 - 1) : a[j] = b[j]
      BY <1>1, <2>2
    <3> QED
      BY <3>1
  <2>3. CASE a1 = b1 /\ a2 = b2 /\ a3 # b3
    <3>1. a[3] # b[3] /\ \A j \in 1..(3 - 1) : a[j] = b[j]
      BY <1>1, <2>3
    <3> QED
      BY <3>1
  <2>4. CASE a1 = b1 /\ a2 = b2 /\ a3 = b3 /\ a4 # b4
    <3>1. a[4] # b[4] /\ \A j \in 1..(4 - 1) : a[j] = b[j]
      BY <1>1, <2>4
    <3> QED
      BY <3>1
  <2> QED
    BY <2>1, <2>2, <2>3, <2>4
<1>4. Before(a, b) \/ Before(b, a)
  BY <1>2, <1>3
<1> QED
  BY <1>4 DEF a, b

LEMMA KeysDiffer ==
  ASSUME Tables, NEW u \in Uris, NEW t \in Texts[u],
         NEW rank \in Ranks(Candidates(u, t)),
         NEW m \in Candidates(u, t), NEW o \in Candidates(u, t), m # o
  PROVE  Before(Key(m, t, rank), Key(o, t, rank)) \/ Before(Key(o, t, rank), Key(m, t, rank))
<1> DEFINE ids == {c.old : c \in Candidates(u, t)}
<1>1. Len(t) \in Nat /\ DOMAIN t = 1..Len(t) /\ \A i \in 1..Len(t) : t[i] \in Symbol
  BY TextIs
<1>2. \A c \in Candidates(u, t) : c \in [sym : DOMAIN t, old : RowsOf(u)]
  BY DEF Candidates
<1>3. ids \subseteq 1..(nextId - 1) /\ nextId - 1 \in Nat
  BY <1>2 DEF Tables, RowsOf
<1>4. Cardinality(ids) \in Nat
  <2> HIDE DEF ids
  <2>1. 1 \in Int /\ nextId - 1 \in Int
    BY <1>3
  <2>2. IsFiniteSet(1..(nextId - 1))
    BY <2>1, FS_Interval
  <2>3. IsFiniteSet(ids)
    BY <1>3, <2>2, FS_Subset
  <2> QED
    BY <2>3, FS_CardinalityType
<1>5. rank \in [ids -> 1..Cardinality(ids)] /\ IsInjective(rank)
  BY DEF Ranks
<1>6. rank[m.old] \in Int /\ rank[o.old] \in Int /\ (m.old # o.old => rank[m.old] # rank[o.old])
  BY <1>4, <1>5 DEF IsInjective
<1>7. ASSUME NEW c \in Candidates(u, t)
      PROVE  c.sym \in Int /\ Tier(c, t) \in Int /\ Drift(nodes[c.old], t[c.sym]) \in Int
  <2>1. c.sym \in 1..Len(t) /\ c.old \in DOMAIN nodes
    BY <1>1, <1>2 DEF RowsOf
  <2>2. nodes[c.old].line \in Nat /\ t[c.sym].line \in Nat
    BY <1>1, <2>1 DEF Tables, RowsWithLines, Symbol
  <2> QED
    BY <2>1, <2>2 DEF Tier, Drift
<1>8. m.sym # o.sym \/ m.old # o.old
  BY <1>2
<1>9. rank[m.old] # rank[o.old] \/ m.sym # o.sym
  BY <1>6, <1>8
<1> QED
  BY <1>6, <1>7, <1>9, BeforeIsTotal DEF Key

LEMMA SomeFirst ==
  ASSUME NEW t, NEW k \in Nat, NEW i \in 1..k
  PROVE  \E j \in 1..i : t[j].fqn = t[i].fqn /\ IsFirst(t, j)
<1> DEFINE S == {n \in 0..i : (\E j \in 1..n : t[j].fqn = t[i].fqn) =>
                               \E j \in 1..n : t[j].fqn = t[i].fqn /\ IsFirst(t, j)}
<1>1. 0 \in S
  OBVIOUS
<1>2. ASSUME NEW n \in 0..(i - 1), n \in S PROVE n + 1 \in S
  <2>1. CASE \E j \in 1..n : t[j].fqn = t[i].fqn
    BY <1>2, <2>1
  <2>2. CASE ~\E j \in 1..n : t[j].fqn = t[i].fqn
    <3>1. (n + 1) - 1 = n
      OBVIOUS
    <3>2. t[n + 1].fqn = t[i].fqn => IsFirst(t, n + 1)
      BY <2>2, <3>1 DEF IsFirst
    <3>3. \A j \in 1..(n + 1) : j \in 1..n \/ j = n + 1
      OBVIOUS
    <3> QED
      BY <2>2, <3>2, <3>3
  <2> QED
    BY <2>1, <2>2
<1>3. 0..i \subseteq S
  <2> HIDE DEF S
  <2> QED
    BY <1>1, <1>2, StepInduction
<1> QED
  BY <1>3

LEMMA FirstIsOne ==
  ASSUME NEW t, Len(t) \in Nat, NEW i \in 1..Len(t), NEW j \in 1..Len(t),
         t[i].fqn = t[j].fqn, IsFirst(t, i), IsFirst(t, j)
  PROVE  i = j
<1>1. i < j => i \in 1..(j - 1)
  OBVIOUS
<1>2. j < i => j \in 1..(i - 1)
  OBVIOUS
<1> QED
  BY <1>1, <1>2 DEF IsFirst

LEMMA AssignmentsPair ==
  ASSUME Tables, NEW u \in Uris, NEW t \in Texts[u], NEW assigned \in Assignments(u, t)
  PROVE  Pairing(u, t, assigned)
<1> DEFINE candidates == Candidates(u, t)
           exact == ExactMatches(u, t)
<1>1. PICK taken \in SUBSET candidates :
         /\ assigned = exact \cup taken
         /\ \E rank \in Ranks(candidates) : Greedy(taken, candidates, t, rank)
  BY DEF Assignments
<1>2. PICK rank \in Ranks(candidates) : Greedy(taken, candidates, t, rank)
  BY <1>1
<1>3. exact = {m \in [sym : DOMAIN t, old : RowsOf(u)] :
               nodes[m.old].fqn = t[m.sym].fqn /\ IsFirst(t, m.sym)}
  BY DEF ExactMatches
<1>4. \A m \in candidates :
        /\ m \in [sym : DOMAIN t, old : RowsOf(u)]
        /\ \A o \in exact : m.sym # o.sym /\ m.old # o.old
  BY DEF Candidates
<1>5. \A m \in assigned : m.sym \in DOMAIN t /\ m.old \in RowsOf(u)
  BY <1>1, <1>3, <1>4
<1>6. ASSUME NEW m \in exact, NEW o \in exact, Clash(m, o) PROVE m = o
  <2>1. DOMAIN t = 1..Len(t) /\ Len(t) \in Nat
    BY TextIs
  <2>2. m.sym \in DOMAIN t /\ o.sym \in DOMAIN t /\ m.old \in DOMAIN nodes /\ o.old \in DOMAIN nodes
    BY <1>3 DEF RowsOf
  <2>3. t[m.sym].fqn = t[o.sym].fqn /\ IsFirst(t, m.sym) /\ IsFirst(t, o.sym)
    BY <1>3, <1>6 DEF Clash
  <2>4. m.sym = o.sym
    BY <2>1, <2>2, <2>3, FirstIsOne
  <2>5. m.old = o.old
    BY <1>3, <2>2, <2>3 DEF Tables, Unique
  <2> QED
    BY <1>3, <2>4, <2>5
<1>7. ASSUME NEW m \in taken, NEW o \in taken, Clash(m, o) PROVE m = o
  <2> SUFFICES ASSUME m # o PROVE FALSE
    OBVIOUS
  <2>1. m \in candidates /\ o \in candidates
    OBVIOUS
  <2>2. Before(Key(m, t, rank), Key(o, t, rank)) \/ Before(Key(o, t, rank), Key(m, t, rank))
    BY <1>2, <2>1, KeysDiffer
  <2>3. Clash(o, m)
    BY <1>7 DEF Clash
  <2> HIDE DEF candidates
  <2> QED
    BY <1>2, <1>7, <2>1, <2>2, <2>3 DEF Greedy
<1>8. ASSUME NEW m \in assigned, NEW o \in assigned, Clash(m, o) PROVE m = o
  <2>1. ~ (m \in exact /\ o \in taken) /\ ~ (m \in taken /\ o \in exact)
    <3> HIDE DEF candidates, exact
    <3> QED
      BY <1>1, <1>4, <1>8 DEF Clash
  <2> QED
    BY <1>1, <1>6, <1>7, <1>8, <2>1
<1>9. ASSUME NEW i \in DOMAIN t, NEW id \in RowsOf(u), nodes[id].fqn = t[i].fqn, IsFirst(t, i)
      PROVE  [sym |-> i, old |-> id] \in assigned
  BY <1>1, <1>3, <1>9
<1> QED
  BY <1>5, <1>8, <1>9 DEF Pairing

-----------------------------------------------------------------------------
(***************************************************************************)
(* Pass 3 on a pairing, with the file's rows parked: every name gets a     *)
(* row of its own, its old one if it was paired and a new one otherwise,   *)
(* and the row shows the last symbol so far that has the name.             *)
(***************************************************************************)
Link(t, ids, i) == IF Parent(t, i) = 0 THEN Nothing ELSE ids[Parent(t, i)]

\* an end of edge e is one of the first k symbols, and is outdated
Doubtful(assigned, t, k, e) ==
  \E m \in assigned : m.sym <= k /\ m.old \in {e[1], e[2]} /\ Outdates(nodes[m.old], t[m.sym])

\* i is the last of the first k symbols that has its name
Newest(t, k, i) == \A j \in (i + 1)..k : t[j].fqn # t[i].fqn

LEMMA SomeNewest ==
  ASSUME NEW t, NEW k \in Nat, NEW i \in 1..k
  PROVE  \E j \in 1..k : t[j].fqn = t[i].fqn /\ Newest(t, k, j)
<1> DEFINE S == {j \in 1..k : t[j].fqn = t[i].fqn}
<1>1. S \in SUBSET (1..k) /\ i \in S
  OBVIOUS
<1>2. PICK j \in S : \A x \in S : x <= j
  <2> HIDE DEF S
  <2> QED
    BY <1>1, MaxIs
<1>3. Newest(t, k, j)
  BY <1>2 DEF Newest
<1> QED
  BY <1>3

\* r is a live row of that file and that name
Names(r, u, symbol) == r.uri = u /\ r.fqn = symbol.fqn /\ r.valid = TRUE

\* the first k symbols are written to the rows ids
Holding(u, t, k, ids, ns) ==
  /\ \A i \in 1..k : ids[i] \in DOMAIN ns /\ Names(ns[ids[i]], u, t[i])
  /\ \A i \in 1..k : Newest(t, k, i) => ns[ids[i]] = Row(u, t[i], Link(t, ids, i))
  /\ \A i, j \in 1..k : ids[i] = ids[j] <=> t[i].fqn = t[j].fqn

LEMMA HeldRow ==
  ASSUME NEW u, NEW t, NEW k \in Nat, NEW ids, NEW ns, Holding(u, t, k, ids, ns), NEW i \in 1..k
  PROVE  \E j \in 1..k : /\ ids[j] = ids[i] /\ t[j].fqn = t[i].fqn /\ Newest(t, k, j)
                         /\ ns[ids[i]] = Row(u, t[j], Link(t, ids, j))
<1>1. PICK j \in 1..k : t[j].fqn = t[i].fqn /\ Newest(t, k, j)
  BY SomeNewest
<1> QED
  BY <1>1 DEF Holding

\* the row of symbol i holds the last symbol of its name
HoldsLast(u, t, ids, ns, i) ==
  \E j \in 1..Len(t) : /\ ids[j] = ids[i] /\ IsLast(t, j)
                       /\ ns[ids[i]] = Row(u, t[j], Link(t, ids, j))

LEMMA LastIsHeld ==
  ASSUME NEW u, NEW t, Len(t) \in Nat, NEW ids, NEW ns, Holding(u, t, Len(t), ids, ns),
         NEW i \in 1..Len(t)
  PROVE  HoldsLast(u, t, ids, ns, i)
<1>1. PICK j \in 1..Len(t) : t[j].fqn = t[i].fqn /\ Newest(t, Len(t), j)
  BY SomeNewest
<1>2. IsLast(t, j)
  BY <1>1 DEF IsLast, Newest
<1>3. ids[j] = ids[i] /\ ns[ids[j]] = Row(u, t[j], Link(t, ids, j))
  BY <1>1 DEF Holding
<1> QED
  BY <1>2, <1>3 DEF HoldsLast

Rounds(u, t, assigned, d, k) ==
  /\ Holding(u, t, k, d.ids, d.nodes)
  /\ \A m \in assigned : m.sym <= k => d.ids[m.sym] = m.old
  /\ \A i \in 1..k : d.ids[i] \in DOMAIN nodes => \E m \in assigned : m.sym <= k /\ m.old = d.ids[i]
  /\ \A x \in DOMAIN d.nodes : (\A i \in 1..k : d.ids[i] # x) =>
       x \in DOMAIN nodes /\ d.nodes[x] = Prepared(u).nodes[x]
  /\ \A e \in DOMAIN edges : d.edges[e] = IF Doubtful(assigned, t, k, e) THEN Invalid ELSE edges[e]

\* a is d after the round of symbol k + 1, which was given row id
Gives(u, t, assigned, d, k, a, id) ==
  /\ Wrote(d, a, id, RowFor(d, u, t, k + 1))
  /\ \A i \in 1..k : d.ids[i] = id <=> t[i].fqn = t[k + 1].fqn
  /\ id \in DOMAIN nodes => \E m \in assigned : m.sym <= k + 1 /\ m.old = id
  /\ \A m \in assigned : m.sym = k + 1 => m.old = id
  /\ \A e \in DOMAIN edges :
       a.edges[e] = IF Doubtful(assigned, t, k + 1, e) THEN Invalid ELSE edges[e]

LEMMA RoundsWrite ==
  ASSUME Tables, NEW u \in Uris, NEW t \in Texts[u], NEW assigned, Pairing(u, t, assigned),
         NEW d, NEW k \in 0..(Len(t) - 1), Frame(u, t, Prepared(u), d, k), Rounds(u, t, assigned, d, k),
         NEW a, NEW id, Gives(u, t, assigned, d, k, a, id)
  PROVE  Rounds(u, t, assigned, a, k + 1)
<1>0. /\ Wrote(d, a, id, RowFor(d, u, t, k + 1))
      /\ \A i \in 1..k : d.ids[i] = id <=> t[i].fqn = t[k + 1].fqn
      /\ id \in DOMAIN nodes => \E m \in assigned : m.sym <= k + 1 /\ m.old = id
      /\ \A m \in assigned : m.sym = k + 1 => m.old = id
      /\ \A e \in DOMAIN edges :
           a.edges[e] = IF Doubtful(assigned, t, k + 1, e) THEN Invalid ELSE edges[e]
  BY DEF Gives
<1>1. /\ Len(t) \in Nat /\ k \in Nat /\ k + 1 \in 1..Len(t) /\ DOMAIN t = 1..Len(t)
  BY TextIs
<1>2. d.ids \in Seq(DOMAIN d.nodes) /\ Len(d.ids) = k /\ DOMAIN d.ids = 1..k
  BY DEF Frame
<1>3. /\ a.ids = Append(d.ids, id)
      /\ a.nodes = [x \in {id} \cup DOMAIN d.nodes |-> IF x = id THEN RowFor(d, u, t, k + 1) ELSE d.nodes[x]]
  BY <1>0 DEF Wrote
<1>4. a.ids[k + 1] = id /\ \A i \in 1..k : a.ids[i] = d.ids[i]
  <2>1. d.ids \in Seq({id} \cup DOMAIN d.nodes)
    BY <1>2
  <2> QED
    BY <1>2, <1>3, <2>1, AppendProperties
<1>5. \A i \in 1..(k + 1) : Link(t, a.ids, i) = Link(t, d.ids, i)
  <2> SUFFICES ASSUME NEW i \in 1..(k + 1) PROVE Link(t, a.ids, i) = Link(t, d.ids, i)
    OBVIOUS
  <2>1. i \in 1..Len(t)
    BY <1>1
  <2>2. Parent(t, i) \in 0..(i - 1)
    BY <2>1, ParentIs
  <2>3. Parent(t, i) # 0 => Parent(t, i) \in 1..k
    BY <1>1, <2>2
  <2> QED
    BY <1>4, <2>3 DEF Link
<1>6. /\ \A i \in 1..k : d.ids[i] \in DOMAIN d.nodes /\ Names(d.nodes[d.ids[i]], u, t[i])
      /\ \A i \in 1..k : Newest(t, k, i) => d.nodes[d.ids[i]] = Row(u, t[i], Link(t, d.ids, i))
      /\ \A i, j \in 1..k : d.ids[i] = d.ids[j] <=> t[i].fqn = t[j].fqn
  BY DEF Rounds, Holding
<1>7. /\ id \in DOMAIN a.nodes /\ a.nodes[id] = Row(u, t[k + 1], Link(t, a.ids, k + 1))
      /\ \A i \in 1..(k + 1) : t[i].fqn = t[k + 1].fqn => Names(a.nodes[id], u, t[i])
  <2>1. a.nodes[id] = RowFor(d, u, t, k + 1) /\ id \in DOMAIN a.nodes
    BY <1>3
  <2>2. RowFor(d, u, t, k + 1) = Row(u, t[k + 1], Link(t, a.ids, k + 1))
    BY <1>1, <1>5 DEF RowFor, Link
  <2> QED
    BY <2>1, <2>2 DEF Row, Names
<1>8. ASSUME NEW i \in 1..k, t[i].fqn # t[k + 1].fqn
      PROVE  a.ids[i] = d.ids[i] /\ a.ids[i] # id /\ a.ids[i] \in DOMAIN a.nodes
             /\ a.nodes[a.ids[i]] = d.nodes[d.ids[i]]
  <2>1. d.ids[i] # id /\ d.ids[i] \in DOMAIN d.nodes /\ a.ids[i] = d.ids[i]
    BY <1>0, <1>4, <1>6, <1>8
  <2> QED
    BY <1>3, <2>1
<1>9. ASSUME NEW i \in 1..(k + 1), t[i].fqn = t[k + 1].fqn
      PROVE  a.ids[i] = id
  BY <1>0, <1>1, <1>4, <1>9
<1>10. ASSUME NEW i \in 1..(k + 1)
       PROVE  a.ids[i] \in DOMAIN a.nodes /\ Names(a.nodes[a.ids[i]], u, t[i])
  <2>1. CASE t[i].fqn = t[k + 1].fqn
    BY <1>7, <1>9, <2>1
  <2>2. CASE t[i].fqn # t[k + 1].fqn
    <3>1. i \in 1..k
      BY <1>1, <2>2
    <3> QED
      BY <1>6, <1>8, <2>2, <3>1
  <2> QED
    BY <2>1, <2>2
<1>11. ASSUME NEW i \in 1..(k + 1), Newest(t, k + 1, i)
       PROVE  a.nodes[a.ids[i]] = Row(u, t[i], Link(t, a.ids, i))
  <2>1. CASE i = k + 1
    BY <1>4, <1>7, <2>1
  <2>2. CASE i \in 1..k
    <3>1. t[i].fqn # t[k + 1].fqn
      <4>1. k + 1 \in (i + 1)..(k + 1)
        BY <1>1, <2>2
      <4> QED
        BY <1>11, <4>1 DEF Newest
    <3>2. Newest(t, k, i)
      <4>1. \A j \in (i + 1)..k : j \in (i + 1)..(k + 1)
        BY <1>1, <2>2
      <4> QED
        BY <1>11, <4>1 DEF Newest
    <3> QED
      BY <1>5, <1>6, <1>8, <2>2, <3>1, <3>2
  <2> QED
    BY <1>1, <2>1, <2>2
<1>12. ASSUME NEW i \in 1..(k + 1), NEW j \in 1..(k + 1)
       PROVE  a.ids[i] = a.ids[j] <=> t[i].fqn = t[j].fqn
  <2>1. CASE t[i].fqn = t[k + 1].fqn /\ t[j].fqn = t[k + 1].fqn
    BY <1>9, <2>1
  <2>2. CASE t[i].fqn # t[k + 1].fqn /\ t[j].fqn # t[k + 1].fqn
    <3>1. i \in 1..k /\ j \in 1..k
      BY <1>1, <2>2
    <3> QED
      BY <1>6, <1>8, <2>2, <3>1
  <2>3. CASE t[i].fqn = t[k + 1].fqn /\ t[j].fqn # t[k + 1].fqn
    <3>1. j \in 1..k
      BY <1>1, <2>3
    <3> QED
      BY <1>8, <1>9, <2>3, <3>1
  <2>4. CASE t[i].fqn # t[k + 1].fqn /\ t[j].fqn = t[k + 1].fqn
    <3>1. i \in 1..k
      BY <1>1, <2>4
    <3> QED
      BY <1>8, <1>9, <2>4, <3>1
  <2> QED
    BY <2>1, <2>2, <2>3, <2>4
<1>13. Holding(u, t, k + 1, a.ids, a.nodes)
  BY <1>10, <1>11, <1>12 DEF Holding
<1>14. ASSUME NEW m \in assigned, m.sym <= k + 1
       PROVE  a.ids[m.sym] = m.old
  <2>1. m.sym \in 1..Len(t)
    BY <1>1 DEF Pairing
  <2>2. CASE m.sym = k + 1
    BY <1>0, <1>4, <2>2
  <2>3. CASE m.sym \in 1..k
    <3>1. m.sym <= k
      BY <1>1, <2>3
    <3>2. d.ids[m.sym] = m.old
      BY <3>1 DEF Rounds
    <3> QED
      BY <1>4, <2>3, <3>2
  <2> QED
    BY <1>1, <1>14, <2>1, <2>2, <2>3
<1>15. ASSUME NEW i \in 1..(k + 1), a.ids[i] \in DOMAIN nodes
       PROVE  \E m \in assigned : m.sym <= k + 1 /\ m.old = a.ids[i]
  <2>1. CASE t[i].fqn = t[k + 1].fqn
    BY <1>0, <1>9, <1>15, <2>1
  <2>2. CASE t[i].fqn # t[k + 1].fqn
    <3>1. i \in 1..k /\ a.ids[i] = d.ids[i]
      BY <1>1, <1>4, <2>2
    <3>2. PICK m \in assigned : m.sym <= k /\ m.old = d.ids[i]
      BY <1>15, <3>1 DEF Rounds
    <3>3. m.sym \in 1..Len(t)
      BY <1>1 DEF Pairing
    <3>4. m.sym <= k + 1
      BY <1>1, <3>2, <3>3
    <3> QED
      BY <3>1, <3>2, <3>4
  <2> QED
    BY <2>1, <2>2
<1>16. ASSUME NEW x \in DOMAIN a.nodes, \A i \in 1..(k + 1) : a.ids[i] # x
       PROVE  x \in DOMAIN nodes /\ a.nodes[x] = Prepared(u).nodes[x]
  <2>1. x # id /\ \A i \in 1..k : d.ids[i] # x
    <3>1. k + 1 \in 1..(k + 1) /\ \A i \in 1..k : i \in 1..(k + 1)
      BY <1>1
    <3> QED
      BY <1>4, <1>16, <3>1
  <2>2. x \in DOMAIN d.nodes /\ a.nodes[x] = d.nodes[x]
    BY <1>3, <2>1
  <2> QED
    BY <2>1, <2>2 DEF Rounds
<1> QED
  BY <1>0, <1>13, <1>14, <1>15, <1>16 DEF Rounds

\* An old row that is paired with the next symbol holds none of the symbols so far, and
\* no symbol so far has the next one's name, or a unique index would stop it.
LEMMA PairedIsFree ==
  ASSUME Tables, NEW u \in Uris, NEW t \in Texts[u], NEW assigned, Pairing(u, t, assigned),
         NEW d, NEW k \in 0..(Len(t) - 1), Rounds(u, t, assigned, d, k),
         NEW a, NEW m \in assigned, m.sym = k + 1, Paired(a, d, u, t, k + 1, m), a.ok,
         NEW i \in 1..k
  PROVE  d.ids[i] # m.old /\ t[i].fqn # t[k + 1].fqn
<1>1. /\ Len(t) \in Nat /\ k \in Nat /\ DOMAIN t = 1..Len(t)
  BY TextIs
<1>2. d.ids[i] # m.old
  <2> SUFFICES ASSUME d.ids[i] = m.old PROVE FALSE
    OBVIOUS
  <2>1. m.old \in DOMAIN nodes
    BY DEF Pairing, RowsOf
  <2>2. PICK o \in assigned : o.sym <= k /\ o.old = m.old
    BY <2>1 DEF Rounds
  <2>3. o = m
    BY <2>2 DEF Pairing, Clash
  <2> QED
    BY <1>1, <2>2, <2>3
<1>3. d.ids[i] \in DOMAIN d.nodes /\ d.nodes[d.ids[i]].fqn = t[i].fqn
  BY DEF Rounds, Holding, Names
<1>4. Wrote(d, a, m.old, RowFor(d, u, t, k + 1))
  BY DEF Paired
<1>8. Unique(a.nodes)
  BY <1>4 DEF Wrote
<1>5. /\ a.nodes = [x \in {m.old} \cup DOMAIN d.nodes |->
                      IF x = m.old THEN RowFor(d, u, t, k + 1) ELSE d.nodes[x]]
  BY <1>4 DEF Wrote
<1>6. RowFor(d, u, t, k + 1).fqn = t[k + 1].fqn
  BY DEF RowFor, Row
<1>7. /\ d.ids[i] \in DOMAIN a.nodes /\ a.nodes[d.ids[i]].fqn = t[i].fqn
      /\ m.old \in DOMAIN a.nodes /\ a.nodes[m.old].fqn = t[k + 1].fqn
  BY <1>2, <1>3, <1>5, <1>6
<1>9. a.nodes[d.ids[i]].fqn # a.nodes[m.old].fqn
  BY <1>2, <1>7, <1>8 DEF Unique
<1> QED
  BY <1>2, <1>7, <1>9

\* A row that the upsert of an unpaired symbol finds is that of an earlier symbol of its name.
LEMMA UpsertedIsHeld ==
  ASSUME Tables, NEW u \in Uris, NEW t \in Texts[u], NEW assigned, Pairing(u, t, assigned),
         NEW d, NEW k \in 0..(Len(t) - 1), Frame(u, t, Prepared(u), d, k), Rounds(u, t, assigned, d, k),
         ~\E m \in assigned : m.sym = k + 1,
         NEW a, NEW id \in DOMAIN d.nodes, Upserted(a, d, u, t, k + 1, id)
  PROVE  \E i \in 1..k : d.ids[i] = id /\ t[i].fqn = t[k + 1].fqn
<1>1. /\ Len(t) \in Nat /\ k \in Nat /\ k + 1 \in 1..Len(t) /\ DOMAIN t = 1..Len(t)
      /\ t[k + 1] \in Symbol /\ Head(t[k + 1].fqn) = u
  BY TextIs
<1>2. RowFor(d, u, t, k + 1).fqn = t[k + 1].fqn
      /\ Phys(RowFor(d, u, t, k + 1)) = <<u, t[k + 1].line, Last(t[k + 1].fqn)>>
  BY DEF RowFor, Row, Phys
<1>3. \/ d.nodes[id].fqn = t[k + 1].fqn
      \/ Phys(d.nodes[id]) = <<u, t[k + 1].line, Last(t[k + 1].fqn)>>
  BY <1>2 DEF Upserted
<1>4. ASSUME NEW i \in 1..k, d.ids[i] = id
      PROVE  t[i].fqn = t[k + 1].fqn
  <2>1. d.nodes[id].fqn = t[i].fqn
    BY <1>4 DEF Rounds, Holding, Names
  <2>2. PICK j \in 1..k : t[j].fqn = t[i].fqn /\ Newest(t, k, j)
    BY <1>1, SomeNewest
  <2>3. d.ids[j] = id
    BY <1>4, <2>2 DEF Rounds, Holding
  <2>4. d.nodes[id] = Row(u, t[j], Link(t, d.ids, j))
    BY <2>2, <2>3 DEF Rounds, Holding
  <2>5. Phys(d.nodes[id]) = <<u, t[j].line, Last(t[j].fqn)>>
    BY <2>4 DEF Row, Phys
  <2>6. j \in 1..Len(t) /\ j # k + 1
    BY <1>1
  <2>7. <<Last(t[j].fqn), t[j].line>> # <<Last(t[k + 1].fqn), t[k + 1].line>>
    BY <1>1, <2>6, TextIs
  <2> QED
    BY <1>3, <2>1, <2>5, <2>7
<1>5. CASE \E i \in 1..k : d.ids[i] = id
  BY <1>4, <1>5
<1>6. CASE \A i \in 1..k : d.ids[i] # id
  <2>4. id \in DOMAIN nodes /\ d.nodes[id] = Prepared(u).nodes[id]
    BY <1>6 DEF Rounds
  <2>5. Prepared(u).nodes[id] =
          IF id \in RowsOf(u) THEN [nodes[id] EXCEPT !.line = ParkedLine(id)] ELSE nodes[id]
    <3>1. Prepared(u).nodes = [x \in DOMAIN nodes |->
            IF x \in RowsOf(u) THEN [nodes[x] EXCEPT !.line = ParkedLine(x)] ELSE nodes[x]]
      BY PreparedIs
    <3> QED
      BY <2>4, <3>1
  <2>6. nodes[id] \in RowsWithLines(Nat) /\ Head(nodes[id].fqn) = nodes[id].uri /\ id \in Nat /\ id > 0
    BY <2>4 DEF Tables
  <2>7. CASE id \in RowsOf(u)
    <3>1. d.nodes[id].fqn = nodes[id].fqn /\ d.nodes[id].line = -id
      BY <2>4, <2>5, <2>6, <2>7 DEF RowsWithLines, ParkedLine
    <3>2. t[k + 1].line \in Nat
      BY <1>1 DEF Symbol
    <3>3. d.nodes[id].line # t[k + 1].line
      BY <2>6, <3>1, <3>2
    <3>4. d.nodes[id].fqn = t[k + 1].fqn
      BY <1>3, <3>3 DEF Phys
    <3>5. PICK i \in 1..(k + 1) : t[i].fqn = t[k + 1].fqn /\ IsFirst(t, i)
      BY <1>1, SomeFirst
    <3>6. i \in DOMAIN t
      BY <1>1
    <3>7. [sym |-> i, old |-> id] \in assigned
      BY <2>7, <3>1, <3>4, <3>5, <3>6 DEF Pairing
    <3>8. i # k + 1
      BY <3>7
    <3>9. i \in 1..k /\ i <= k
      BY <1>1, <3>8
    <3>10. d.ids[i] = id
      BY <3>7, <3>9 DEF Rounds
    <3> QED
      BY <1>6, <3>9, <3>10
  <2>8. CASE id \notin RowsOf(u)
    <3>1. d.nodes[id] = nodes[id] /\ nodes[id].uri # u
      BY <2>4, <2>5, <2>8 DEF RowsOf
    <3> QED
      BY <1>1, <1>3, <2>6, <3>1 DEF Phys
  <2> QED
    BY <2>7, <2>8
<1> QED
  BY <1>5, <1>6

LEMMA RoundsStep ==
  ASSUME Tables, NEW u \in Uris, NEW t \in Texts[u], NEW assigned, Pairing(u, t, assigned),
         NEW d, NEW k \in 0..(Len(t) - 1), Frame(u, t, Prepared(u), d, k),
         d.ok => Rounds(u, t, assigned, d, k), ApplySymbol(d, u, t, k + 1, assigned).ok
  PROVE  Rounds(u, t, assigned, ApplySymbol(d, u, t, k + 1, assigned), k + 1)
<1> DEFINE a == ApplySymbol(d, u, t, k + 1, assigned)
<1>1. /\ Len(t) \in Nat /\ k \in Nat /\ k + 1 \in 1..Len(t) /\ DOMAIN t = 1..Len(t)
      /\ t[k + 1] \in Symbol /\ Head(t[k + 1].fqn) = u
  BY TextIs
<1>2. /\ IsDb(d) /\ d.next \in Nat /\ nextId <= d.next /\ DOMAIN d.edges = DOMAIN edges
      /\ DOMAIN nodes \subseteq DOMAIN d.nodes /\ DOMAIN d.nodes \subseteq 1..(d.next - 1)
      /\ d.ids \in Seq(DOMAIN d.nodes) /\ Len(d.ids) = k /\ DOMAIN d.ids = 1..k
  BY DEF Frame
<1>3. /\ \/ \E m \in assigned : m.sym = k + 1 /\ Paired(a, d, u, t, k + 1, m)
         \/ /\ ~\E m \in assigned : m.sym = k + 1
            /\ \E id \in DOMAIN d.nodes : Upserted(a, d, u, t, k + 1, id)
         \/ ~(\E m \in assigned : m.sym = k + 1) /\ Inserted(a, d, u, t, k + 1)
      /\ a.ok
  BY <1>2, ApplySymbolIs
<1> HIDE DEF a
<1>4. d.ok
  BY <1>3 DEF Paired, Upserted, Inserted, Wrote
<1>5. Rounds(u, t, assigned, d, k)
  BY <1>4
<1>6. \A e \in DOMAIN edges : d.edges[e] = IF Doubtful(assigned, t, k, e) THEN Invalid ELSE edges[e]
  BY <1>5 DEF Rounds
<1>7. \A m \in assigned : m.sym \in Int
  BY <1>1 DEF Pairing
<1>8. ASSUME NEW m \in assigned, m.sym = k + 1, Paired(a, d, u, t, k + 1, m)
      PROVE  Rounds(u, t, assigned, a, k + 1)
  <2>1. \A i \in 1..k : d.ids[i] # m.old /\ t[i].fqn # t[k + 1].fqn
    BY <1>3, <1>5, <1>8, PairedIsFree
  <2>2. \A o \in assigned : o.sym = k + 1 => o = m
    BY <1>8 DEF Pairing, Clash
  <2>3. Wrote(d, a, m.old, RowFor(d, u, t, k + 1))
    BY <1>8 DEF Paired
  <2>4. ASSUME NEW e \in DOMAIN edges
        PROVE  a.edges[e] = IF Doubtful(assigned, t, k + 1, e) THEN Invalid ELSE edges[e]
    <3>1. Doubtful(assigned, t, k + 1, e)
            <=> \/ Doubtful(assigned, t, k, e)
                \/ m.old \in {e[1], e[2]} /\ Outdates(nodes[m.old], t[m.sym])
      <4>1. \A o \in assigned : o.sym <= k + 1 <=> (o.sym <= k \/ o.sym = k + 1)
        BY <1>1, <1>7
      <4> QED
        BY <1>8, <2>2, <4>1 DEF Doubtful
    <3>2. a.edges[e] = IF Outdates(nodes[m.old], t[k + 1]) /\ m.old \in {e[1], e[2]}
                         THEN Invalid ELSE d.edges[e]
      BY <1>2, <1>8 DEF Paired
    <3> QED
      BY <1>6, <1>8, <3>1, <3>2
  <2>5. m.old \in DOMAIN nodes => \E o \in assigned : o.sym <= k + 1 /\ o.old = m.old
    BY <1>1, <1>8
  <2>6. \A o \in assigned : o.sym = k + 1 => o.old = m.old
    BY <2>2
  <2>7. \A i \in 1..k : d.ids[i] = m.old <=> t[i].fqn = t[k + 1].fqn
    BY <2>1
  <2>8. \A e \in DOMAIN edges :
          a.edges[e] = IF Doubtful(assigned, t, k + 1, e) THEN Invalid ELSE edges[e]
    BY <2>4
  <2>9. Gives(u, t, assigned, d, k, a, m.old)
    BY <2>3, <2>5, <2>6, <2>7, <2>8 DEF Gives
  <2> QED
    BY <1>5, <2>9, RoundsWrite
<1>9. ASSUME ~\E m \in assigned : m.sym = k + 1, NEW e \in DOMAIN edges
      PROVE  d.edges[e] = IF Doubtful(assigned, t, k + 1, e) THEN Invalid ELSE edges[e]
  <2>1. \A o \in assigned : o.sym <= k + 1 <=> o.sym <= k
    BY <1>1, <1>7, <1>9
  <2>2. Doubtful(assigned, t, k + 1, e) <=> Doubtful(assigned, t, k, e)
    BY <2>1 DEF Doubtful
  <2> QED
    BY <1>6, <2>2
<1>10. ASSUME NEW id \in DOMAIN d.nodes, ~\E m \in assigned : m.sym = k + 1,
              Upserted(a, d, u, t, k + 1, id)
       PROVE  Rounds(u, t, assigned, a, k + 1)
  <2>1. PICK j \in 1..k : d.ids[j] = id /\ t[j].fqn = t[k + 1].fqn
    BY <1>5, <1>10, UpsertedIsHeld
  <2>2. \A i \in 1..k : d.ids[i] = id <=> t[i].fqn = t[k + 1].fqn
    BY <1>5, <2>1 DEF Rounds, Holding
  <2>3. Wrote(d, a, id, RowFor(d, u, t, k + 1)) /\ a.edges = d.edges
    BY <1>10 DEF Upserted
  <2>4. ASSUME id \in DOMAIN nodes PROVE \E m \in assigned : m.sym <= k + 1 /\ m.old = id
    <3>1. PICK m \in assigned : m.sym <= k /\ m.old = id
      BY <1>5, <2>1, <2>4 DEF Rounds
    <3>2. m.sym <= k + 1
      BY <1>1, <1>7, <3>1
    <3> QED
      BY <3>1, <3>2
  <2>5. \A m \in assigned : m.sym = k + 1 => m.old = id
    BY <1>10
  <2>6. \A e \in DOMAIN edges :
          a.edges[e] = IF Doubtful(assigned, t, k + 1, e) THEN Invalid ELSE edges[e]
    BY <1>9, <1>10, <2>3
  <2>7. Gives(u, t, assigned, d, k, a, id)
    BY <2>2, <2>3, <2>4, <2>5, <2>6 DEF Gives
  <2> QED
    BY <1>5, <2>7, RoundsWrite
<1>11. ASSUME ~\E m \in assigned : m.sym = k + 1, Inserted(a, d, u, t, k + 1)
       PROVE  Rounds(u, t, assigned, a, k + 1)
  <2>1. d.next \notin DOMAIN d.nodes
    BY <1>2
  <2>2. \A i \in 1..k : d.ids[i] \in DOMAIN d.nodes /\ d.nodes[d.ids[i]].fqn = t[i].fqn
    BY <1>5 DEF Rounds, Holding, Names
  <2>3. RowFor(d, u, t, k + 1).fqn = t[k + 1].fqn
    BY DEF RowFor, Row
  <2>4. \A i \in 1..k : d.ids[i] = d.next <=> t[i].fqn = t[k + 1].fqn
    BY <1>11, <2>1, <2>2, <2>3 DEF Inserted
  <2>5. Wrote(d, a, d.next, RowFor(d, u, t, k + 1)) /\ a.edges = d.edges
    BY <1>11 DEF Inserted
  <2>6. d.next \in DOMAIN nodes => \E o \in assigned : o.sym <= k + 1 /\ o.old = d.next
    BY <1>2, <2>1
  <2>7. \A o \in assigned : o.sym = k + 1 => o.old = d.next
    BY <1>11
  <2>8. \A e \in DOMAIN edges :
          a.edges[e] = IF Doubtful(assigned, t, k + 1, e) THEN Invalid ELSE edges[e]
    BY <1>9, <1>11, <2>5
  <2>9. Gives(u, t, assigned, d, k, a, d.next)
    BY <2>4, <2>5, <2>6, <2>7, <2>8 DEF Gives
  <2> QED
    BY <1>5, <2>9, RoundsWrite
<1>12. Rounds(u, t, assigned, a, k + 1)
  BY <1>3, <1>8, <1>10, <1>11
<1> QED
  BY <1>12 DEF a

LEMMA RoundsLoop ==
  ASSUME Tables, NEW u \in Uris, NEW t \in Texts[u], NEW assigned, Pairing(u, t, assigned),
         NEW cut \in 0..Len(t)
  PROVE  LET d == Applied(Prepared(u), u, t, assigned)[cut] IN
         Frame(u, t, Prepared(u), d, cut) /\ (d.ok => Rounds(u, t, assigned, d, cut))
<1> DEFINE f == Applied(Prepared(u), u, t, assigned)
           S == {k \in 0..Len(t) : /\ Frame(u, t, Prepared(u), f[k], k)
                                   /\ f[k].ok => Rounds(u, t, assigned, f[k], k)}
<1>1. Len(t) \in Nat /\ DOMAIN t = 1..Len(t) /\ Base(Prepared(u)) /\ \A m \in assigned : m.old \in RowsOf(u)
  BY TextIs, PreparedIsBase DEF Pairing
<1>2. f[0] = Prepared(u)
      /\ \A k \in 0..(Len(t) - 1) : f[k + 1] = ApplySymbol(f[k], u, t, k + 1, assigned)
  BY <1>1, AppliedIsALoop
<1> HIDE DEF f
<1>3. 0 \in S
  <2>1. Frame(u, t, Prepared(u), f[0], 0)
    BY <1>1, <1>2, FrameStart
  <2>2. DOMAIN Prepared(u).nodes = DOMAIN nodes /\ Prepared(u).edges = edges
    BY <1>1 DEF Base
  <2>3. \A m \in assigned : ~ (m.sym <= 0)
    BY <1>1 DEF Pairing
  <2>4. Rounds(u, t, assigned, f[0], 0)
    BY <1>2, <2>2, <2>3 DEF Rounds, Holding, Doubtful
  <2> QED
    BY <1>1, <2>1, <2>4
<1>4. ASSUME NEW k \in 0..(Len(t) - 1), k \in S PROVE k + 1 \in S
  <2>1. Frame(u, t, Prepared(u), f[k], k) /\ (f[k].ok => Rounds(u, t, assigned, f[k], k))
    BY <1>4
  <2>2. Frame(u, t, Prepared(u), f[k + 1], k + 1)
    BY <1>1, <1>2, <2>1, FrameStep
  <2>3. f[k + 1].ok => Rounds(u, t, assigned, f[k + 1], k + 1)
    BY <1>2, <2>1, RoundsStep
  <2> QED
    BY <1>1, <2>2, <2>3
<1>5. 0..Len(t) \subseteq S
  <2> HIDE DEF S
  <2> QED
    BY <1>1, <1>3, <1>4, StepInduction
<1> QED
  BY <1>5 DEF f

-----------------------------------------------------------------------------
(***************************************************************************)
(* Databases whose tables are well formed, and Pass 5.                     *)
(***************************************************************************)
Sound(d) ==
  /\ d.next \in Nat \ {0}
  /\ d.nodes \in [DOMAIN d.nodes -> RowsWithLines(Nat)]
  /\ DOMAIN d.nodes \subseteq 1..(d.next - 1)
  /\ Unique(d.nodes)
  /\ \A id \in DOMAIN d.nodes :
       /\ Head(d.nodes[id].fqn) = d.nodes[id].uri
       /\ d.nodes[id].orphan = ~d.nodes[id].valid
       /\ d.nodes[id].container \in DOMAIN d.nodes \cup {Nothing}
  /\ d.edges = [e \in DOMAIN d.edges |-> d.edges[e]]
  /\ \A e \in DOMAIN d.edges : {e[1], e[2]} \subseteq DOMAIN d.nodes /\ d.edges[e].valid \in BOOLEAN
  /\ d.callees \subseteq DOMAIN d.nodes

LEMMA CommitSound ==
  ASSUME NEW d, Sound(d), Commit(d), synced' = [u \in Uris |-> synced'[u]],
         \A u \in Uris : synced'[u] \in Texts[u] \cup {Nothing}
  PROVE  Tables'
<1>1. /\ nodes' = d.nodes /\ edges' = d.edges /\ callees' = d.callees /\ nextId' = d.next
      /\ d.next <= MaxId + 1
  BY DEF Commit
<1> QED
  BY <1>1 DEF Sound, Tables

\* the keys of the contains edges that Pass 5 writes
Keys(t, ids) == {<<ids[Parent(t, i)], ids[i], "contains">> : i \in {j \in DOMAIN t : Parent(t, j) # 0}}

LEMMA KeysAre ==
  ASSUME NEW u \in Uris, NEW t \in Texts[u], NEW ids, NEW e \in Keys(t, ids)
  PROVE  /\ e[3] = "contains"
         /\ \E i \in 1..Len(t) : /\ Parent(t, i) \in 1..Len(t)
                                 /\ e = <<ids[Parent(t, i)], ids[i], "contains">>
                                 /\ e[1] = ids[Parent(t, i)] /\ e[2] = ids[i]
<1>1. DOMAIN t = 1..Len(t) /\ Len(t) \in Nat
  BY TextIs
<1>2. PICK i \in DOMAIN t : Parent(t, i) # 0 /\ e = <<ids[Parent(t, i)], ids[i], "contains">>
  BY DEF Keys
<1>3. i \in 1..Len(t) /\ Parent(t, i) \in 0..(i - 1)
  BY <1>1, ParentIs
<1>4. Parent(t, i) \in 1..Len(t)
  BY <1>1, <1>2, <1>3
<1> QED
  BY <1>2, <1>3, <1>4

LEMMA ContainsEdgesIs ==
  ASSUME NEW d, IsDb(d), NEW t
  PROVE  LET w == ContainsEdges(d, t) IN
         /\ IsDb(w) /\ w.nodes = d.nodes /\ w.callees = d.callees /\ w.next = d.next /\ w.ids = d.ids
         /\ w.ok = d.ok
         /\ w.edges = [e \in Keys(t, d.ids) \cup DOMAIN d.edges |->
                         IF e \in Keys(t, d.ids) THEN Edge ELSE d.edges[e]]
<1>1. ContainsEdges(d, t) = upsert_edges(d, Keys(t, d.ids))
  BY DEF ContainsEdges, Keys
<1> QED
  BY <1>1, UpsertEdgesIs

LEMMA ContainsSound ==
  ASSUME NEW u \in Uris, NEW t \in Texts[u], NEW d, IsDb(d), Sound(d),
         d.ids \in Seq(DOMAIN d.nodes), Len(d.ids) = Len(t)
  PROVE  Sound(ContainsEdges(d, t))
<1> DEFINE w == ContainsEdges(d, t)
           keys == Keys(t, d.ids)
<1>1. /\ w.nodes = d.nodes /\ w.callees = d.callees /\ w.next = d.next
      /\ w.edges = [e \in keys \cup DOMAIN d.edges |-> IF e \in keys THEN Edge ELSE d.edges[e]]
  BY ContainsEdgesIs
<1>2. Len(t) \in Nat /\ DOMAIN d.ids = 1..Len(t) /\ \A i \in 1..Len(t) : d.ids[i] \in DOMAIN d.nodes
  BY TextIs
<1>3. ASSUME NEW e \in keys
      PROVE  {e[1], e[2]} \subseteq DOMAIN d.nodes /\ Edge.valid \in BOOLEAN
  <2>1. PICK i \in 1..Len(t) : Parent(t, i) \in 1..Len(t) /\ e[1] = d.ids[Parent(t, i)] /\ e[2] = d.ids[i]
    BY KeysAre
  <2> QED
    BY <1>2, <2>1 DEF Edge
<1> HIDE DEF w, keys
<1>4. w.edges = [e \in DOMAIN w.edges |-> w.edges[e]]
      /\ \A e \in DOMAIN w.edges : {e[1], e[2]} \subseteq DOMAIN d.nodes /\ w.edges[e].valid \in BOOLEAN
  BY <1>1, <1>3 DEF Sound
<1>5. w.nodes = d.nodes /\ w.callees = d.callees /\ w.next = d.next
  BY <1>1
<1>6. Sound(w)
  BY <1>4, <1>5 DEF Sound
<1> QED
  BY <1>6 DEF w

-----------------------------------------------------------------------------
(***************************************************************************)
(* The tables stay well formed.                                            *)
(***************************************************************************)
LEMMA EdgesOfFrame ==
  ASSUME Tables, NEW d, d.edges = [e \in DOMAIN edges |-> d.edges[e]],
         \A e \in DOMAIN edges : d.edges[e] \in {edges[e], Invalid}
  PROVE  /\ DOMAIN d.edges = DOMAIN edges /\ d.edges = [e \in DOMAIN d.edges |-> d.edges[e]]
         /\ \A e \in DOMAIN d.edges : {e[1], e[2]} \subseteq DOMAIN nodes /\ d.edges[e].valid \in BOOLEAN
<1>1. Invalid.valid \in BOOLEAN
  BY DEF Invalid
<1>2. \A e \in DOMAIN edges : {e[1], e[2]} \subseteq DOMAIN nodes /\ edges[e].valid \in BOOLEAN
  BY DEF Tables
<1> QED
  BY <1>1, <1>2

\* A row that holds a symbol is in order.
LEMMA HoldsSymbolIs ==
  ASSUME NEW u \in Uris, NEW t \in Texts[u], NEW k \in 0..Len(t),
         NEW d, DOMAIN d.nodes \subseteq Nat, NEW x, HoldsSymbol(d, u, t, k, x)
  PROVE  LET r == d.nodes[x] IN
         /\ r \in RowsWithLines(Nat) /\ r.uri = u /\ Head(r.fqn) = r.uri /\ r.valid = TRUE
         /\ r.orphan = ~r.valid /\ r.container \in DOMAIN d.nodes \cup {Nothing}
<1>1. PICK i \in 1..k : \E c \in DOMAIN d.nodes \cup {Nothing} : d.nodes[x] = Row(u, t[i], c)
  BY DEF HoldsSymbol
<1>2. PICK c \in DOMAIN d.nodes \cup {Nothing} : d.nodes[x] = Row(u, t[i], c)
  BY <1>1
<1>3. t[i] \in Symbol /\ Head(t[i].fqn) = u
  <2>1. i \in 1..Len(t)
    BY TextIs
  <2> QED
    BY <2>1, TextIs
<1>4. c \in Nat \cup {Nothing}
  BY <1>2
<1>5. ASSUME NEW s \in Symbol, Head(s.fqn) = u
      PROVE  LET r == Row(u, s, c) IN
             /\ r \in RowsWithLines(Nat) /\ r.uri = u /\ Head(r.fqn) = r.uri /\ r.valid = TRUE
             /\ r.orphan = ~r.valid /\ r.container \in DOMAIN d.nodes \cup {Nothing}
  <2>1. Row(u, s, c) \in RowsWithLines(Nat)
    BY <1>4, RowIs
  <2> QED
    BY <1>5, <2>1 DEF Row
<1> QED
  BY <1>2, <1>3, <1>5

LEMMA SoundIndex ==
  ASSUME Tables, NEW u \in Uris, NEW t \in Texts[u], NEW cut \in 1..Len(t),
         NEW d, Frame(u, t, Database, d, cut), d.ok
  PROVE  Sound(d)
<1>1. /\ IsDb(d) /\ d.next \in Nat /\ nextId <= d.next /\ d.callees \subseteq callees
      /\ d.nodes \in [DOMAIN d.nodes -> RowsWithLines(Int)]
      /\ DOMAIN nodes \subseteq DOMAIN d.nodes /\ DOMAIN d.nodes \subseteq 1..(d.next - 1)
      /\ d.edges = [e \in DOMAIN edges |-> d.edges[e]]
      /\ \A e \in DOMAIN edges : d.edges[e] \in {edges[e], Invalid}
  BY DEF Frame
<1>2. Unique(d.nodes)
  BY DEF Frame
<1>3. ASSUME NEW x \in DOMAIN d.nodes
      PROVE  /\ d.nodes[x] \in RowsWithLines(Nat) /\ Head(d.nodes[x].fqn) = d.nodes[x].uri
             /\ d.nodes[x].orphan = ~d.nodes[x].valid
             /\ d.nodes[x].container \in DOMAIN d.nodes \cup {Nothing}
  <2>1. CASE x \in DOMAIN nodes /\ d.nodes[x] = Database.nodes[x]
    <3>1. d.nodes[x] = nodes[x]
      BY <2>1, DatabaseIs
    <3> QED
      BY <1>1, <2>1, <3>1 DEF Tables
  <2>2. CASE HoldsSymbol(d, u, t, cut, x)
    <3>1. cut \in 0..Len(t) /\ DOMAIN d.nodes \subseteq Nat
      BY <1>1, TextIs
    <3>2. LET r == d.nodes[x] IN
          /\ r \in RowsWithLines(Nat) /\ r.uri = u /\ Head(r.fqn) = r.uri /\ r.valid = TRUE
          /\ r.orphan = ~r.valid /\ r.container \in DOMAIN d.nodes \cup {Nothing}
      BY <2>2, <3>1, HoldsSymbolIs
    <3> QED
      BY <3>2
  <2> QED
    BY <2>1, <2>2 DEF Frame
<1>4. d.next \in Nat \ {0} /\ d.callees \subseteq DOMAIN d.nodes
  BY <1>1 DEF Tables
<1>5. d.nodes \in [DOMAIN d.nodes -> RowsWithLines(Nat)]
  BY <1>1, <1>3
<1>6. /\ d.edges = [e \in DOMAIN d.edges |-> d.edges[e]]
      /\ \A e \in DOMAIN d.edges : {e[1], e[2]} \subseteq DOMAIN d.nodes /\ d.edges[e].valid \in BOOLEAN
  <2>1. /\ d.edges = [e \in DOMAIN edges |-> d.edges[e]]
        /\ \A e \in DOMAIN edges : d.edges[e] \in {edges[e], Invalid}
    BY <1>1
  <2>2. /\ d.edges = [e \in DOMAIN d.edges |-> d.edges[e]]
        /\ \A e \in DOMAIN d.edges : {e[1], e[2]} \subseteq DOMAIN nodes /\ d.edges[e].valid \in BOOLEAN
    BY <2>1, EdgesOfFrame
  <2> QED
    BY <1>1, <2>2
<1> QED
  BY <1>1, <1>2, <1>3, <1>4, <1>5, <1>6 DEF Sound

\* Index: what is committed is Pass 3 on no pairing, with or without Pass 5.
LEMMA IndexIs ==
  ASSUME Tables, NEW u \in Uris, NEW t \in Texts[u], NEW cut \in 1..Len(t), Index(u, t, cut)
  PROVE  LET d == Applied(Database, u, t, {})[cut]
             done == IF cut < Len(t) THEN d ELSE ContainsEdges(d, t) IN
         /\ RowsOf(u) = {} \/ Reindexing
         /\ Frame(u, t, Database, d, cut) /\ d.ok
         /\ Sound(done) /\ Commit(done) /\ synced' = [synced EXCEPT ![u] = Nothing]
         /\ done.nodes = d.nodes
<1> DEFINE d == Applied(Database, u, t, {})[cut]
           done == IF cut < Len(t) THEN d ELSE ContainsEdges(d, t)
<1>1. cut \in 0..Len(t) /\ Len(t) \in Nat
  BY TextIs
<1>2. Frame(u, t, Database, d, cut)
  BY <1>1, DatabaseIsBase, FrameLoop
<1>3. /\ RowsOf(u) = {} \/ Reindexing
      /\ done.ok /\ Commit(done) /\ synced' = [synced EXCEPT ![u] = Nothing]
  BY DEF Index
<1> HIDE DEF d
<1>4. IsDb(d) /\ d.ids \in Seq(DOMAIN d.nodes) /\ Len(d.ids) = cut
  BY <1>2 DEF Frame
<1>5. ContainsEdges(d, t).ok = d.ok /\ ContainsEdges(d, t).nodes = d.nodes
  BY <1>4, ContainsEdgesIs
<1>6. d.ok /\ done.nodes = d.nodes
  BY <1>3, <1>5
<1>7. Sound(d)
  BY <1>2, <1>6, SoundIndex
<1>8. Sound(done)
  <2>1. CASE cut < Len(t)
    BY <1>7, <2>1
  <2>2. CASE ~ (cut < Len(t))
    <3>1. Len(d.ids) = Len(t)
      BY <1>1, <1>4, <2>2
    <3>2. Sound(ContainsEdges(d, t))
      BY <1>4, <1>7, <3>1, ContainsSound
    <3> QED
      BY <2>2, <3>2
  <2> QED
    BY <2>1, <2>2
<1> HIDE DEF done
<1>9. done = IF cut < Len(t) THEN d ELSE ContainsEdges(d, t)
  BY DEF done
<1> QED
  BY <1>2, <1>3, <1>6, <1>8, <1>9 DEF d

-----------------------------------------------------------------------------
(***************************************************************************)
(* Pass 4: the claimed rows stay, the unclaimed ones are orphans or gone,  *)
(* and other files lose at most links to the gone ones.                    *)
(***************************************************************************)
Unclaimed(u, assigned) == RowsOf(u) \ {m.old : m \in assigned}
GoneOf(u, assigned) == Stricken(Unclaimed(u, assigned))

\* the row of an unclaimed symbol after its first strike
OrphanOf(old, r) ==
  /\ r \in RowsWithLines(Nat) /\ r.valid = FALSE /\ r.orphan = TRUE
  /\ r.uri = old.uri /\ r.fqn = old.fqn /\ r.kind = old.kind /\ r.line = old.line /\ r.body = old.body

StruckRows(u, t, assigned, k, ids, ns) ==
  /\ DOMAIN nodes \ DOMAIN ns = GoneOf(u, assigned)
  /\ Holding(u, t, k, ids, ns)
  /\ \A x \in DOMAIN nodes \ RowsOf(u) :
       x \in DOMAIN ns /\ ns[x] = Unlinked(nodes[x], GoneOf(u, assigned))
  /\ \A x \in Unclaimed(u, assigned) \ GoneOf(u, assigned) :
       /\ x \in DOMAIN ns /\ OrphanOf(nodes[x], ns[x])
       /\ ns[x].container \in (DOMAIN ns \cap DOMAIN nodes) \cup {Nothing}
  /\ \A x \in DOMAIN ns :
       \/ \E i \in 1..k : x = ids[i]
       \/ x \in DOMAIN nodes \ RowsOf(u)
       \/ x \in Unclaimed(u, assigned) \ GoneOf(u, assigned)

LEMMA StrikeLeaves ==
  ASSUME Tables, NEW u \in Uris, NEW t \in Texts[u], NEW assigned, Pairing(u, t, assigned),
         NEW d, Frame(u, t, Prepared(u), d, Len(t)), Rounds(u, t, assigned, d, Len(t))
  PROVE  LET s == StrikeUnclaimed(d, Unclaimed(u, assigned)) IN
         /\ StruckRows(u, t, assigned, Len(t), d.ids, s.nodes)
         /\ \A i \in 1..Len(t) : d.ids[i] \in DOMAIN nodes => \E m \in assigned : m.old = d.ids[i]
<1> DEFINE s == StrikeUnclaimed(d, Unclaimed(u, assigned))
           gone == GoneOf(u, assigned)
           un == Unclaimed(u, assigned)
           ids == d.ids
<1>1. /\ Len(t) \in Nat /\ DOMAIN t = 1..Len(t)
  BY TextIs
<1>2. /\ IsDb(d) /\ DOMAIN nodes \subseteq DOMAIN d.nodes /\ DOMAIN d.nodes \subseteq Nat
      /\ ids \in Seq(DOMAIN d.nodes) /\ Len(ids) = Len(t)
      /\ \A i \in 1..Len(t) : ids[i] \in DOMAIN d.nodes
  BY DEF Frame
<1>3. /\ DOMAIN s.nodes = DOMAIN d.nodes \ gone
      /\ \A x \in DOMAIN d.nodes \ gone : s.nodes[x] =
              IF x \in un THEN Struck(Unlinked(d.nodes[x], gone), x) ELSE Unlinked(d.nodes[x], gone)
  <2>1. IsDb(d) /\ gone = Stricken(un)
    BY <1>2 DEF GoneOf
  <2>2. StruckFrom(d, un, gone, s)
    BY <2>1, StrikeUnclaimedIs
  <2> HIDE DEF un, gone, s
  <2> QED
    BY <2>2 DEF StruckFrom
<1>4. un \subseteq RowsOf(u) /\ gone \subseteq un /\ RowsOf(u) \subseteq DOMAIN nodes
  BY DEF Unclaimed, GoneOf, Stricken, RowsOf
<1>5. ASSUME NEW i \in 1..Len(t), ids[i] \in DOMAIN nodes
      PROVE  \E m \in assigned : m.old = ids[i]
  BY <1>5 DEF Rounds
<1>6. ASSUME NEW i \in 1..Len(t)
      PROVE  ids[i] \notin un /\ (ids[i] \in DOMAIN nodes => ids[i] \in RowsOf(u))
  <2>1. CASE ids[i] \in DOMAIN nodes
    <3>1. PICK m \in assigned : m.old = ids[i]
      BY <1>5, <2>1
    <3> QED
      BY <3>1 DEF Unclaimed, Pairing
  <2>2. CASE ids[i] \notin DOMAIN nodes
    BY <1>4, <2>2
  <2> QED
    BY <2>1, <2>2
<1>7. ASSUME NEW x \in DOMAIN d.nodes, \A i \in 1..Len(t) : ids[i] # x
      PROVE  /\ x \in DOMAIN nodes
             /\ d.nodes[x] = IF x \in RowsOf(u) THEN [nodes[x] EXCEPT !.line = ParkedLine(x)] ELSE nodes[x]
  <2>1. x \in DOMAIN nodes /\ d.nodes[x] = Prepared(u).nodes[x]
    BY <1>7 DEF Rounds
  <2>2. Prepared(u).nodes = [y \in DOMAIN nodes |->
          IF y \in RowsOf(u) THEN [nodes[y] EXCEPT !.line = ParkedLine(y)] ELSE nodes[y]]
    BY PreparedIs
  <2> QED
    BY <2>1, <2>2
<1>8. DOMAIN s.nodes = DOMAIN d.nodes \ gone
  BY <1>3
<1> HIDE DEF s, gone, un, ids
<1>9. Holding(u, t, Len(t), ids, s.nodes)
  <2>1. /\ \A i \in 1..Len(t) : ids[i] \in DOMAIN d.nodes /\ Names(d.nodes[ids[i]], u, t[i])
        /\ \A i \in 1..Len(t) : Newest(t, Len(t), i) => d.nodes[ids[i]] = Row(u, t[i], Link(t, ids, i))
        /\ \A i, j \in 1..Len(t) : ids[i] = ids[j] <=> t[i].fqn = t[j].fqn
    BY DEF Rounds, Holding, ids
  <2>2. ASSUME NEW i \in 1..Len(t)
        PROVE  ids[i] \in DOMAIN s.nodes /\ s.nodes[ids[i]] = Unlinked(d.nodes[ids[i]], gone)
    <3>1. ids[i] \in DOMAIN d.nodes \ gone /\ ids[i] \notin un
      BY <1>2, <1>4, <1>6
    <3> QED
      BY <1>3, <1>8, <3>1
  <2>3. ASSUME NEW i \in 1..Len(t)
        PROVE  Names(s.nodes[ids[i]], u, t[i])
    <3>1. d.nodes[ids[i]] \in RowsWithLines(Int)
      BY <1>2 DEF Frame
    <3>2. \A r \in RowsWithLines(Int) : \A w :
            Names(r, u, w) => Names(Unlinked(r, gone), u, w)
      BY DEF Names, Unlinked, RowsWithLines
    <3> QED
      BY <2>1, <2>2, <3>1, <3>2
  <2>4. ASSUME NEW i \in 1..Len(t), Newest(t, Len(t), i)
        PROVE  s.nodes[ids[i]] = Row(u, t[i], Link(t, ids, i))
    <3>1. Link(t, ids, i) \notin gone
      <4>1. Parent(t, i) # 0 => Parent(t, i) \in 1..Len(t)
        <5>1. Parent(t, i) \in 0..(i - 1)
          BY ParentIs
        <5> QED
          BY <1>1, <5>1
      <4>2. Nothing \notin gone
        BY <1>2, <1>4, TextsAssumption
      <4> QED
        BY <1>4, <1>6, <4>1, <4>2 DEF Link
    <3>2. Unlinked(Row(u, t[i], Link(t, ids, i)), gone) = Row(u, t[i], Link(t, ids, i))
      BY <3>1 DEF Unlinked, Row
    <3> QED
      BY <2>1, <2>2, <2>4, <3>2
  <2> QED
    BY <2>1, <2>2, <2>3, <2>4 DEF Holding
<1>10. ASSUME NEW x \in DOMAIN nodes \ RowsOf(u)
       PROVE  x \in DOMAIN s.nodes /\ s.nodes[x] = Unlinked(nodes[x], gone)
  <2>1. x \in DOMAIN d.nodes \ gone /\ x \notin un
    BY <1>2, <1>4
  <2>2. \A i \in 1..Len(t) : ids[i] # x
    BY <1>6
  <2>3. d.nodes[x] = nodes[x]
    BY <1>7, <2>1, <2>2
  <2> QED
    BY <1>3, <1>8, <2>1, <2>3
<1>11. DOMAIN nodes \ DOMAIN s.nodes = gone
  BY <1>2, <1>4, <1>8
<1>12. ASSUME NEW x \in un \ gone
       PROVE  /\ x \in DOMAIN s.nodes /\ OrphanOf(nodes[x], s.nodes[x])
              /\ s.nodes[x].container \in (DOMAIN s.nodes \cap DOMAIN nodes) \cup {Nothing}
  <2>1. x \in DOMAIN d.nodes \ gone /\ x \in RowsOf(u) /\ x \in DOMAIN nodes
    BY <1>2, <1>4
  <2>2. \A i \in 1..Len(t) : ids[i] # x
    BY <1>6
  <2>3. d.nodes[x] = [nodes[x] EXCEPT !.line = ParkedLine(x)]
    BY <1>7, <2>1, <2>2
  <2>4. s.nodes[x] = Struck(Unlinked([nodes[x] EXCEPT !.line = ParkedLine(x)], gone), x)
    BY <1>3, <2>1, <2>3
  <2>5. nodes[x] \in RowsWithLines(Nat) /\ nodes[x].container \in DOMAIN nodes \cup {Nothing}
    BY <2>1 DEF Tables
  <2>6. OrphanOf(nodes[x], s.nodes[x])
        /\ s.nodes[x].container = IF nodes[x].container \in gone THEN Nothing ELSE nodes[x].container
    BY <2>4, <2>5 DEF Struck, Unlinked, OrphanOf, RowsWithLines
  <2> QED
    BY <1>8, <1>11, <2>1, <2>5, <2>6
<1>13. ASSUME NEW x \in DOMAIN s.nodes
       PROVE  \/ \E i \in 1..Len(t) : x = ids[i]
              \/ x \in DOMAIN nodes \ RowsOf(u)
              \/ x \in un \ gone
  <2> SUFFICES ASSUME \A i \in 1..Len(t) : ids[i] # x, x \in RowsOf(u)
               PROVE  x \in un \ gone
    <3>1. x \in DOMAIN d.nodes
      BY <1>8
    <3> QED
      BY <1>7, <3>1
  <2>1. ~\E m \in assigned : m.old = x
    <3> SUFFICES ASSUME NEW m \in assigned, m.old = x PROVE FALSE
      OBVIOUS
    <3>1. m.sym \in 1..Len(t) /\ m.sym <= Len(t)
      BY <1>1 DEF Pairing
    <3>2. ids[m.sym] = m.old
      BY <3>1 DEF Rounds, ids
    <3> QED
      BY <3>1, <3>2
  <2> QED
    BY <1>8, <2>1 DEF Unclaimed, un
<1>14. StruckRows(u, t, assigned, Len(t), ids, s.nodes)
  BY <1>9, <1>10, <1>11, <1>12, <1>13 DEF StruckRows, gone, un
<1> QED
  BY <1>5, <1>14 DEF s, ids

\* Whatever rows Pass 4 leaves are in order.
LEMMA StruckRowsAreInOrder ==
  ASSUME Tables, NEW u \in Uris, NEW t \in Texts[u], NEW assigned, NEW k \in 0..Len(t), NEW ids, NEW ns,
         DOMAIN ns \subseteq Nat, StruckRows(u, t, assigned, k, ids, ns), NEW x \in DOMAIN ns
  PROVE  /\ ns[x] \in RowsWithLines(Nat)
         /\ Head(ns[x].fqn) = ns[x].uri /\ ns[x].orphan = ~ns[x].valid
         /\ ns[x].container \in DOMAIN ns \cup {Nothing}
<1>1. /\ Len(t) \in Nat /\ DOMAIN t = 1..Len(t)
      /\ \A i \in 1..Len(t) : t[i] \in Symbol /\ Head(t[i].fqn) = u
  BY TextIs
<1>2. CASE \E i \in 1..k : x = ids[i]
  <2>1. PICK i \in 1..k : x = ids[i] /\ ns[x] = Row(u, t[i], Link(t, ids, i))
    <3>1. k \in Nat /\ Holding(u, t, k, ids, ns)
      BY <1>1 DEF StruckRows
    <3> QED
      BY <1>2, <3>1, HeldRow
  <2>2. i \in 1..Len(t) /\ t[i] \in Symbol /\ Head(t[i].fqn) = u /\ k \in Int
    BY <1>1
  <2>3. Link(t, ids, i) \in DOMAIN ns \cup {Nothing}
    <3>1. Parent(t, i) \in 0..(i - 1)
      BY <2>2, ParentIs
    <3>2. Parent(t, i) # 0 => Parent(t, i) \in 1..k
      BY <2>2, <3>1
    <3> QED
      BY <3>2 DEF Link, StruckRows, Holding
  <2>4. ns[x] = Row(u, t[i], Link(t, ids, i))
    BY <2>1
  <2> DEFINE c == Link(t, ids, i)
             w == t[i]
  <2>5. w \in Symbol /\ Head(w.fqn) = u /\ c \in DOMAIN ns \cup {Nothing} /\ ns[x] = Row(u, w, c)
    BY <2>2, <2>3, <2>4
  <2> HIDE DEF c, w
  <2>6. c \in Nat \cup {Nothing}
    BY <2>5
  <2>7. Row(u, w, c) \in RowsWithLines(Nat)
    BY <2>5, <2>6, RowIs
  <2>8. /\ Row(u, w, c).uri = u /\ Row(u, w, c).fqn = w.fqn
        /\ Row(u, w, c).container = c /\ Row(u, w, c).valid = TRUE /\ Row(u, w, c).orphan = FALSE
    BY DEF Row
  <2> QED
    BY <2>5, <2>7, <2>8
<1>3. CASE x \in DOMAIN nodes \ RowsOf(u)
  <2>1. ns[x] = Unlinked(nodes[x], GoneOf(u, assigned)) /\ DOMAIN nodes \ DOMAIN ns = GoneOf(u, assigned)
    BY <1>3 DEF StruckRows
  <2>2. /\ nodes[x] \in RowsWithLines(Nat) /\ nodes[x].container \in DOMAIN nodes \cup {Nothing}
        /\ Head(nodes[x].fqn) = nodes[x].uri /\ nodes[x].orphan = ~nodes[x].valid
    BY <1>3 DEF Tables
  <2>3. ns[x].container =
          IF nodes[x].container \in GoneOf(u, assigned) THEN Nothing ELSE nodes[x].container
    BY <2>1, <2>2 DEF Unlinked, RowsWithLines
  <2>4. ns[x].container \in DOMAIN ns \cup {Nothing}
    BY <2>1, <2>2, <2>3
  <2>5. /\ ns[x] \in RowsWithLines(Nat) /\ ns[x].uri = nodes[x].uri /\ ns[x].fqn = nodes[x].fqn
        /\ ns[x].valid = nodes[x].valid /\ ns[x].orphan = nodes[x].orphan
    BY <2>1, <2>2 DEF Unlinked, RowsWithLines
  <2> QED
    BY <2>2, <2>4, <2>5 DEF RowsWithLines
<1>4. CASE x \in Unclaimed(u, assigned) \ GoneOf(u, assigned)
  <2>1. OrphanOf(nodes[x], ns[x]) /\ ns[x].container \in DOMAIN ns \cup {Nothing} /\ x \in DOMAIN nodes
    BY <1>4 DEF StruckRows, Unclaimed, RowsOf
  <2>2. nodes[x] \in RowsWithLines(Nat) /\ Head(nodes[x].fqn) = nodes[x].uri
    BY <2>1 DEF Tables
  <2> QED
    BY <2>1, <2>2 DEF OrphanOf, RowsWithLines
<1> QED
  BY <1>2, <1>3, <1>4 DEF StruckRows

-----------------------------------------------------------------------------
(***************************************************************************)
(* What an operation on file u leaves: rows ns and edges es, the first k   *)
(* symbols of t on the rows ids, the contains edges `keys` switched on.     *)
(***************************************************************************)
EdgesAfter(u, t, assigned, k, keys, es) ==
  /\ es = [e \in DOMAIN es |-> es[e]]
  /\ DOMAIN es = keys \cup {e \in DOMAIN edges : {e[1], e[2]} \cap GoneOf(u, assigned) = {}}
  /\ \A e \in keys : es[e] = Edge
  /\ \A e \in DOMAIN es \ keys : es[e] = IF Doubtful(assigned, t, k, e) THEN Invalid ELSE edges[e]

Outcome(u, t, assigned, k, ids, keys, ns, es) ==
  /\ Pairing(u, t, assigned)
  /\ StruckRows(u, t, assigned, k, ids, ns)
  /\ EdgesAfter(u, t, assigned, k, keys, es)
  /\ \A m \in assigned : m.sym \in 1..k /\ ids[m.sym] = m.old
  /\ \A i \in 1..k : ids[i] \in DOMAIN nodes => \E m \in assigned : m.old = ids[i]
  /\ keys = {} \/ (keys = Keys(t, ids) /\ k = Len(t))

LEMMA SoundReconcile ==
  ASSUME Tables, NEW u \in Uris, NEW t \in Texts[u], NEW assigned, Pairing(u, t, assigned),
         reconcile_file_symbols_tx(u, t, assigned).ok
  PROVE  LET r == reconcile_file_symbols_tx(u, t, assigned) IN
         /\ Sound(r)
         /\ Outcome(u, t, assigned, Len(t), r.ids, Keys(t, r.ids), r.nodes, r.edges)
<1> DEFINE d == Applied(Prepared(u), u, t, assigned)[Len(t)]
           s == StrikeUnclaimed(d, Unclaimed(u, assigned))
           r == ContainsEdges(s, t)
           gone == GoneOf(u, assigned)
           keys == Keys(t, s.ids)
<1>1. Len(t) \in Nat /\ DOMAIN t = 1..Len(t)
  BY TextIs
<1>0. Frame(u, t, Prepared(u), d, Len(t)) /\ (d.ok => Rounds(u, t, assigned, d, Len(t)))
  <2>1. Len(t) \in 0..Len(t)
    BY <1>1
  <2> QED
    BY <2>1, RoundsLoop
<1>3. r = reconcile_file_symbols_tx(u, t, assigned)
  BY DEF reconcile_file_symbols_tx, Unclaimed
<1> HIDE DEF d
<1>4. /\ IsDb(d) /\ d.next \in Nat /\ nextId <= d.next /\ d.callees \subseteq callees
      /\ d.ids \in Seq(DOMAIN d.nodes) /\ Len(d.ids) = Len(t) /\ DOMAIN d.ids = 1..Len(t)
      /\ DOMAIN nodes \subseteq DOMAIN d.nodes /\ DOMAIN d.nodes \subseteq 1..(d.next - 1)
      /\ d.edges = [e \in DOMAIN edges |-> d.edges[e]]
      /\ \A e \in DOMAIN edges : d.edges[e] \in {edges[e], Invalid}
  BY <1>0, <1>1 DEF Frame
<1>5. StruckFrom(d, Unclaimed(u, assigned), gone, s)
  BY <1>4, StrikeUnclaimedIs DEF GoneOf
<1>2. Frame(u, t, Prepared(u), d, Len(t)) /\ Rounds(u, t, assigned, d, Len(t))
  <2>1. IsDb(s) /\ (s.ok => d.ok)
    BY <1>5 DEF StruckFrom
  <2>2. r.ok = s.ok
    <3> HIDE DEF s
    <3> QED
      BY <2>1, ContainsEdgesIs
  <2> QED
    BY <1>0, <1>3, <2>1, <2>2
<1>6. /\ StruckRows(u, t, assigned, Len(t), d.ids, s.nodes)
      /\ \A i \in 1..Len(t) : d.ids[i] \in DOMAIN nodes => \E m \in assigned : m.old = d.ids[i]
  BY <1>2, StrikeLeaves
<1> HIDE DEF s, gone
<1>7. /\ IsDb(s) /\ s.next = d.next /\ s.ids = d.ids /\ s.callees = d.callees \ gone
      /\ DOMAIN s.nodes = DOMAIN d.nodes \ gone /\ s.nodes = [x \in DOMAIN s.nodes |-> s.nodes[x]]
      /\ DOMAIN s.edges = {e \in DOMAIN d.edges : {e[1], e[2]} \cap gone = {}}
      /\ s.edges = [e \in DOMAIN s.edges |-> d.edges[e]]
      /\ s.ok => Unique(s.nodes)
  BY <1>5 DEF StruckFrom
<1>8. /\ IsDb(r) /\ r.nodes = s.nodes /\ r.callees = s.callees /\ r.next = s.next /\ r.ids = s.ids
      /\ r.ok = s.ok
      /\ r.edges = [e \in keys \cup DOMAIN s.edges |-> IF e \in keys THEN Edge ELSE s.edges[e]]
  <2>1. IsDb(s)
    BY <1>7
  <2> QED
    BY <2>1, ContainsEdgesIs
<1>9. Unique(s.nodes)
  BY <1>3, <1>7, <1>8
<1>10. DOMAIN nodes \ DOMAIN s.nodes = gone /\ gone \subseteq DOMAIN nodes
  BY <1>6 DEF StruckRows, gone
<1>11. \A e \in DOMAIN edges : {e[1], e[2]} \subseteq DOMAIN nodes /\ edges[e].valid \in BOOLEAN
  BY DEF Tables
<1>12. Sound(s)
  <2>1. DOMAIN s.nodes \subseteq 1..(s.next - 1) /\ s.next \in Nat \ {0} /\ DOMAIN s.nodes \subseteq Nat
    BY <1>4, <1>7 DEF Tables
  <2>2. \A x \in DOMAIN s.nodes :
          /\ s.nodes[x] \in RowsWithLines(Nat)
          /\ Head(s.nodes[x].fqn) = s.nodes[x].uri /\ s.nodes[x].orphan = ~s.nodes[x].valid
          /\ s.nodes[x].container \in DOMAIN s.nodes \cup {Nothing}
    <3>1. Len(t) \in 0..Len(t)
      BY <1>1
    <3> QED
      BY <1>6, <2>1, <3>1, StruckRowsAreInOrder
  <2>3. s.nodes \in [DOMAIN s.nodes -> RowsWithLines(Nat)]
    BY <1>7, <2>2
  <2>4. ASSUME NEW e \in DOMAIN s.edges
        PROVE  {e[1], e[2]} \subseteq DOMAIN s.nodes /\ s.edges[e].valid \in BOOLEAN
    <3>1. e \in DOMAIN edges /\ {e[1], e[2]} \cap gone = {} /\ s.edges[e] \in {edges[e], Invalid}
      BY <1>4, <1>7
    <3>2. Invalid.valid \in BOOLEAN
      BY DEF Invalid
    <3> QED
      BY <1>10, <1>11, <3>1, <3>2
  <2>5. s.callees \subseteq DOMAIN s.nodes
    <3>1. s.callees \subseteq callees \ gone /\ callees \subseteq DOMAIN nodes
      BY <1>4, <1>7 DEF Tables
    <3> QED
      BY <1>10, <3>1
  <2>6. s.edges = [e \in DOMAIN s.edges |-> s.edges[e]]
    BY <1>7
  <2> QED
    BY <1>9, <2>1, <2>2, <2>3, <2>4, <2>5, <2>6 DEF Sound
<1>13. s.ids \in Seq(DOMAIN s.nodes) /\ Len(s.ids) = Len(t)
  <2>1. \A i \in 1..Len(t) : d.ids[i] \in DOMAIN s.nodes
    BY <1>6 DEF StruckRows, Holding
  <2>2. d.ids \in [1..Len(t) -> DOMAIN d.nodes]
    BY <1>4, LenProperties
  <2>3. d.ids \in [1..Len(t) -> DOMAIN s.nodes]
    BY <2>1, <2>2
  <2>4. d.ids \in Seq(DOMAIN s.nodes)
    BY <1>1, <2>3
  <2> QED
    BY <1>4, <1>7, <2>4
<1>14. Sound(r)
  BY <1>7, <1>12, <1>13, ContainsSound
<1>15. EdgesAfter(u, t, assigned, Len(t), keys, r.edges)
  <2> HIDE DEF keys, r
  <2>1. r.edges = [e \in DOMAIN r.edges |-> r.edges[e]]
    BY <1>8
  <2>2. DOMAIN r.edges = keys \cup {e \in DOMAIN edges : {e[1], e[2]} \cap gone = {}}
    BY <1>4, <1>7, <1>8
  <2>3. \A e \in keys : r.edges[e] = Edge
    BY <1>8
  <2>4. ASSUME NEW e \in DOMAIN r.edges \ keys
        PROVE  r.edges[e] = IF Doubtful(assigned, t, Len(t), e) THEN Invalid ELSE edges[e]
    <3>1. e \in DOMAIN s.edges /\ r.edges[e] = s.edges[e]
      BY <1>8
    <3>2. e \in DOMAIN edges /\ s.edges[e] = d.edges[e]
      BY <1>4, <1>7, <3>1
    <3>3. d.edges[e] = IF Doubtful(assigned, t, Len(t), e) THEN Invalid ELSE edges[e]
      BY <1>2, <3>2 DEF Rounds
    <3> QED
      BY <3>1, <3>2, <3>3
  <2> QED
    BY <2>1, <2>2, <2>3, <2>4 DEF EdgesAfter, gone
<1>16. \A m \in assigned : m.sym \in 1..Len(t) /\ d.ids[m.sym] = m.old
  <2> SUFFICES ASSUME NEW m \in assigned PROVE m.sym \in 1..Len(t) /\ d.ids[m.sym] = m.old
    OBVIOUS
  <2>1. m.sym \in 1..Len(t) /\ m.sym <= Len(t)
    BY <1>1 DEF Pairing
  <2> QED
    BY <1>2, <2>1 DEF Rounds
<1> HIDE DEF r
<1>18. r.ids = d.ids /\ r.nodes = s.nodes /\ keys = Keys(t, r.ids)
  BY <1>7, <1>8
<1> HIDE DEF keys
<1>19. Outcome(u, t, assigned, Len(t), r.ids, keys, r.nodes, r.edges)
  BY <1>6, <1>15, <1>16, <1>18 DEF Outcome
<1> QED
  BY <1>3, <1>14, <1>18, <1>19 DEF r

\* On a file without rows nothing is parked and nothing paired.
LEMMA PreparedOfNothing ==
  ASSUME Tables, NEW u, RowsOf(u) = {}
  PROVE  Prepared(u) = Database
<1>1. nodes = [id \in DOMAIN nodes |-> nodes[id]]
  BY DEF Tables
<1>2. [id \in DOMAIN nodes |->
        IF id \in RowsOf(u) THEN [nodes[id] EXCEPT !.line = ParkedLine(id)] ELSE nodes[id]] = nodes
  BY <1>1
<1>3. callees \ RowsOf(u) = callees
  OBVIOUS
<1>4. Database.nodes = nodes /\ Database.callees = callees
  BY DEF Database
<1>6. [Database EXCEPT !.callees = callees, !.nodes = nodes] = Database
  <2>1. \A f, S : f = [x \in S |-> f[x]] => \A a, b \in S : [f EXCEPT ![a] = f[a], ![b] = f[b]] = f
    OBVIOUS
  <2>2. Database = [x \in {"nodes", "edges", "callees", "next", "ids", "ok"} |-> Database[x]]
    BY DEF Database
  <2> QED
    BY <1>4, <2>1, <2>2
<1>5. Prepared(u) = [Database EXCEPT !.callees = Database.callees \ RowsOf(u),
                                   !.nodes = [id \in DOMAIN nodes |->
              IF id \in RowsOf(u) THEN [nodes[id] EXCEPT !.line = ParkedLine(id)] ELSE nodes[id]]]
  BY <1>4 DEF Prepared
<1> QED
  BY <1>2, <1>3, <1>4, <1>5, <1>6

LEMMA OutcomeIndex ==
  ASSUME Tables, NEW u \in Uris, NEW t \in Texts[u], NEW cut \in 1..Len(t), RowsOf(u) = {},
         Applied(Database, u, t, {})[cut].ok
  PROVE  LET d == Applied(Database, u, t, {})[cut]
             done == IF cut < Len(t) THEN d ELSE ContainsEdges(d, t)
             keys == IF cut < Len(t) THEN {} ELSE Keys(t, d.ids) IN
         Outcome(u, t, {}, cut, d.ids, keys, done.nodes, done.edges)
<1> DEFINE d == Applied(Database, u, t, {})[cut]
           done == IF cut < Len(t) THEN d ELSE ContainsEdges(d, t)
           keys == IF cut < Len(t) THEN {} ELSE Keys(t, d.ids)
           ids == d.ids
<1>1. Len(t) \in Nat /\ DOMAIN t = 1..Len(t) /\ cut \in 0..Len(t)
  BY TextIs
<1>2. Pairing(u, t, {})
  BY DEF Pairing
<1>3. Prepared(u) = Database
  BY PreparedOfNothing
<1>4. Frame(u, t, Database, d, cut) /\ Rounds(u, t, {}, d, cut)
  <2>1. /\ Frame(u, t, Prepared(u), Applied(Prepared(u), u, t, {})[cut], cut)
        /\ Applied(Prepared(u), u, t, {})[cut].ok =>
             Rounds(u, t, {}, Applied(Prepared(u), u, t, {})[cut], cut)
    BY <1>1, <1>2, RoundsLoop
  <2> QED
    BY <1>3, <2>1
<1> HIDE DEF d
<1>5. /\ IsDb(d) /\ DOMAIN nodes \subseteq DOMAIN d.nodes
      /\ d.ids \in Seq(DOMAIN d.nodes) /\ Len(d.ids) = cut /\ \A i \in 1..cut : ids[i] \in DOMAIN d.nodes
      /\ d.edges = [e \in DOMAIN edges |-> d.edges[e]]
  BY <1>1, <1>4 DEF Frame
<1>6. Unclaimed(u, {}) = {} /\ GoneOf(u, {}) = {}
  BY DEF Unclaimed, GoneOf, Stricken
<1>7. \A i \in 1..cut : ids[i] \notin DOMAIN nodes
  BY <1>4 DEF Rounds
<1>8. Holding(u, t, cut, ids, d.nodes)
  BY <1>4 DEF Rounds
<1>9. ASSUME NEW x \in DOMAIN d.nodes, \A i \in 1..cut : ids[i] # x
      PROVE  x \in DOMAIN nodes /\ d.nodes[x] = nodes[x]
  <2>1. x \in DOMAIN nodes /\ d.nodes[x] = Prepared(u).nodes[x]
    BY <1>4, <1>9 DEF Rounds
  <2> QED
    BY <1>3, <2>1, DatabaseIs
<1>10. ASSUME NEW x \in DOMAIN nodes
       PROVE  x \in DOMAIN d.nodes /\ d.nodes[x] = Unlinked(nodes[x], {})
  <2>1. x \in DOMAIN d.nodes /\ d.nodes[x] = nodes[x]
    BY <1>5, <1>7, <1>9
  <2>2. nodes[x] \in RowsWithLines(Nat)
    BY DEF Tables
  <2>3. Unlinked(nodes[x], {}) = nodes[x]
    BY <2>2 DEF Unlinked, RowsWithLines
  <2> QED
    BY <2>1, <2>3
<1>11. StruckRows(u, t, {}, cut, ids, d.nodes)
  <2>1. \A x \in DOMAIN d.nodes : (\E i \in 1..cut : x = ids[i]) \/ x \in DOMAIN nodes
    BY <1>9
  <2> HIDE DEF ids
  <2> QED
    BY <1>5, <1>6, <1>8, <1>10, <2>1 DEF StruckRows, ids
<1>12. ContainsEdges(d, t).nodes = d.nodes
       /\ ContainsEdges(d, t).edges = [e \in Keys(t, d.ids) \cup DOMAIN d.edges |->
                         IF e \in Keys(t, d.ids) THEN Edge ELSE d.edges[e]]
  BY <1>5, ContainsEdgesIs
<1>13. /\ done.nodes = d.nodes
       /\ done.edges = [e \in keys \cup DOMAIN edges |-> IF e \in keys THEN Edge ELSE d.edges[e]]
  <2>1. CASE cut < Len(t)
    BY <1>5, <2>1
  <2>2. CASE ~ (cut < Len(t))
    BY <1>5, <1>12, <2>2
  <2> QED
    BY <2>1, <2>2
<1>14. keys = {} \/ (keys = Keys(t, ids) /\ cut = Len(t))
  <2>1. \A n \in Nat : \A c \in 0..n : c < n \/ c = n
    OBVIOUS
  <2>2. cut < Len(t) \/ cut = Len(t)
    BY <1>1, <2>1, Zenon
  <2>3. CASE cut < Len(t)
    BY <2>3
  <2>4. CASE ~ (cut < Len(t))
    BY <2>2, <2>4
  <2> QED
    BY <2>3, <2>4
<1> HIDE DEF done, keys
<1>15. EdgesAfter(u, t, {}, cut, keys, done.edges)
  <2>1. \A e \in DOMAIN edges : d.edges[e] = IF Doubtful({}, t, cut, e) THEN Invalid ELSE edges[e]
    BY <1>4 DEF Rounds
  <2>2. DOMAIN done.edges = keys \cup {e \in DOMAIN edges : {e[1], e[2]} \cap GoneOf(u, {}) = {}}
        /\ done.edges = [e \in DOMAIN done.edges |-> done.edges[e]]
    BY <1>6, <1>13
  <2>3. \A e \in keys : done.edges[e] = Edge
    BY <1>13
  <2>4. \A e \in DOMAIN done.edges \ keys :
          done.edges[e] = IF Doubtful({}, t, cut, e) THEN Invalid ELSE edges[e]
    BY <1>13, <2>1
  <2> QED
    BY <2>2, <2>3, <2>4 DEF EdgesAfter
<1> HIDE DEF ids
<1>17. Outcome(u, t, {}, cut, ids, keys, done.nodes, done.edges)
  BY <1>2, <1>7, <1>11, <1>13, <1>14, <1>15 DEF Outcome
<1> QED
  BY <1>17 DEF d, done, keys, ids

-----------------------------------------------------------------------------
(***************************************************************************)
(* The steps of the graph.                                                 *)
(***************************************************************************)
\* r2 is r but for the row it is contained in
SameButLink(r, r2) ==
  /\ r2.uri = r.uri /\ r2.fqn = r.fqn /\ r2.kind = r.kind /\ r2.line = r.line /\ r2.body = r.body
  /\ r2.valid = r.valid

OthersKept(u) ==
  /\ \A x \in DOMAIN nodes : nodes[x].uri # u => x \in DOMAIN nodes' /\ SameButLink(nodes[x], nodes'[x])
  /\ \A x \in DOMAIN nodes' : nodes'[x].uri # u => x \in DOMAIN nodes /\ nodes[x].uri # u

Reconciled(u, t) ==
  /\ synced' = [synced EXCEPT ![u] = t]
  /\ \E assigned, ids : Outcome(u, t, assigned, Len(t), ids, Keys(t, ids), nodes', edges')

Indexed(u, t) ==
  /\ synced' = [synced EXCEPT ![u] = Nothing]
  /\ OthersKept(u) /\ DOMAIN nodes \subseteq DOMAIN nodes'
  /\ RowsOf(u) = {} =>
       \E k \in 1..Len(t) : \E ids, keys : Outcome(u, t, {}, k, ids, keys, nodes', edges')
  /\ RowsOf(u) = {} \/ Reindexing

Queried ==
  /\ nodes' = nodes /\ synced' = synced
  /\ \A e \in DOMAIN edges : e \in DOMAIN edges' /\ (e[3] # "calls" => edges'[e] = edges[e])
  /\ \A e \in DOMAIN edges' :
       \/ e \in DOMAIN edges /\ edges'[e] = edges[e]
       \/ e[3] = "calls" /\ edges'[e] \in {Invalid, Edge}

LEMMA StruckKeepsOthers ==
  ASSUME Tables, NEW u \in Uris, NEW t, NEW assigned, NEW k, NEW ids,
         StruckRows(u, t, assigned, k, ids, nodes')
  PROVE  OthersKept(u)
<1>1. ASSUME NEW x \in DOMAIN nodes, nodes[x].uri # u
      PROVE  x \in DOMAIN nodes' /\ SameButLink(nodes[x], nodes'[x])
  <2>1. x \in DOMAIN nodes \ RowsOf(u)
    BY <1>1 DEF RowsOf
  <2>2. x \in DOMAIN nodes' /\ nodes'[x] = Unlinked(nodes[x], GoneOf(u, assigned))
    BY <2>1 DEF StruckRows
  <2>3. nodes[x] \in RowsWithLines(Nat)
    BY DEF Tables
  <2> QED
    BY <2>2, <2>3 DEF Unlinked, SameButLink, RowsWithLines
<1>2. ASSUME NEW x \in DOMAIN nodes', nodes'[x].uri # u
      PROVE  x \in DOMAIN nodes /\ nodes[x].uri # u
  <2>1. CASE \E i \in 1..k : x = ids[i]
    <3>1. PICK i \in 1..k : x = ids[i]
      BY <2>1
    <3> QED
      BY <1>2, <3>1 DEF StruckRows, Holding, Names
  <2>2. CASE x \in DOMAIN nodes \ RowsOf(u)
    BY <2>2 DEF RowsOf
  <2>3. CASE x \in Unclaimed(u, assigned) \ GoneOf(u, assigned)
    <3>1. OrphanOf(nodes[x], nodes'[x]) /\ x \in RowsOf(u)
      BY <2>3 DEF StruckRows, Unclaimed
    <3> QED
      BY <1>2, <3>1 DEF OrphanOf, RowsOf
  <2> QED
    BY <2>1, <2>2, <2>3 DEF StruckRows
<1> QED
  BY <1>1, <1>2 DEF OthersKept

LEMMA ReconcileIs ==
  ASSUME Tables, NEW u \in Uris, NEW t \in Texts[u], Reconcile(u, t)
  PROVE  UNCHANGED vars \/ (Tables' /\ Reconciled(u, t))
<1>1. PICK assigned \in Assignments(u, t) :
        LET db == reconcile_file_symbols_tx(u, t, assigned)
        IN  IF db.ok THEN Commit(db) /\ synced' = [synced EXCEPT ![u] = t] ELSE UNCHANGED vars
  BY DEF Reconcile
<1> DEFINE r == reconcile_file_symbols_tx(u, t, assigned)
<1>2. CASE r.ok
  <2>1. Commit(r) /\ synced' = [synced EXCEPT ![u] = t]
    BY <1>1, <1>2
  <2>2. Sound(r) /\ Outcome(u, t, assigned, Len(t), r.ids, Keys(t, r.ids), r.nodes, r.edges)
    BY <1>2, AssignmentsPair, SoundReconcile
  <2> HIDE DEF r
  <2>3. synced' = [v \in Uris |-> synced'[v]] /\ \A v \in Uris : synced'[v] \in Texts[v] \cup {Nothing}
    BY <2>1 DEF Tables
  <2>4. Tables'
    BY <2>1, <2>2, <2>3, CommitSound
  <2>5. r.nodes = nodes' /\ r.edges = edges'
    BY <2>1 DEF Commit
  <2>6. Reconciled(u, t)
    BY <2>1, <2>2, <2>5 DEF Reconciled
  <2> QED
    BY <2>4, <2>6
<1>3. CASE ~r.ok
  BY <1>1, <1>3
<1> QED
  BY <1>2, <1>3

LEMMA IndexStepIs ==
  ASSUME Tables, NEW u \in Uris, NEW t \in Texts[u], NEW cut \in 1..Len(t), Index(u, t, cut)
  PROVE  Tables' /\ Indexed(u, t)
<1> DEFINE d == Applied(Database, u, t, {})[cut]
           done == IF cut < Len(t) THEN d ELSE ContainsEdges(d, t)
           keys == IF cut < Len(t) THEN {} ELSE Keys(t, d.ids)
<1>1. /\ RowsOf(u) = {} \/ Reindexing
      /\ Frame(u, t, Database, d, cut) /\ d.ok
      /\ Sound(done) /\ Commit(done) /\ synced' = [synced EXCEPT ![u] = Nothing]
      /\ done.nodes = d.nodes
  BY IndexIs
<1>2. RowsOf(u) = {} => Outcome(u, t, {}, cut, d.ids, keys, done.nodes, done.edges)
  BY <1>1, OutcomeIndex
<1> HIDE DEF d, done, keys
<1>3. nodes' = d.nodes /\ edges' = done.edges /\ done.nodes = nodes'
  BY <1>1 DEF Commit
<1>4. Tables'
  <2>1. synced' = [v \in Uris |-> synced'[v]] /\ \A v \in Uris : synced'[v] \in Texts[v] \cup {Nothing}
    BY <1>1 DEF Tables
  <2> QED
    BY <1>1, <2>1, CommitSound
<1>5. DOMAIN nodes \subseteq DOMAIN nodes' /\ DOMAIN d.nodes \subseteq Nat
  BY <1>1, <1>3 DEF Frame
<1>6. ASSUME NEW x \in DOMAIN nodes'
      PROVE  \/ x \in DOMAIN nodes /\ nodes'[x] = nodes[x]
             \/ (x \in DOMAIN nodes => nodes[x].uri = u) /\ nodes'[x].uri = u
  <2>1. CASE x \in DOMAIN nodes /\ d.nodes[x] = Database.nodes[x]
    BY <1>3, <2>1, DatabaseIs
  <2>2. CASE (x \in DOMAIN nodes => nodes[x].uri = u) /\ HoldsSymbol(d, u, t, cut, x)
    <3>1. cut \in 0..Len(t)
      BY TextIs
    <3>2. LET r == d.nodes[x] IN
          /\ r \in RowsWithLines(Nat) /\ r.uri = u /\ Head(r.fqn) = r.uri /\ r.valid = TRUE
          /\ r.orphan = ~r.valid /\ r.container \in DOMAIN d.nodes \cup {Nothing}
      BY <1>5, <2>2, <3>1, HoldsSymbolIs
    <3> QED
      BY <1>3, <2>2, <3>2
  <2> QED
    BY <1>1, <1>3, <2>1, <2>2 DEF Frame
<1>7. OthersKept(u)
  BY <1>5, <1>6 DEF OthersKept, SameButLink
<1>8. Indexed(u, t)
  BY <1>1, <1>2, <1>3, <1>5, <1>7 DEF Indexed
<1> QED
  BY <1>4, <1>8

LEMMA AddCallIs ==
  ASSUME Tables, NEW src \in DOMAIN nodes, NEW dst \in DOMAIN nodes, AddCall(src, dst)
  PROVE  Tables' /\ Queried
<1> DEFINE key == <<src, dst, "calls">>
           db == upsert_edges(Database, {key})
<1>1. edges' = db.edges /\ UNCHANGED <<nodes, callees, nextId, synced>>
  BY DEF AddCall
<1>2. db.edges = [e \in {key} \cup DOMAIN edges |->
                    IF e \in {key} THEN Edge ELSE edges[e]]
  <2>1. IsDb(Database) /\ Database.edges = edges
    BY DatabaseIs
  <2> HIDE DEF key
  <2> QED
    BY <2>1, UpsertEdgesIs
<1>3. key[1] = src /\ key[2] = dst /\ key[3] = "calls"
  OBVIOUS
<1> HIDE DEF key, db
<1>4. /\ edges' = [e \in {key} \cup DOMAIN edges |->
                    IF e \in {key} THEN Edge ELSE edges[e]]
  BY <1>1, <1>2
<1>5. Edge.valid \in BOOLEAN
  BY DEF Edge
<1>6. \A e \in DOMAIN edges : {e[1], e[2]} \subseteq DOMAIN nodes /\ edges[e].valid \in BOOLEAN
  BY DEF Tables
<1>7. /\ edges' = [e \in DOMAIN edges' |-> edges'[e]]
      /\ \A e \in DOMAIN edges' : {e[1], e[2]} \subseteq DOMAIN nodes /\ edges'[e].valid \in BOOLEAN
  BY <1>3, <1>4, <1>5, <1>6
<1>8. Tables'
  BY <1>1, <1>7 DEF Tables
<1>9. Queried
  BY <1>1, <1>3, <1>4 DEF Queried
<1> QED
  BY <1>8, <1>9

\* what AddCall, InvalidateOutgoingCalls and SetCalleesCacheHash leave alone
LEMMA OtherQueriesAre ==
  ASSUME Tables, UNCHANGED <<nodes, nextId, synced>>, callees' \subseteq DOMAIN nodes,
         \/ edges' = edges
         \/ \E id \in DOMAIN nodes : edges' = [e \in DOMAIN edges |->
                IF e[1] = id /\ e[3] = "calls" THEN Invalid ELSE edges[e]]
  PROVE  Tables' /\ Queried
<1>1. Invalid.valid \in BOOLEAN
  BY DEF Invalid
<1>2. edges = [e \in DOMAIN edges |-> edges[e]]
      /\ \A e \in DOMAIN edges : {e[1], e[2]} \subseteq DOMAIN nodes /\ edges[e].valid \in BOOLEAN
  BY DEF Tables
<1>3. CASE edges' = edges
  BY <1>2, <1>3 DEF Tables, Queried
<1>4. ASSUME NEW id \in DOMAIN nodes, edges' = [e \in DOMAIN edges |->
                IF e[1] = id /\ e[3] = "calls" THEN Invalid ELSE edges[e]]
      PROVE  Tables' /\ Queried
  <2>1. /\ edges' = [e \in DOMAIN edges' |-> edges'[e]]
        /\ \A e \in DOMAIN edges' : {e[1], e[2]} \subseteq DOMAIN nodes /\ edges'[e].valid \in BOOLEAN
    BY <1>1, <1>2, <1>4
  <2>2. Tables'
    BY <2>1 DEF Tables
  <2>3. Queried
    BY <1>4 DEF Queried
  <2> QED
    BY <2>2, <2>3
<1> QED
  BY <1>3, <1>4

LEMMA StepIs ==
  ASSUME Tables, [Next]_vars
  PROVE  /\ Tables'
         /\ \/ \E u \in Uris : \E t \in Texts[u] : Reconciled(u, t) \/ Indexed(u, t)
            \/ Queried
<1> callees \subseteq DOMAIN nodes
  BY DEF Tables
<1>1. CASE UNCHANGED vars
  BY <1>1, OtherQueriesAre DEF vars
<1>2. ASSUME NEW u \in Uris, NEW t \in Texts[u], Reconcile(u, t)
      PROVE  (Tables' /\ Reconciled(u, t)) \/ UNCHANGED vars
  BY <1>2, ReconcileIs
<1>3. ASSUME NEW u \in Uris, NEW t \in Texts[u], NEW cut \in 1..Len(t), Index(u, t, cut)
      PROVE  Tables' /\ Indexed(u, t)
  BY <1>3, IndexStepIs
<1>4. ASSUME NEW src \in DOMAIN nodes, NEW dst \in DOMAIN nodes, AddCall(src, dst)
      PROVE  Tables' /\ Queried
  BY <1>4, AddCallIs
<1>5. ASSUME NEW id \in DOMAIN nodes, InvalidateOutgoingCalls(id)
      PROVE  Tables' /\ Queried
  BY <1>5, OtherQueriesAre DEF InvalidateOutgoingCalls
<1>6. ASSUME NEW id \in DOMAIN nodes, SetCalleesCacheHash(id)
      PROVE  Tables' /\ Queried
  BY <1>6, OtherQueriesAre DEF SetCalleesCacheHash
<1> QED
  BY <1>1, <1>2, <1>3, <1>4, <1>5, <1>6 DEF Next

LEMMA TablesInit ==
  ASSUME Init
  PROVE  Tables
<1>1. nodes = <<>> /\ edges = <<>> /\ callees = {} /\ nextId = 1 /\ synced = [u \in Uris |-> Nothing]
  BY DEF Init
<1>2. MaxId \in Nat
  BY TextsAssumption
<1>3. DOMAIN nodes = {} /\ DOMAIN edges = {}
  BY <1>1
<1>4. nodes \in [DOMAIN nodes -> RowsWithLines(Nat)] /\ edges = [e \in DOMAIN edges |-> edges[e]]
  BY <1>1
<1> QED
  BY <1>1, <1>2, <1>3, <1>4 DEF Tables, Unique

LEMMA TablesInvariant == Spec => []Tables
<1>1. Tables /\ [Next]_vars => Tables'
  BY StepIs
<1> QED
  BY <1>1, TablesInit, PTL DEF Spec

\* The tables stay well formed: no constraint the schema declares (unique
\* names, unique places, foreign keys) is broken, no row keeps its parking line.
THEOREM Typing == Spec => []TypeOK
<1>1. Tables => TypeOK
  <2> SUFFICES ASSUME Tables PROVE TypeOK
    OBVIOUS
  <2>1. ASSUME NEW id \in DOMAIN nodes
        PROVE  LET r == nodes[id] IN
               /\ r.uri \in Uris /\ r.line \in Nat
               /\ r.valid \in BOOLEAN /\ r.orphan = ~r.valid
               /\ r.container \in DOMAIN nodes \cup {Nothing}
    <3>1. nodes[id] \in RowsWithLines(Nat)
      BY DEF Tables
    <3> QED
      BY <3>1 DEF Tables, RowsWithLines
  <2> QED
    BY <2>1 DEF Tables, TypeOK
<1> QED
  BY <1>1, TablesInvariant, PTL

-----------------------------------------------------------------------------
(***************************************************************************)
(* Committed reconciles leave the text they were given.                    *)
(***************************************************************************)
Matches(u) ==
  synced[u] # Nothing =>
    /\ \A i \in DOMAIN synced[u] : IsLast(synced[u], i) =>
         \E id \in RowsOf(u) : Live(id) /\ Shows(id, synced[u][i])
    /\ \A id \in RowsOf(u) : Live(id) =>
         \E i \in DOMAIN synced[u] : IsLast(synced[u], i) /\ Shows(id, synced[u][i])

\* What other files are reconciled with is not disturbed.
LEMMA OthersMatch ==
  ASSUME NEW u \in Uris, OthersKept(u), NEW v \in Uris, v # u, synced'[v] = synced[v], Matches(v)
  PROVE  Matches(v)'
<1>1. \A x : x \in RowsOf(v) <=> x \in RowsOf(v)'
  BY DEF OthersKept, RowsOf, SameButLink
<1>2. \A x \in RowsOf(v) : /\ Live(x)' <=> Live(x)
                           /\ \A s : Shows(x, s) <=> Shows(x, s)'
  BY DEF OthersKept, RowsOf, SameButLink, Live, Shows, signature_fingerprint
<1> QED
  BY <1>1, <1>2 DEF Matches

LEMMA ReconciledMatches ==
  ASSUME NEW u \in Uris, NEW t \in Texts[u], NEW assigned, NEW ids,
         StruckRows(u, t, assigned, Len(t), ids, nodes'), synced'[u] = t
  PROVE  Matches(u)'
<1>1. DOMAIN t = 1..Len(t) /\ Len(t) \in Nat /\ Holding(u, t, Len(t), ids, nodes')
  BY TextIs DEF StruckRows
<1>2. ASSUME NEW i \in 1..Len(t), IsLast(t, i)
      PROVE  ids[i] \in RowsOf(u)' /\ Live(ids[i])' /\ Shows(ids[i], t[i])'
  <2>1. ids[i] \in DOMAIN nodes' /\ nodes'[ids[i]] = Row(u, t[i], Link(t, ids, i))
    BY <1>1, <1>2 DEF Holding, Newest, IsLast
  <2> QED
    BY <2>1 DEF Row, RowsOf, Live, Shows, signature_fingerprint
<1>3. ASSUME NEW x \in RowsOf(u)', Live(x)'
      PROVE  \E i \in 1..Len(t) : x = ids[i] /\ IsLast(t, i)
  <2>1. x \in DOMAIN nodes' /\ nodes'[x].uri = u /\ nodes'[x].valid
    BY <1>3 DEF RowsOf, Live
  <2>2. CASE x \in DOMAIN nodes \ RowsOf(u)
    <3>1. nodes'[x] = Unlinked(nodes[x], GoneOf(u, assigned))
      BY <2>2 DEF StruckRows
    <3> QED
      BY <2>1, <2>2, <3>1 DEF Unlinked, RowsOf
  <2>3. CASE x \in Unclaimed(u, assigned) \ GoneOf(u, assigned)
    BY <2>1, <2>3 DEF StruckRows, OrphanOf
  <2>4. CASE \E i \in 1..Len(t) : x = ids[i]
    <3>1. PICK i \in 1..Len(t) : x = ids[i]
      BY <2>4
    <3>2. HoldsLast(u, t, ids, nodes', i)
      BY <1>1, LastIsHeld
    <3> QED
      BY <3>1, <3>2 DEF HoldsLast
  <2> QED
    BY <2>1, <2>2, <2>3, <2>4 DEF StruckRows
<1> QED
  BY <1>1, <1>2, <1>3 DEF Matches

LEMMA MatchesStep ==
  ASSUME Tables, \A v \in Uris : Matches(v), [Next]_vars
  PROVE  \A v \in Uris : Matches(v)'
<1> SUFFICES ASSUME NEW v \in Uris PROVE Matches(v)'
  OBVIOUS
<1>1. ASSUME NEW u \in Uris, NEW t \in Texts[u], Reconciled(u, t) PROVE Matches(v)'
  <2>1. PICK assigned, ids : Outcome(u, t, assigned, Len(t), ids, Keys(t, ids), nodes', edges')
    BY <1>1 DEF Reconciled
  <2>2. StruckRows(u, t, assigned, Len(t), ids, nodes')
    BY <2>1 DEF Outcome
  <2>3. synced'[u] = t /\ (v # u => synced'[v] = synced[v])
    BY <1>1 DEF Reconciled, Tables
  <2> QED
    BY <2>2, <2>3, ReconciledMatches, StruckKeepsOthers, OthersMatch
<1>2. ASSUME NEW u \in Uris, NEW t \in Texts[u], Indexed(u, t) PROVE Matches(v)'
  <2>1. synced'[u] = Nothing /\ (v # u => synced'[v] = synced[v]) /\ OthersKept(u)
    BY <1>2 DEF Indexed, Tables
  <2>2. CASE v = u
    BY <2>1, <2>2 DEF Matches
  <2>3. CASE v # u
    BY <2>1, <2>3, OthersMatch
  <2> QED
    BY <2>2, <2>3
<1>3. ASSUME Queried PROVE Matches(v)'
  BY <1>3 DEF Queried, Matches, RowsOf, Live, Shows
<1> QED
  BY <1>1, <1>2, <1>3, StepIs

\* After a committed reconcile the live rows of a file are exactly the symbols
\* of its text, whatever edits, renames, strikes, revivals and interrupted
\* indexings came before, for texts of any length: reconcile_file_symbols_tx.
THEOREM LiveRowsAreTheText == Spec => []GraphMatchesText
<1>1. Init => \A v \in Uris : Matches(v)
  BY DEF Init, Matches
<1>2. Tables /\ (\A v \in Uris : Matches(v)) /\ [Next]_vars => (\A v \in Uris : Matches(v))'
  BY MatchesStep
<1>3. (\A v \in Uris : Matches(v)) => GraphMatchesText
  BY DEF Matches, GraphMatchesText
<1> QED
  BY <1>1, <1>2, <1>3, TablesInvariant, PTL DEF Spec

-----------------------------------------------------------------------------
(***************************************************************************)
(* Two strikes.                                                            *)
(***************************************************************************)
SecondStrikeStep ==
  \A id \in DOMAIN nodes \ DOMAIN nodes' : LET r == nodes[id] IN
    /\ r.orphan
    /\ synced[r.uri] # Nothing => r.fqn \notin Fqns(synced[r.uri])
    /\ r.fqn \notin Fqns(synced'[r.uri])

LEMMA StrikesStep ==
  ASSUME Tables, \A v \in Uris : Matches(v), [Next]_vars
  PROVE  SecondStrikeStep
<1> SUFFICES ASSUME NEW id \in DOMAIN nodes \ DOMAIN nodes'
             PROVE  /\ nodes[id].orphan
                    /\ synced[nodes[id].uri] # Nothing => nodes[id].fqn \notin Fqns(synced[nodes[id].uri])
                    /\ nodes[id].fqn \notin Fqns(synced'[nodes[id].uri])
  BY DEF SecondStrikeStep
<1>1. PICK u \in Uris : \E t \in Texts[u] : Reconciled(u, t)
  BY StepIs DEF Indexed, Queried
<1>2. PICK t \in Texts[u] : Reconciled(u, t)
  BY <1>1
<1>3. PICK assigned, ids : Outcome(u, t, assigned, Len(t), ids, Keys(t, ids), nodes', edges')
  BY <1>2 DEF Reconciled
<1>4. synced'[u] = t
  BY <1>2 DEF Reconciled, Tables
<1>5. id \in RowsOf(u) /\ nodes[id].orphan /\ ~\E m \in assigned : m.old = id
  BY <1>3 DEF Outcome, StruckRows, GoneOf, Stricken, Unclaimed
<1>6. nodes[id].uri = u /\ ~nodes[id].valid
  BY <1>5 DEF RowsOf, Tables
<1>7. nodes[id].fqn \notin Fqns(t)
  <2> SUFFICES ASSUME NEW i \in DOMAIN t, nodes[id].fqn = t[i].fqn PROVE FALSE
    BY DEF Fqns
  <2>1. DOMAIN t = 1..Len(t) /\ Len(t) \in Nat
    BY TextIs
  <2>2. PICK j \in 1..i : t[j].fqn = t[i].fqn /\ IsFirst(t, j)
    BY <2>1, SomeFirst
  <2>3. j \in DOMAIN t
    BY <2>1
  <2>4. [sym |-> j, old |-> id] \in assigned
    BY <1>3, <1>5, <2>2, <2>3 DEF Outcome, Pairing
  <2> QED
    BY <1>5, <2>4
<1>8. ASSUME synced[u] # Nothing PROVE nodes[id].fqn \notin Fqns(synced[u])
  <2> SUFFICES ASSUME NEW i \in DOMAIN synced[u], nodes[id].fqn = synced[u][i].fqn PROVE FALSE
    BY DEF Fqns
  <2> DEFINE w == synced[u]
  <2>0. DOMAIN w = 1..Len(w) /\ Len(w) \in Nat
    BY <1>8, TextIs DEF Tables
  <2>4. PICK j \in 1..Len(w) : w[j].fqn = w[i].fqn /\ IsLast(w, j)
    <3> HIDE DEF w
    <3>1. i \in 1..Len(w)
      BY <2>0 DEF w
    <3> QED
      BY <2>0, <3>1, SomeNewest DEF Newest, IsLast
  <2>1. PICK x \in RowsOf(u) : Live(x) /\ Shows(x, synced[u][j])
    BY <1>8, <2>0, <2>4 DEF Matches
  <2>2. nodes[x].fqn = nodes[id].fqn /\ nodes[x].valid /\ x \in DOMAIN nodes
    BY <2>1, <2>4 DEF Shows, Live, RowsOf
  <2>3. x = id
    BY <2>2 DEF Tables, Unique
  <2> QED
    BY <1>6, <2>2, <2>3
<1> QED
  BY <1>4, <1>5, <1>6, <1>7, <1>8

\* A row is deleted only at its second strike: it was an orphan, its name was
\* missing from the text before and is missing from this one.  Pass 4.
THEOREM RowsGoAtTheSecondStrike == Spec => DeletedOnSecondStrike
<1>1. Init => \A v \in Uris : Matches(v)
  BY DEF Init, Matches
<1>2. Tables /\ (\A v \in Uris : Matches(v)) /\ [Next]_vars => (\A v \in Uris : Matches(v))'
  BY MatchesStep
<1>3. Tables /\ (\A v \in Uris : Matches(v)) /\ [Next]_vars => SecondStrikeStep
  BY StrikesStep
<1> QED
  BY <1>1, <1>2, <1>3, TablesInvariant, PTL DEF Spec, DeletedOnSecondStrike, SecondStrikeStep

-----------------------------------------------------------------------------
(***************************************************************************)
(* From here on each file is indexed once and reconciled ever after:       *)
(* `semnav index` over a filled graph rewrites rows without invalidating   *)
(* their edges (upsert_node), and moves a name to the row at its place.    *)
(***************************************************************************)
NamesStep ==
  \A id \in DOMAIN nodes : \A id2 \in DOMAIN nodes' :
    nodes[id].fqn = nodes'[id2].fqn => id = id2

LEMMA OutcomeKeepsNames ==
  ASSUME Tables, NEW u \in Uris, NEW t \in Texts[u], NEW assigned, NEW k \in 0..Len(t), NEW ids, NEW keys,
         Outcome(u, t, assigned, k, ids, keys, nodes', edges')
  PROVE  NamesStep
<1> SUFFICES ASSUME NEW id \in DOMAIN nodes, NEW id2 \in DOMAIN nodes', nodes[id].fqn = nodes'[id2].fqn
             PROVE  id = id2
  BY DEF NamesStep
<1>1. StruckRows(u, t, assigned, k, ids, nodes')
  BY DEF Outcome
<1>2. \A x \in DOMAIN nodes : nodes[x].fqn = nodes[id].fqn => x = id
  BY DEF Tables, Unique
<1>3. CASE \E i \in 1..k : id2 = ids[i]
  <2>1. PICK i \in 1..k : id2 = ids[i]
    BY <1>3
  <2>2. i \in 1..Len(t) /\ i \in DOMAIN t /\ Head(t[i].fqn) = u
    BY TextIs
  <2>3. nodes'[id2].fqn = t[i].fqn
    BY <1>1, <2>1 DEF StruckRows, Holding, Names
  <2>4. id \in RowsOf(u)
    BY <2>2, <2>3 DEF Tables, RowsOf
  <2>5. PICK j \in 1..i : t[j].fqn = t[i].fqn /\ IsFirst(t, j)
    <3>1. Len(t) \in Nat
      BY TextIs
    <3> QED
      BY <2>2, <3>1, SomeFirst
  <2>6. j \in DOMAIN t /\ j \in 1..k
    BY <2>2, TextIs
  <2>7. [sym |-> j, old |-> id] \in assigned
    BY <2>3, <2>4, <2>5, <2>6 DEF Outcome, Pairing
  <2>8. ids[j] = id
    BY <2>7 DEF Outcome
  <2>9. ids[i] = ids[j]
    BY <1>1, <2>5, <2>6 DEF StruckRows, Holding
  <2> QED
    BY <2>1, <2>8, <2>9
<1>4. CASE id2 \in DOMAIN nodes \ RowsOf(u)
  <2>1. nodes'[id2] = Unlinked(nodes[id2], GoneOf(u, assigned)) /\ nodes[id2] \in RowsWithLines(Nat)
    BY <1>1, <1>4 DEF StruckRows, Tables
  <2>2. nodes'[id2].fqn = nodes[id2].fqn
    BY <2>1 DEF Unlinked, RowsWithLines
  <2> QED
    BY <1>2, <1>4, <2>2
<1>5. CASE id2 \in Unclaimed(u, assigned) \ GoneOf(u, assigned)
  <2>1. nodes'[id2].fqn = nodes[id2].fqn /\ id2 \in DOMAIN nodes
    BY <1>1, <1>5 DEF StruckRows, OrphanOf, Unclaimed, RowsOf
  <2> QED
    BY <1>2, <2>1
<1> QED
  BY <1>1, <1>3, <1>4, <1>5 DEF StruckRows

\* What one reconcile or one first indexing does, in the terms of Outcome.
LEMMA StepOutcome ==
  ASSUME Tables, ~Reindexing, [Next]_vars
  PROVE  \/ \E u \in Uris : \E t \in Texts[u] : \E assigned, ids, keys : \E k \in 0..Len(t) :
              /\ Outcome(u, t, assigned, k, ids, keys, nodes', edges')
              /\ \/ synced' = [synced EXCEPT ![u] = t] /\ k = Len(t) /\ keys = Keys(t, ids)
                 \/ synced' = [synced EXCEPT ![u] = Nothing] /\ assigned = {}
         \/ Queried
<1>1. ASSUME NEW u \in Uris, NEW t \in Texts[u], Reconciled(u, t)
      PROVE  \E assigned, ids, keys : \E k \in 0..Len(t) :
               /\ Outcome(u, t, assigned, k, ids, keys, nodes', edges')
               /\ synced' = [synced EXCEPT ![u] = t] /\ k = Len(t) /\ keys = Keys(t, ids)
  <2>1. PICK assigned, ids : Outcome(u, t, assigned, Len(t), ids, Keys(t, ids), nodes', edges')
    BY <1>1 DEF Reconciled
  <2>2. Len(t) \in 0..Len(t)
    BY TextIs
  <2> QED
    BY <1>1, <2>1, <2>2 DEF Reconciled
<1>2. ASSUME NEW u \in Uris, NEW t \in Texts[u], Indexed(u, t)
      PROVE  \E assigned, ids, keys : \E k \in 0..Len(t) :
               /\ Outcome(u, t, assigned, k, ids, keys, nodes', edges')
               /\ synced' = [synced EXCEPT ![u] = Nothing] /\ assigned = {}
  <2>1. PICK k, ids, keys : k \in 1..Len(t) /\ Outcome(u, t, {}, k, ids, keys, nodes', edges')
    BY <1>2 DEF Indexed
  <2>2. k \in 0..Len(t)
    BY <2>1, TextIs
  <2> QED
    BY <1>2, <2>1, <2>2 DEF Indexed
<1> QED
  BY <1>1, <1>2, StepIs

\* A name the graph knows is never given to another row: the exact matches of
\* Pass 1 come before any rename, and a symbol that is not matched is inserted.
THEOREM NamesKeepTheirRows ==
  ASSUME ~Reindexing
  PROVE  Spec => NamesStayWithTheirRows
<1>1. Tables /\ [Next]_vars => NamesStep
  <2> SUFFICES ASSUME Tables, [Next]_vars PROVE NamesStep
    OBVIOUS
  <2>1. CASE Queried
    BY <2>1 DEF Queried, NamesStep, Tables, Unique
  <2> QED
    BY <2>1, StepOutcome, OutcomeKeepsNames
<1> QED
  BY <1>1, TablesInvariant, PTL DEF Spec, NamesStayWithTheirRows, NamesStep

-----------------------------------------------------------------------------
(***************************************************************************)
(* Edges: what is changed is outdated.                                     *)
(***************************************************************************)
\* A row that is kept and not outdated shows what it showed, unless its name has overloads.
LEMMA KeptContent ==
  ASSUME Tables, NEW u \in Uris, NEW t \in Texts[u], NEW assigned, NEW k \in 0..Len(t), NEW ids, NEW keys,
         Outcome(u, t, assigned, k, ids, keys, nodes', edges'),
         NEW x \in DOMAIN nodes, x \notin GoneOf(u, assigned),
         ~\E m \in assigned : m.sym <= k /\ m.old = x /\ Outdates(nodes[m.old], t[m.sym])
  PROVE  /\ x \in DOMAIN nodes' /\ nodes'[x].fqn = nodes[x].fqn
         /\ \/ signature_fingerprint(nodes'[x]) = signature_fingerprint(nodes[x])
            \/ assigned # {} /\ nodes'[x].uri = u /\ Overloaded(t, nodes'[x].fqn)
<1>1. StruckRows(u, t, assigned, k, ids, nodes')
  BY DEF Outcome
<1>2. x \in DOMAIN nodes'
  BY <1>1 DEF StruckRows
<1>3. nodes[x] \in RowsWithLines(Nat)
  BY DEF Tables
<1>4. CASE \E i \in 1..k : x = ids[i]
  <2>0. k \in Nat /\ Len(t) \in Nat /\ DOMAIN t = 1..Len(t)
    BY TextIs
  <2>1. PICK i \in 1..k : x = ids[i] /\ nodes'[x] = Row(u, t[i], Link(t, ids, i))
    BY <1>1, <1>4, <2>0, HeldRow DEF StruckRows
  <2>2. PICK m \in assigned : m.old = x
    BY <2>1 DEF Outcome
  <2>3. m.sym \in 1..k /\ ids[m.sym] = x
    BY <2>2 DEF Outcome
  <2>4. t[m.sym].fqn = t[i].fqn
    BY <1>1, <2>1, <2>3 DEF StruckRows, Holding
  <2>5. ~Outdates(nodes[x], t[m.sym])
    <3>1. m.sym <= k
      BY <2>0, <2>3
    <3> QED
      BY <2>2, <3>1
  <2>6. /\ nodes'[x].fqn = t[i].fqn /\ nodes'[x].kind = t[i].kind /\ nodes'[x].line = t[i].line
        /\ nodes'[x].body = t[i].body /\ nodes'[x].uri = u
    BY <2>1 DEF Row
  <2>7. nodes'[x].fqn = nodes[x].fqn
    BY <2>4, <2>5, <2>6 DEF Outdates
  <2>8. CASE m.sym = i
    BY <1>2, <2>5, <2>6, <2>7, <2>8 DEF Outdates, signature_fingerprint
  <2>9. CASE m.sym # i
    <3>1. \A a, b \in DOMAIN t : a < b /\ t[a].fqn = t[b].fqn => Overloaded(t, t[a].fqn)
      <4> SUFFICES ASSUME NEW a \in DOMAIN t, NEW b \in DOMAIN t, a < b, t[a].fqn = t[b].fqn
                   PROVE  Overloaded(t, t[a].fqn)
        OBVIOUS
      <4>1. b \in (a + 1)..Len(t)
        BY <2>0
      <4>2. ~IsLast(t, a)
        BY <4>1 DEF IsLast
      <4> QED
        BY <4>2 DEF Overloaded
    <3>2. i \in DOMAIN t /\ m.sym \in DOMAIN t /\ (m.sym < i \/ i < m.sym)
      BY <2>0, <2>3, <2>9
    <3>3. Overloaded(t, t[i].fqn)
      BY <2>4, <3>1, <3>2
    <3> QED
      BY <1>2, <2>2, <2>6, <2>7, <3>3
  <2> QED
    BY <2>8, <2>9
<1>5. CASE x \in DOMAIN nodes \ RowsOf(u)
  <2>1. nodes'[x] = Unlinked(nodes[x], GoneOf(u, assigned))
    BY <1>1, <1>5 DEF StruckRows
  <2>2. /\ nodes'[x].fqn = nodes[x].fqn /\ nodes'[x].kind = nodes[x].kind
        /\ nodes'[x].line = nodes[x].line /\ nodes'[x].body = nodes[x].body
    BY <1>3, <2>1 DEF Unlinked, RowsWithLines
  <2> QED
    BY <1>2, <2>2 DEF signature_fingerprint
<1>6. CASE x \in Unclaimed(u, assigned) \ GoneOf(u, assigned)
  <2>1. OrphanOf(nodes[x], nodes'[x])
    BY <1>1, <1>6 DEF StruckRows
  <2> QED
    BY <1>2, <2>1 DEF OrphanOf, signature_fingerprint
<1> QED
  BY <1>1, <1>2, <1>4, <1>5, <1>6 DEF StruckRows

CallsStep ==
  \A e \in DOMAIN edges \cap DOMAIN edges' :
    (e[3] = "calls" /\ edges[e].valid /\ edges'[e].valid) =>
      \A id \in {e[1], e[2]} : LET r == nodes'[id] IN
        \/ signature_fingerprint(r) = signature_fingerprint(nodes[id]) /\ r.fqn = nodes[id].fqn
        \/ synced'[r.uri] # Nothing /\ Overloaded(synced'[r.uri], r.fqn)

LEMMA OutcomeOutdates ==
  ASSUME Tables, NEW u \in Uris, NEW t \in Texts[u], NEW assigned, NEW k \in 0..Len(t), NEW ids,
         NEW keys, Outcome(u, t, assigned, k, ids, keys, nodes', edges'),
         \/ synced' = [synced EXCEPT ![u] = t]
         \/ assigned = {}
  PROVE  CallsStep
<1> SUFFICES ASSUME NEW e \in DOMAIN edges \cap DOMAIN edges', e[3] = "calls", edges'[e].valid,
                    NEW id \in {e[1], e[2]}
             PROVE  \/ /\ signature_fingerprint(nodes'[id]) = signature_fingerprint(nodes[id])
                       /\ nodes'[id].fqn = nodes[id].fqn
                    \/ /\ synced'[nodes'[id].uri] # Nothing
                       /\ Overloaded(synced'[nodes'[id].uri], nodes'[id].fqn)
  BY DEF CallsStep
<1>1. EdgesAfter(u, t, assigned, k, keys, edges')
  BY DEF Outcome
<1>2. e \notin keys
  BY KeysAre DEF Outcome
<1>3. {e[1], e[2]} \cap GoneOf(u, assigned) = {} /\ ~Doubtful(assigned, t, k, e)
  BY <1>1, <1>2 DEF EdgesAfter, Invalid
<1>4. id \in DOMAIN nodes /\ id \notin GoneOf(u, assigned)
  BY <1>3 DEF Tables
<1>5. ~\E m \in assigned : m.sym <= k /\ m.old = id /\ Outdates(nodes[m.old], t[m.sym])
  BY <1>3 DEF Doubtful
<1>6. /\ nodes'[id].fqn = nodes[id].fqn
      /\ \/ signature_fingerprint(nodes'[id]) = signature_fingerprint(nodes[id])
         \/ assigned # {} /\ nodes'[id].uri = u /\ Overloaded(t, nodes'[id].fqn)
  BY <1>4, <1>5, KeptContent
<1>7. CASE assigned # {}
  <2>1. synced'[u] = t /\ t # Nothing
    BY <1>7, TextIs DEF Tables
  <2> QED
    BY <1>6, <2>1
<1> QED
  BY <1>6, <1>7

\* Pass 3 switches off the calls of every row whose name or fingerprint it changes, and
\* rows are changed by nothing else: no step leaves a call valid and changes its ends.
THEOREM ChangesOutdateTheirCalls ==
  ASSUME ~Reindexing
  PROVE  Spec => ChangesOutdateCalls
<1>1. Tables /\ [Next]_vars => CallsStep
  <2> SUFFICES ASSUME Tables, [Next]_vars PROVE CallsStep
    OBVIOUS
  <2>1. CASE Queried
    BY <2>1 DEF Queried, CallsStep
  <2> QED
    BY <2>1, StepOutcome, OutcomeOutdates
<1> QED
  BY <1>1, TablesInvariant, PTL DEF Spec, ChangesOutdateCalls, CallsStep

-----------------------------------------------------------------------------
(***************************************************************************)
(* Containment.  A valid contains edge runs from the row of a name's       *)
(* prefix to the row of the name; a row of a reconciled file that is not   *)
(* top-level names that row as its container, and has that edge.           *)
(***************************************************************************)
ContainsByName ==
  \A e \in DOMAIN edges : (edges[e].valid /\ e[3] = "contains") =>
    nodes[e[1]].fqn = Front(nodes[e[2]].fqn) /\ Len(nodes[e[2]].fqn) > 2

Contained(id) ==
  LET c == nodes[id].container IN
  /\ c # Nothing <=> Len(nodes[id].fqn) > 2
  /\ c # Nothing =>
       /\ c \in DOMAIN nodes /\ Live(c) /\ nodes[c].fqn = Front(nodes[id].fqn)
       /\ <<c, id, "contains">> \in DOMAIN edges /\ edges[<<c, id, "contains">>].valid

AllContained ==
  \A id \in DOMAIN nodes : Live(id) /\ synced[nodes[id].uri] # Nothing => Contained(id)

LEMMA ContainmentFollows ==
  ASSUME Tables, ContainsByName, AllContained
  PROVE  ContainmentAgrees
<1> SUFFICES ASSUME NEW id \in DOMAIN nodes, Live(id), synced[nodes[id].uri] # Nothing
             PROVE  /\ nodes[id].container # Nothing =>
                         /\ Live(nodes[id].container)
                         /\ nodes[nodes[id].container].fqn = container_prefix(nodes[id].fqn)
                    /\ {e[1] : e \in {x \in DOMAIN edges : x[2] = id /\ x[3] = "contains"
                                              /\ edges[x].valid /\ Live(x[1])}}
                         = {nodes[id].container} \ {Nothing}
  BY DEF ContainmentAgrees
<1> DEFINE c == nodes[id].container
           into == {x \in DOMAIN edges : x[2] = id /\ x[3] = "contains" /\ edges[x].valid /\ Live(x[1])}
<1>1. /\ c # Nothing <=> Len(nodes[id].fqn) > 2
      /\ c # Nothing =>
           /\ c \in DOMAIN nodes /\ Live(c) /\ nodes[c].fqn = Front(nodes[id].fqn)
           /\ <<c, id, "contains">> \in DOMAIN edges /\ edges[<<c, id, "contains">>].valid
  BY DEF AllContained, Contained
<1>2. ASSUME NEW x \in into PROVE c # Nothing /\ x[1] = c
  <2>1. nodes[x[1]].fqn = Front(nodes[id].fqn) /\ Len(nodes[id].fqn) > 2 /\ x[1] \in DOMAIN nodes
    BY DEF ContainsByName, Tables
  <2>2. c # Nothing /\ c \in DOMAIN nodes /\ nodes[c].fqn = nodes[x[1]].fqn
    BY <1>1, <2>1
  <2> QED
    BY <2>1, <2>2 DEF Tables, Unique
<1>3. ASSUME c # Nothing PROVE \E x \in into : x[1] = c
  <2> DEFINE x == <<c, id, "contains">>
  <2>1. x[1] = c /\ x[2] = id /\ x[3] = "contains"
    OBVIOUS
  <2> HIDE DEF x
  <2>2. x \in into
    BY <1>1, <1>3, <2>1 DEF x
  <2> QED
    BY <2>1, <2>2
<1>4. {x[1] : x \in into} = {c} \ {Nothing}
  <2> HIDE DEF c, into
  <2> QED
    BY <1>2, <1>3
<1> QED
  BY <1>1, <1>4 DEF container_prefix

LEMMA OutcomeContainsByName ==
  ASSUME Tables, ContainsByName, NEW u \in Uris, NEW t \in Texts[u], NEW assigned, NEW k \in 0..Len(t),
         NEW ids, NEW keys, Outcome(u, t, assigned, k, ids, keys, nodes', edges')
  PROVE  ContainsByName'
<1> SUFFICES ASSUME NEW e \in DOMAIN edges', edges'[e].valid, e[3] = "contains"
             PROVE  nodes'[e[1]].fqn = Front(nodes'[e[2]].fqn) /\ Len(nodes'[e[2]].fqn) > 2
  BY DEF ContainsByName
<1>1. EdgesAfter(u, t, assigned, k, keys, edges') /\ StruckRows(u, t, assigned, k, ids, nodes')
  BY DEF Outcome
<1>2. CASE e \in keys
  <2>1. e \in Keys(t, ids) /\ k = Len(t)
    BY <1>2 DEF Outcome
  <2>2. PICK i \in 1..Len(t) : Parent(t, i) \in 1..Len(t) /\ e[1] = ids[Parent(t, i)] /\ e[2] = ids[i]
    BY <2>1, KeysAre
  <2>3. Parent(t, i) # 0
    BY <2>2
  <2>4. t[Parent(t, i)].fqn = Front(t[i].fqn) /\ Len(t[i].fqn) > 2
    BY <2>3, ParentIs
  <2>5. Holding(u, t, Len(t), ids, nodes')
    BY <1>1, <2>1 DEF StruckRows
  <2>6. nodes'[e[1]].fqn = t[Parent(t, i)].fqn /\ nodes'[e[2]].fqn = t[i].fqn
    BY <2>2, <2>5 DEF Holding, Names
  <2> QED
    BY <2>4, <2>6
<1>3. CASE e \notin keys
  <2>1. e \in DOMAIN edges /\ e[1] \notin GoneOf(u, assigned) /\ e[2] \notin GoneOf(u, assigned)
        /\ edges'[e] = IF Doubtful(assigned, t, k, e) THEN Invalid ELSE edges[e]
    BY <1>1, <1>3 DEF EdgesAfter
  <2>2. ~Doubtful(assigned, t, k, e)
    BY <2>1 DEF Invalid
  <2>3. e[1] \in DOMAIN nodes /\ e[2] \in DOMAIN nodes
    BY <2>1 DEF Tables
  <2>4. nodes'[e[1]].fqn = nodes[e[1]].fqn
    <3> DEFINE x == e[1]
    <3>1. x \in DOMAIN nodes /\ x \notin GoneOf(u, assigned)
      BY <2>1, <2>3
    <3>2. ~\E m \in assigned : m.sym <= k /\ m.old = x /\ Outdates(nodes[m.old], t[m.sym])
      BY <2>2 DEF Doubtful
    <3> HIDE DEF x
    <3>3. nodes'[x].fqn = nodes[x].fqn
      BY <3>1, <3>2, KeptContent
    <3> QED
      BY <3>3 DEF x
  <2>5. nodes'[e[2]].fqn = nodes[e[2]].fqn
    <3> DEFINE x == e[2]
    <3>1. x \in DOMAIN nodes /\ x \notin GoneOf(u, assigned)
      BY <2>1, <2>3
    <3>2. ~\E m \in assigned : m.sym <= k /\ m.old = x /\ Outdates(nodes[m.old], t[m.sym])
      BY <2>2 DEF Doubtful
    <3> HIDE DEF x
    <3>3. nodes'[x].fqn = nodes[x].fqn
      BY <3>1, <3>2, KeptContent
    <3> QED
      BY <3>3 DEF x
  <2> QED
    BY <2>1, <2>2, <2>4, <2>5 DEF ContainsByName
<1> QED
  BY <1>2, <1>3

\* The rows of the file itself, after its reconcile.
LEMMA OwnRowsContained ==
  ASSUME Tables', NEW u \in Uris, NEW t \in Texts[u], NEW assigned, NEW ids,
         Outcome(u, t, assigned, Len(t), ids, Keys(t, ids), nodes', edges'),
         NEW id \in DOMAIN nodes', nodes'[id].uri = u, nodes'[id].valid
  PROVE  Contained(id)'
<1>1. /\ EdgesAfter(u, t, assigned, Len(t), Keys(t, ids), edges')
      /\ StruckRows(u, t, assigned, Len(t), ids, nodes')
  BY DEF Outcome
<1>2. \E i \in 1..Len(t) : id = ids[i]
  <2>1. CASE id \in DOMAIN nodes \ RowsOf(u)
    <3>1. nodes'[id] = Unlinked(nodes[id], GoneOf(u, assigned))
      BY <1>1, <2>1 DEF StruckRows
    <3> QED
      BY <2>1, <3>1 DEF Unlinked, RowsOf
  <2>2. CASE id \in Unclaimed(u, assigned) \ GoneOf(u, assigned)
    BY <1>1, <2>2 DEF StruckRows, OrphanOf
  <2> QED
    BY <1>1, <2>1, <2>2 DEF StruckRows
<1>0. Len(t) \in Nat /\ Holding(u, t, Len(t), ids, nodes')
  BY <1>1, TextIs DEF StruckRows
<1>3. PICK i \in 1..Len(t) : id = ids[i] /\ nodes'[id] = Row(u, t[i], Link(t, ids, i))
  <2>1. PICK i \in 1..Len(t) : id = ids[i]
    BY <1>2
  <2>2. HoldsLast(u, t, ids, nodes', i)
    BY <1>0, LastIsHeld
  <2> QED
    BY <2>1, <2>2 DEF HoldsLast
<1>4. nodes'[id].fqn = t[i].fqn /\ nodes'[id].container = Link(t, ids, i)
  BY <1>3 DEF Row
<1>5. Len(t) \in Nat /\ DOMAIN t = 1..Len(t) /\ Parent(t, i) \in 0..(i - 1)
  BY TextIs, ParentIs
<1>6. CASE Parent(t, i) = 0
  <2>1. ~ (Len(t[i].fqn) > 2)
    BY <1>6, ParentIs
  <2> QED
    BY <1>4, <1>6, <2>1 DEF Contained, Link
<1>7. CASE Parent(t, i) # 0
  <2> DEFINE p == Parent(t, i)
             e == <<ids[p], ids[i], "contains">>
  <2>1. p \in 1..Len(t)
    BY <1>5, <1>7
  <2>2. t[p].fqn = Front(t[i].fqn) /\ Len(t[i].fqn) > 2
    BY <1>7, ParentIs
  <2>3. ids[p] \in DOMAIN nodes' /\ Names(nodes'[ids[p]], u, t[p])
    BY <1>0, <2>1 DEF Holding
  <2>4. nodes'[ids[p]].valid /\ nodes'[ids[p]].fqn = t[p].fqn
    BY <2>3 DEF Names
  <2>5. ids[p] # Nothing
    <3>1. ids[p] \in Nat
      BY <2>3 DEF Tables
    <3> QED
      BY <3>1, TextsAssumption
  <2>6. e \in Keys(t, ids)
    BY <1>5, <1>7 DEF Keys
  <2>7. e \in DOMAIN edges' /\ edges'[e].valid
    <3> HIDE DEF e
    <3> QED
      BY <1>1, <2>6 DEF EdgesAfter, Edge
  <2>8. nodes'[id].container = ids[p]
    BY <1>4, <1>7 DEF Link
  <2> QED
    BY <1>3, <1>4, <2>2, <2>3, <2>4, <2>5, <2>7, <2>8 DEF Contained, Live
<1> QED
  BY <1>6, <1>7

\* The rows of another file keep their containers and the edges to them.
LEMMA OtherRowsContained ==
  ASSUME Tables, NEW u \in Uris, NEW t \in Texts[u], NEW assigned, NEW k \in 0..Len(t), NEW ids, NEW keys,
         Outcome(u, t, assigned, k, ids, keys, nodes', edges'),
         NEW id \in DOMAIN nodes, nodes[id].uri # u, Contained(id)
  PROVE  Contained(id)'
<1>1. /\ EdgesAfter(u, t, assigned, k, keys, edges')
      /\ StruckRows(u, t, assigned, k, ids, nodes')
  BY DEF Outcome
<1> DEFINE gone == GoneOf(u, assigned)
           c == nodes[id].container
           e == <<c, id, "contains">>
<1>2. gone \subseteq RowsOf(u)
  BY DEF GoneOf, Stricken, Unclaimed
<1>3. \A x \in DOMAIN nodes \ RowsOf(u) :
        /\ x \in DOMAIN nodes' /\ nodes'[x].fqn = nodes[x].fqn /\ nodes'[x].valid = nodes[x].valid
        /\ nodes'[x].container = IF nodes[x].container \in gone THEN Nothing ELSE nodes[x].container
  <2> SUFFICES ASSUME NEW x \in DOMAIN nodes \ RowsOf(u)
      PROVE  /\ x \in DOMAIN nodes' /\ nodes'[x].fqn = nodes[x].fqn /\ nodes'[x].valid = nodes[x].valid
             /\ nodes'[x].container = IF nodes[x].container \in gone THEN Nothing ELSE nodes[x].container
    OBVIOUS
  <2>1. x \in DOMAIN nodes' /\ nodes'[x] = Unlinked(nodes[x], gone)
    BY <1>1 DEF StruckRows
  <2>2. nodes[x] \in RowsWithLines(Nat)
    BY DEF Tables
  <2> QED
    BY <2>1, <2>2 DEF Unlinked, RowsWithLines
<1>4. id \in DOMAIN nodes \ RowsOf(u)
  BY DEF RowsOf
<1>5. CASE c = Nothing
  BY <1>3, <1>4, <1>5 DEF Contained
<1>6. CASE c # Nothing
  <2>1. /\ c \in DOMAIN nodes /\ Live(c) /\ nodes[c].fqn = Front(nodes[id].fqn) /\ Len(nodes[id].fqn) > 2
        /\ e \in DOMAIN edges /\ edges[e].valid
    BY <1>6 DEF Contained
  <2>2. Head(nodes[c].fqn) = nodes[c].uri /\ Head(nodes[id].fqn) = nodes[id].uri
        /\ nodes[id].fqn \in Seq(STRING) \ {<<>>}
    BY <2>1 DEF Tables, RowsWithLines
  <2>3. Len(nodes[id].fqn) > 1
    BY <2>1, <2>2
  <2>4. nodes[c].uri = nodes[id].uri
    BY <2>1, <2>2, <2>3, FrontIs
  <2>5. c \in DOMAIN nodes \ RowsOf(u)
    BY <2>1, <2>4 DEF RowsOf
  <2>6. nodes'[id].container = c /\ nodes'[id].fqn = nodes[id].fqn
    BY <1>2, <1>3, <1>4, <2>5
  <2>7. c \in DOMAIN nodes' /\ nodes'[c].valid /\ nodes'[c].fqn = nodes[c].fqn
    BY <1>3, <2>1, <2>5 DEF Live
  <2>8. e \in DOMAIN edges' /\ edges'[e].valid
    <3>1. e[1] = c /\ e[2] = id
      OBVIOUS
    <3> HIDE DEF e, c
    <3>2. {e[1], e[2]} \cap gone = {}
      BY <1>2, <1>4, <2>5, <3>1
    <3>3. e \in DOMAIN edges'
      BY <1>1, <2>1, <3>2 DEF EdgesAfter
    <3>4. ~Doubtful(assigned, t, k, e)
      BY <1>4, <2>5, <3>1 DEF Doubtful, Outcome, Pairing
    <3> QED
      BY <1>1, <2>1, <3>3, <3>4 DEF EdgesAfter, Edge
  <2> QED
    BY <1>6, <2>1, <2>6, <2>7, <2>8 DEF Contained, Live
<1> QED
  BY <1>5, <1>6

LEMMA ContainmentOfOutcome ==
  ASSUME Tables, Tables', AllContained, NEW u \in Uris, NEW t \in Texts[u], NEW assigned,
         NEW k \in 0..Len(t), NEW ids, NEW keys, Outcome(u, t, assigned, k, ids, keys, nodes', edges'),
         \/ synced' = [synced EXCEPT ![u] = t] /\ k = Len(t) /\ keys = Keys(t, ids)
         \/ synced' = [synced EXCEPT ![u] = Nothing]
  PROVE  AllContained'
<1> SUFFICES ASSUME NEW id \in DOMAIN nodes', nodes'[id].valid, synced'[nodes'[id].uri] # Nothing
             PROVE  Contained(id)'
  BY DEF AllContained, Live
<1>1. synced = [v \in Uris |-> synced[v]] /\ nodes'[id].uri \in Uris
  BY DEF Tables, RowsWithLines
<1>2. CASE nodes'[id].uri = u
  <2>1. synced'[u] # Nothing
    BY <1>2
  <2>2. k = Len(t) /\ keys = Keys(t, ids)
    BY <1>1, <2>1
  <2> QED
    BY <1>2, <2>2, OwnRowsContained
<1>3. CASE nodes'[id].uri # u
  <2>1. OthersKept(u)
    BY StruckKeepsOthers DEF Outcome
  <2>2. id \in DOMAIN nodes /\ nodes[id].uri # u /\ SameButLink(nodes[id], nodes'[id])
    BY <1>3, <2>1 DEF OthersKept
  <2>3. Live(id) /\ nodes[id].uri = nodes'[id].uri
    BY <2>2 DEF SameButLink, Live
  <2>4. synced'[nodes[id].uri] = synced[nodes[id].uri]
    BY <1>1, <2>2, <2>3
  <2>5. Contained(id)
    BY <2>2, <2>3, <2>4 DEF AllContained
  <2> QED
    BY <2>2, <2>5, OtherRowsContained
<1> QED
  BY <1>2, <1>3

LEMMA ContainmentOfQuery ==
  ASSUME Tables, ContainsByName, AllContained, Queried
  PROVE  ContainsByName' /\ AllContained'
<1>1. nodes' = nodes /\ synced' = synced
  BY DEF Queried
<1>2. ASSUME NEW e \in DOMAIN edges', edges'[e].valid, e[3] = "contains"
      PROVE  e \in DOMAIN edges /\ edges[e].valid
  BY <1>2 DEF Queried
<1>3. ContainsByName'
  BY <1>1, <1>2 DEF ContainsByName
<1>4. ASSUME NEW id \in DOMAIN nodes, Live(id), synced[nodes[id].uri] # Nothing
      PROVE  Contained(id)'
  <2>1. Contained(id)
    BY <1>4 DEF AllContained
  <2> DEFINE e == <<nodes[id].container, id, "contains">>
  <2>2. e[3] # "calls"
    OBVIOUS
  <2>3. e \in DOMAIN edges /\ edges[e].valid => e \in DOMAIN edges' /\ edges'[e].valid
    <3> HIDE DEF e
    <3> QED
      BY <2>2 DEF Queried
  <2> QED
    BY <1>1, <2>1, <2>3 DEF Contained, Live
<1>5. AllContained'
  BY <1>1, <1>4 DEF AllContained, Live
<1> QED
  BY <1>3, <1>5

LEMMA ContainmentStep ==
  ASSUME Tables, ContainsByName, AllContained, ~Reindexing, [Next]_vars
  PROVE  ContainsByName' /\ AllContained'
<1>1. Tables'
  BY StepIs
<1>2. CASE Queried
  BY <1>2, ContainmentOfQuery
<1> QED
  BY <1>1, <1>2, StepOutcome, OutcomeContainsByName, ContainmentOfOutcome

LEMMA ContainmentInvariant ==
  ASSUME ~Reindexing
  PROVE  Spec => [](ContainsByName /\ AllContained)
<1>1. Init => ContainsByName /\ AllContained
  <2> SUFFICES ASSUME Init PROVE ContainsByName /\ AllContained
    OBVIOUS
  <2>1. DOMAIN edges = {} /\ DOMAIN nodes = {}
    BY DEF Init
  <2> QED
    BY <2>1 DEF ContainsByName, AllContained
<1>2. Tables /\ (ContainsByName /\ AllContained) /\ [Next]_vars => (ContainsByName /\ AllContained)'
  BY ContainmentStep
<1> QED
  BY <1>1, <1>2, TablesInvariant, PTL DEF Spec

\* The two records of containment agree, container_id and the contains edges,
\* although Pass 3 writes the one, Pass 5 the other, and Pass 3 switches edges
\* off in between.
THEOREM ContainmentRecordsAgree ==
  ASSUME ~Reindexing
  PROVE  Spec => []ContainmentAgrees
<1>1. Tables /\ ContainsByName /\ AllContained => ContainmentAgrees
  BY ContainmentFollows
<1> QED
  BY <1>1, TablesInvariant, ContainmentInvariant, PTL

-----------------------------------------------------------------------------
(***************************************************************************)
(* Reconciling a text again: every name claims the row that shows it,      *)
(* nothing but overloads is outdated, nothing is struck.                   *)
(***************************************************************************)
TwoValued == \A e \in DOMAIN edges : edges[e] \in {Invalid, Edge}

LEMMA TwoValuedStep ==
  ASSUME Tables, TwoValued, ~Reindexing, [Next]_vars
  PROVE  TwoValued'
<1>1. CASE Queried
  BY <1>1 DEF Queried, TwoValued
<1>2. ASSUME NEW u \in Uris, NEW t \in Texts[u], NEW assigned, NEW k, NEW keys,
             EdgesAfter(u, t, assigned, k, keys, edges')
      PROVE  TwoValued'
  <2> SUFFICES ASSUME NEW e \in DOMAIN edges' PROVE edges'[e] \in {Invalid, Edge}
    BY DEF TwoValued
  <2> QED
    BY <1>2 DEF EdgesAfter, TwoValued
<1> QED
  BY <1>1, <1>2, StepOutcome DEF Outcome

Named(u, t, ids) == \A i \in 1..Len(t) : ids[i] \in RowsOf(u) /\ nodes[ids[i]].fqn = t[i].fqn

AllClaimed(u, t, assigned, ids) ==
  /\ t \in Texts[u] /\ Unclaimed(u, assigned) = {} /\ GoneOf(u, assigned) = {}
  /\ Named(u, t, ids)
  /\ \A i \in 1..Len(t) : IsLast(t, i) => Shows(ids[i], t[i])
  /\ \A x \in RowsOf(u) : \E i \in 1..Len(t) : ids[i] = x
  /\ \A m \in assigned : Outdates(nodes[m.old], t[m.sym]) => ShowsOverloads(u, m.old)

LEMMA SettledClaims ==
  ASSUME Tables, NEW u \in Uris, Matches(u), Settled(u), NEW t, t = synced[u], NEW assigned, NEW ids,
         Outcome(u, t, assigned, Len(t), ids, Keys(t, ids), nodes', edges')
  PROVE  AllClaimed(u, t, assigned, ids)
<1>1. t \in Texts[u] /\ DOMAIN t = 1..Len(t) /\ Len(t) \in Nat
  <2>1. t \in Texts[u]
    BY DEF Tables, Settled
  <2> QED
    BY <2>1, TextIs
<1>2. /\ Pairing(u, t, assigned) /\ \A m \in assigned : ids[m.sym] = m.old
      /\ Holding(u, t, Len(t), ids, nodes')
  BY DEF Outcome, StruckRows
<1>3. ASSUME NEW x \in RowsOf(u), NEW i \in 1..Len(t), nodes[x].fqn = t[i].fqn
      PROVE  ids[i] = x /\ \E m \in assigned : m.old = x
  <2>1. PICK j \in 1..Len(t) : t[j].fqn = t[i].fqn /\ IsFirst(t, j)
    <3>1. PICK j \in 1..i : t[j].fqn = t[i].fqn /\ IsFirst(t, j)
      BY <1>1, SomeFirst
    <3> QED
      BY <1>1, <3>1
  <2> DEFINE m == [sym |-> j, old |-> x]
  <2>2. m \in assigned
    BY <1>1, <1>2, <1>3, <2>1 DEF Pairing
  <2>3. ids[j] = x
    BY <1>2, <2>2
  <2> QED
    BY <1>2, <2>1, <2>2, <2>3 DEF Holding
<1>4. ASSUME NEW x \in RowsOf(u)
      PROVE  \E i \in 1..Len(t) : IsLast(t, i) /\ Shows(x, t[i]) /\ ids[i] = x
  <2>1. PICK i \in 1..Len(t) : IsLast(t, i) /\ Shows(x, t[i])
    BY <1>1, <1>4 DEF Settled, Matches
  <2> QED
    BY <1>3, <2>1 DEF Shows
<1>5. Unclaimed(u, assigned) = {}
  <2> SUFFICES ASSUME NEW x \in RowsOf(u) PROVE \E m \in assigned : m.old = x
    BY DEF Unclaimed
  <2> QED
    BY <1>3, <1>4 DEF Shows
<1>6. GoneOf(u, assigned) = {}
  BY <1>5 DEF GoneOf, Stricken
<1>7. ASSUME NEW i \in 1..Len(t), IsLast(t, i)
      PROVE  ids[i] \in RowsOf(u) /\ Shows(ids[i], t[i])
  <2>1. PICK x \in RowsOf(u) : Shows(x, t[i])
    BY <1>1, <1>7 DEF Settled, Matches
  <2>2. ids[i] = x
    BY <1>3, <2>1 DEF Shows
  <2> QED
    BY <2>1, <2>2
<1>8. ASSUME NEW i \in 1..Len(t) PROVE ids[i] \in RowsOf(u) /\ nodes[ids[i]].fqn = t[i].fqn
  <2>1. PICK j \in 1..Len(t) : t[j].fqn = t[i].fqn /\ IsLast(t, j)
    <3>1. PICK j \in 1..Len(t) : t[j].fqn = t[i].fqn /\ Newest(t, Len(t), j)
      BY <1>1, SomeNewest
    <3> QED
      BY <3>1 DEF Newest, IsLast
  <2>2. ids[j] \in RowsOf(u) /\ nodes[ids[j]].fqn = t[j].fqn
    BY <1>7, <2>1 DEF Shows
  <2>3. ids[i] = ids[j]
    BY <1>2, <2>1 DEF Holding
  <2> QED
    BY <2>1, <2>2, <2>3
<1>9. ASSUME NEW m \in assigned, Outdates(nodes[m.old], t[m.sym]) PROVE ShowsOverloads(u, m.old)
  <2>1. m.old \in RowsOf(u) /\ m.sym \in 1..Len(t)
    BY <1>1, <1>2 DEF Pairing
  <2>2. PICK i \in 1..Len(t) : IsLast(t, i) /\ Shows(m.old, t[i]) /\ ids[i] = m.old
    BY <1>4, <2>1
  <2>3. t[m.sym].fqn = t[i].fqn
    BY <1>2, <2>1, <2>2 DEF Holding
  <2>4. m.sym # i
    BY <1>9, <2>2 DEF Shows, Outdates
  <2>5. ~(m.sym > i)
    <3>1. m.sym > i => m.sym \in (i + 1)..Len(t)
      BY <1>1, <2>1
    <3> QED
      BY <2>2, <2>3, <3>1 DEF IsLast
  <2>6. i \in (m.sym + 1)..Len(t)
    BY <1>1, <2>1, <2>4, <2>5
  <2>7. Overloaded(t, nodes[m.old].fqn)
    BY <1>1, <2>1, <2>2, <2>3, <2>6 DEF Overloaded, IsLast, Shows
  <2> QED
    BY <2>1, <2>7 DEF ShowsOverloads
<1>10. ASSUME NEW x \in RowsOf(u) PROVE \E i \in 1..Len(t) : ids[i] = x
  BY <1>4
<1> QED
  BY <1>1, <1>5, <1>6, <1>7, <1>8, <1>9, <1>10 DEF AllClaimed, Named

\* the container a settled row has is the one Pass 3 gives it
LEMMA SettledLink ==
  ASSUME Tables, AllContained, NEW u \in Uris, Settled(u), NEW t \in Texts[u], NEW ids, Named(u, t, ids),
         NEW i \in 1..Len(t)
  PROVE  /\ nodes[ids[i]].container = Link(t, ids, i)
         /\ Parent(t, i) # 0 => LET e == <<ids[Parent(t, i)], ids[i], "contains">> IN
                                e \in DOMAIN edges /\ edges[e].valid
<1> DEFINE x == ids[i]
           p == Parent(t, i)
           c == nodes[x].container
<1>1. x \in DOMAIN nodes /\ nodes[x].uri = u /\ Live(x) /\ nodes[x].fqn = t[i].fqn
  BY DEF Named, Settled, RowsOf
<1>2. /\ c # Nothing <=> Len(t[i].fqn) > 2
      /\ c # Nothing =>
           /\ c \in DOMAIN nodes /\ nodes[c].fqn = Front(t[i].fqn)
           /\ <<c, x, "contains">> \in DOMAIN edges /\ edges[<<c, x, "contains">>].valid
  BY <1>1 DEF AllContained, Contained, Settled
<1>3. CASE p = 0
  BY <1>2, <1>3, ParentIs DEF Link
<1>4. CASE p # 0
  <2>1. p \in 1..Len(t) /\ t[p].fqn = Front(t[i].fqn) /\ Len(t[i].fqn) > 2
    <3>1. Len(t) \in Nat
      BY TextIs
    <3> QED
      BY <1>4, <3>1, ParentIs
  <2>2. ids[p] \in DOMAIN nodes /\ nodes[ids[p]].fqn = t[p].fqn
    BY <2>1 DEF Named, RowsOf
  <2>3. c = ids[p]
    BY <1>2, <2>1, <2>2 DEF Tables, Unique
  <2> QED
    BY <1>2, <1>4, <2>1, <2>3 DEF Link
<1> QED
  BY <1>3, <1>4

LEMMA SettledRowsStay ==
  ASSUME Tables, Tables', AllContained, NEW u \in Uris, Matches(u), Settled(u), NEW t, t = synced[u],
         NEW assigned, NEW ids, Outcome(u, t, assigned, Len(t), ids, Keys(t, ids), nodes', edges')
  PROVE  nodes' = nodes
<1>1. /\ t \in Texts[u] /\ Unclaimed(u, assigned) = {} /\ GoneOf(u, assigned) = {}
      /\ Named(u, t, ids) /\ \A x \in RowsOf(u) : \E i \in 1..Len(t) : ids[i] = x
      /\ \A i \in 1..Len(t) : IsLast(t, i) => Shows(ids[i], t[i])
  <2>1. AllClaimed(u, t, assigned, ids)
    BY SettledClaims
  <2> QED
    BY <2>1 DEF AllClaimed
<1>2. StruckRows(u, t, assigned, Len(t), ids, nodes')
  BY DEF Outcome
<1>3. DOMAIN nodes' = DOMAIN nodes
  <2>1. \A x \in DOMAIN nodes' : x \in DOMAIN nodes
    BY <1>1, <1>2 DEF StruckRows, Named, RowsOf
  <2>2. DOMAIN nodes \ DOMAIN nodes' = {}
    BY <1>1, <1>2 DEF StruckRows
  <2> QED
    BY <2>1, <2>2
<1>4. ASSUME NEW x \in DOMAIN nodes PROVE nodes'[x] = nodes[x]
  <2>1. nodes[x] \in RowsWithLines(Nat)
    BY DEF Tables
  <2>2. CASE x \in RowsOf(u)
    <3>0. PICK j \in 1..Len(t) : ids[j] = x
      BY <1>1, <2>2
    <3>1. PICK i \in 1..Len(t) : ids[i] = x /\ IsLast(t, i)
                                /\ nodes'[x] = Row(u, t[i], Link(t, ids, i))
      <4>1. Len(t) \in Nat /\ Holding(u, t, Len(t), ids, nodes')
        BY <1>1, <1>2, TextIs DEF StruckRows
      <4>2. HoldsLast(u, t, ids, nodes', j)
        BY <4>1, LastIsHeld
      <4> QED
        BY <3>0, <4>2 DEF HoldsLast
    <3>2. nodes'[x] = Row(u, t[i], Link(t, ids, i))
      BY <3>1
    <3>3. nodes[x].container = Link(t, ids, i)
      <4>1. nodes[ids[i]].container = Link(t, ids, i)
        <5>1. t \in Texts[u] /\ Named(u, t, ids)
          BY <1>1
        <5> QED
          BY <5>1, SettledLink
      <4> QED
        BY <3>1, <4>1
    <3>4. /\ nodes[x].fqn = t[i].fqn /\ nodes[x].kind = t[i].kind /\ nodes[x].line = t[i].line
          /\ nodes[x].body = t[i].body
      BY <1>1, <3>1 DEF Shows, signature_fingerprint
    <3>5. nodes[x].uri = u /\ nodes[x].valid = TRUE /\ nodes[x].orphan = FALSE
      <4>1. nodes[x].valid /\ nodes[x].valid \in BOOLEAN /\ nodes[x].orphan = ~nodes[x].valid
        BY <2>1, <2>2 DEF Settled, Live, Tables, RowsWithLines
      <4> QED
        BY <2>2, <4>1 DEF RowsOf
    <3> QED
      BY <2>1, <3>2, <3>3, <3>4, <3>5 DEF Row, RowsWithLines
  <2>3. CASE x \notin RowsOf(u)
    <3>1. nodes'[x] = Unlinked(nodes[x], {})
      BY <1>1, <1>2, <2>3 DEF StruckRows
    <3> QED
      BY <2>1, <3>1 DEF Unlinked, RowsWithLines
  <2> QED
    BY <2>2, <2>3
<1>5. nodes = [x \in DOMAIN nodes |-> nodes[x]] /\ nodes' = [x \in DOMAIN nodes' |-> nodes'[x]]
  BY DEF Tables
<1> QED
  BY <1>3, <1>4, <1>5

LEMMA SettledEdgesStay ==
  ASSUME Tables, Tables', TwoValued, AllContained, NEW u \in Uris, Matches(u), Settled(u),
         NEW t, t = synced[u], NEW assigned, NEW ids,
         Outcome(u, t, assigned, Len(t), ids, Keys(t, ids), nodes', edges')
  PROVE  /\ DOMAIN edges' = DOMAIN edges
         /\ \A e \in DOMAIN edges :
              edges'[e] = edges[e] \/ ShowsOverloads(u, e[1]) \/ ShowsOverloads(u, e[2])
<1>1. /\ t \in Texts[u] /\ GoneOf(u, assigned) = {} /\ Named(u, t, ids)
      /\ \A m \in assigned : Outdates(nodes[m.old], t[m.sym]) => ShowsOverloads(u, m.old)
  BY SettledClaims DEF AllClaimed
<1>2. EdgesAfter(u, t, assigned, Len(t), Keys(t, ids), edges')
  BY DEF Outcome
<1>4. ASSUME NEW e \in Keys(t, ids) PROVE e \in DOMAIN edges /\ edges[e].valid
  <2>1. PICK i \in DOMAIN t : Parent(t, i) # 0 /\ e = <<ids[Parent(t, i)], ids[i], "contains">>
    BY DEF Keys
  <2>2. i \in 1..Len(t)
    BY <1>1, TextIs
  <2> QED
    BY <1>1, <2>1, <2>2, SettledLink
<1>5. DOMAIN edges' = DOMAIN edges
  BY <1>1, <1>2, <1>4 DEF EdgesAfter
<1>6. ASSUME NEW e \in DOMAIN edges
      PROVE  edges'[e] = edges[e] \/ ShowsOverloads(u, e[1]) \/ ShowsOverloads(u, e[2])
  <2>1. CASE e \in Keys(t, ids)
    <3>1. edges[e].valid
      BY <1>4, <2>1
    <3>2. edges[e] = Edge
      BY <3>1 DEF TwoValued, Invalid
    <3>3. edges'[e] = Edge
      BY <1>2, <2>1 DEF EdgesAfter
    <3> QED
      BY <3>2, <3>3
  <2>2. CASE e \notin Keys(t, ids)
    <3>1. edges'[e] = IF Doubtful(assigned, t, Len(t), e) THEN Invalid ELSE edges[e]
      BY <1>2, <1>5, <2>2 DEF EdgesAfter
    <3> QED
      BY <1>1, <3>1 DEF Doubtful
  <2> QED
    BY <2>1, <2>2
<1> QED
  BY <1>5, <1>6

LEMMA ReconcilingAgain ==
  ASSUME Tables, TwoValued, AllContained, NEW u \in Uris, Matches(u), Settled(u), Reconcile(u, synced[u])
  PROVE  NothingElseChanges(u)
<1> DEFINE t == synced[u]
<1>1. t \in Texts[u]
  BY DEF Tables, Settled
<1>2. UNCHANGED vars \/ (Tables' /\ Reconciled(u, t))
  BY <1>1, ReconcileIs
<1>3. CASE UNCHANGED vars
  BY <1>3 DEF vars, NothingElseChanges
<1>4. CASE Tables' /\ Reconciled(u, t)
  <2>1. PICK assigned, ids : Outcome(u, t, assigned, Len(t), ids, Keys(t, ids), nodes', edges')
    BY <1>4 DEF Reconciled
  <2>2. nodes' = nodes
    BY <1>4, <2>1, SettledRowsStay
  <2>3. /\ DOMAIN edges' = DOMAIN edges
        /\ \A e \in DOMAIN edges :
             edges'[e] = edges[e] \/ ShowsOverloads(u, e[1]) \/ ShowsOverloads(u, e[2])
    BY <1>4, <2>1, SettledEdgesStay
  <2> QED
    BY <2>2, <2>3 DEF NothingElseChanges
<1> QED
  BY <1>2, <1>3, <1>4

AgainStep ==
  (synced' = synced /\ <<nodes', edges'>> # <<nodes, edges>>) =>
    \A u \in Uris : (Settled(u) /\ Reconcile(u, synced[u])) => NothingElseChanges(u)

\* Reconciling a text again changes no row: Pass 1 pairs every row with the
\* first symbol of its name, the last one of it is what the row shows again,
\* Pass 4 strikes none, and Pass 5 switches on edges that are on already.
\* Pass 3 finds no row outdated but those of overloaded names.
THEOREM ReconcilingTwiceIsReconcilingOnce ==
  ASSUME ~Reindexing
  PROVE  Spec => ReconcilingAgainChangesNothing
<1> DEFINE Matching == \A v \in Uris : Matches(v)
<1>1. Init => Matching /\ TwoValued
  <2> SUFFICES ASSUME Init PROVE Matching /\ TwoValued
    OBVIOUS
  <2>1. DOMAIN edges = {} /\ synced = [u \in Uris |-> Nothing]
    BY DEF Init
  <2> QED
    BY <2>1 DEF TwoValued, Matches
<1>2. Tables /\ Matching /\ TwoValued /\ [Next]_vars => (Matching /\ TwoValued)'
  BY MatchesStep, TwoValuedStep
<1>3. Tables /\ Matching /\ TwoValued /\ (ContainsByName /\ AllContained) => AgainStep
  BY ReconcilingAgain DEF AgainStep
<1> HIDE DEF Matching
<1> QED
  BY <1>1, <1>2, <1>3, TablesInvariant, ContainmentInvariant, PTL
  DEF Spec, ReconcilingAgainChangesNothing, AgainStep
=============================================================================
