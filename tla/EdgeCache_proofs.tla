-------------------------- MODULE EdgeCache_proofs --------------------------
(***************************************************************************)
(* What the caches of find_callees, find_callers and find_references       *)
(* guarantee, for any symbols, files, texts and number of queries.  The    *)
(* strengthening says what an undisturbed lookup knows at each of its      *)
(* steps: server, graph and files agree, nobody else rebuilds callees, and *)
(* what the graph does not show yet is still to be written.                *)
(***************************************************************************)
EXTENDS EdgeCache, TLAPS

AllTexts == UNION {Texts[f] : f \in Files}
Places == [file : Files, line : Nat]
Job == [pc : {"open", "tell", "check", "drop", "prepare", "ask", "write", "read", "cached"} \cup Correcting,
        kind : {"callees", "callers", "references"}, anchor : Symbols, line : Nat,
        text : AllTexts \cup {None}, todo : SUBSET Places, cold : BOOLEAN, clean : BOOLEAN]
Held == [callee : Symbols, line : Nat, text : AllTexts \cup {None}, found : SUBSET Places]

\* A task holds a method exactly while it corrects a list of callees.
HoldsWell(t) ==
    task[t].pc \in Correcting =>
        /\ task[t].kind = "callees" /\ hand[t] \in Held
        /\ hand[t].text \in Texts[FileOf[hand[t].callee]] \cup {None}

TasksShape ==
    /\ task \in [Tasks -> Job \cup {Idle}]
    /\ \A r \in Refreshes : Working(r) => <<task[r].anchor, task[r].kind>> = r
    /\ \A t \in Tasks : Working(t) => task[t].text \in Texts[FileOf[task[t].anchor]] \cup {None}
    /\ hand \in [Tasks -> Held \cup {None}] /\ \A t \in Tasks : HoldsWell(t)

Shape ==
    /\ disk \in [Files -> AllTexts] /\ seen \in [Files -> AllTexts]
    /\ open \in [Files -> AllTexts \cup {None}]
    /\ \A f \in Files : {disk[f], seen[f]} \subseteq Texts[f] /\ open[f] \in Texts[f] \cup {None}
    /\ analysed \in BOOLEAN /\ events \subseteq Files
    /\ edges \subseteq Symbols \X Symbols \X {"calls", "references"}
    /\ hash \in [Symbols -> AllTexts \cup {None}]
    /\ \A a \in Symbols : hash[a] \in Texts[FileOf[a]] \cup {None}
    /\ warm \subseteq Symbols \X {"callees", "callers", "references"} /\ exact \subseteq Symbols
    /\ watcher # None => watcher.file \in Files /\ watcher.text \in Texts[watcher.file]
    /\ TasksShape

-----------------------------------------------------------------------------
\* Where a symbol is, once everybody agrees.
Spot(s) == [file |-> FileOf[s], line |-> disk[FileOf[s]].at[s]]
Agree == watcher = None /\ \A f \in Files : seen[f] = disk[f] /\ View(f) = disk[f]
Text(a) == disk[FileOf[a]]

Rebuilds(t) == Working(t) /\ task[t].kind = "callees"
                          /\ task[t].pc \in {"prepare", "ask", "write"} \cup Correcting
Clean(t) == Working(t) /\ task[t].clean

\* The callees that a text calls for, and those that may be shown besides.
Wanted(a, text) == UNION {Concrete(d) : d \in CalledBy(a, text)}
Allowed(a, text) == Wanted(a, text) \cup CalledBy(a, text)

\* Where the methods are that implement an interface's.
ImplementedAt(s) == {Spot(i[2]) : i \in {j \in Implements : j[1] = s}}

\* The world stands still around a clean task.
StandsStill(t) ==
    /\ Agree /\ task[t].line = Text(task[t].anchor).at[task[t].anchor]
    /\ \A u \in Tasks \ {t} : ~Rebuilds(u)
    /\ task[t].text \in {None, Text(task[t].anchor)}

\* A clean rebuild of callees: nothing is shown that should not be, and what is to be
\* shown is shown, on its way or in the task's hand.
CalleesOnTheirWay(t) ==
    LET a == task[t].anchor
        called == CalledBy(a, Text(a))
    IN
    Rebuilds(t) =>
        /\ a \notin exact
        /\ Neighbours("callees", a) \subseteq Allowed(a, Text(a))
        /\ task[t].pc \in {"write"} \cup Correcting =>
              /\ task[t].todo \subseteq {Spot(d) : d \in called}
              /\ \A d \in called :
                    \/ Spot(d) \in task[t].todo \/ Concrete(d) \subseteq Neighbours("callees", a)
                    \/ task[t].pc \in Correcting /\ hand[t].callee = d
        /\ task[t].pc \in Correcting =>
              /\ hand[t].callee \in called /\ hand[t].line = Spot(hand[t].callee).line
              /\ task[t].pc = "resolve" => hand[t].found = ImplementedAt(hand[t].callee)

\* A clean lookup of callers or references.
CallersOnTheirWay(t) ==
    LET a == task[t].anchor
        kind == task[t].kind
    IN
    /\ kind # "callees" /\ task[t].pc = "write" =>
          /\ task[t].todo \subseteq {Spot(s) : s \in Callers(a)}
          /\ \A s \in Callers(a) : Spot(s) \in task[t].todo \/ s \in Neighbours(kind, a)
    /\ task[t].cold => kind # "callees" /\ (task[t].pc = "read" => Callers(a) \subseteq Neighbours(kind, a))

Good(t) == StandsStill(t) /\ CalleesOnTheirWay(t) /\ CallersOnTheirWay(t)
CleanIsGood == \A t \in Tasks : Clean(t) => Good(t)

\* A record that nothing disturbed is of the text the graph was reconciled with.
RecordsAreSeen == \A a \in exact : hash[a] = seen[FileOf[a]]

IInv == Shape /\ RecordsAreSeen /\ ExactUnlessDisturbed /\ CleanIsGood

-----------------------------------------------------------------------------
(* Texts and places.                                                       *)

LEMMA TextsAreTexts ==
  ASSUME NEW f \in Files, NEW text \in Texts[f]
  PROVE  /\ text # None /\ text.at \in [SymbolsOf(f) -> Nat] /\ text.calls \subseteq SymbolsOf(f) \X Symbols
         /\ \A r, s \in SymbolsOf(f) : text.at[r] = text.at[s] => r = s
         /\ text \in AllTexts
  BY CacheAssumption DEF AllTexts

LEMMA FilesOfSymbols ==
  ASSUME NEW s \in Symbols
  PROVE  FileOf[s] \in Files /\ s \in SymbolsOf(FileOf[s])
  BY CacheAssumption DEF SymbolsOf

\* When everybody agrees, the server's places are the symbols' own.
LEMMA PlacesAreSpots ==
  ASSUME Shape, Agree, NEW s \in Symbols
  PROVE  Place(s) = Spot(s) /\ Spot(s) \in Places
<1>1. FileOf[s] \in Files /\ s \in SymbolsOf(FileOf[s])
  BY FilesOfSymbols
<1>2. View(FileOf[s]) = disk[FileOf[s]] /\ disk[FileOf[s]] \in Texts[FileOf[s]]
  BY <1>1 DEF Agree, Shape
<1>3. disk[FileOf[s]].at[s] \in Nat
  BY <1>1, <1>2, TextsAreTexts
<1> QED
  BY <1>1, <1>2, <1>3 DEF Place, Spot, Places

\* And a place has one symbol.
LEMMA SpotHasOneNode ==
  ASSUME Shape, Agree, NEW s \in Symbols
  PROVE  NodesAt(Spot(s)) = {s}
<1>1. FileOf[s] \in Files /\ s \in SymbolsOf(FileOf[s])
  BY FilesOfSymbols
<1>2. seen[FileOf[s]] = disk[FileOf[s]] /\ disk[FileOf[s]] \in Texts[FileOf[s]]
  BY <1>1 DEF Agree, Shape
<1>3. \A r \in SymbolsOf(FileOf[s]) : disk[FileOf[s]].at[r] = disk[FileOf[s]].at[s] => r = s
  BY <1>1, <1>2, TextsAreTexts
<1> QED
  BY <1>1, <1>2, <1>3 DEF NodesAt, Spot

\* The symbol the server finds at a symbol's spot.
LEMMA SpotIsAt ==
  ASSUME Shape, Agree, NEW s \in Symbols
  PROVE  At(FileOf[s], Spot(s).line) = {s}
<1>1. FileOf[s] \in Files /\ NodesAt(Spot(s)) = {s}
  BY FilesOfSymbols, SpotHasOneNode
<1>2. View(FileOf[s]) = seen[FileOf[s]] /\ Spot(s).file = FileOf[s]
  BY <1>1 DEF Agree, Spot
<1> QED
  BY <1>1, <1>2 DEF At, NodesAt

\* resolve_outgoing_callee: an interface's method is corrected to those that implement it.
LEMMA ImplementersAreFound ==
  ASSUME Shape, Agree, NEW s \in Symbols
  PROVE  Implementers(FileOf[s], Spot(s).line) = ImplementedAt(s)
<1> DEFINE theirs == {i \in Implements : i[1] = s}
<1>1. {j \in Implements : j[1] \in At(FileOf[s], Spot(s).line)} = theirs
  BY SpotIsAt
<1>2. \A i \in theirs : Place(i[2]) = Spot(i[2])
  BY PlacesAreSpots, CacheAssumption
<1>3. {Place(i[2]) : i \in theirs} = {Spot(i[2]) : i \in theirs}
  BY <1>2
<1> QED
  BY <1>1, <1>3 DEF Implementers, ImplementedAt

LEMMA ImplementersStandForIt ==
  ASSUME Shape, Agree, NEW s \in Symbols, NEW known, known = UNION {NodesAt(p) : p \in ImplementedAt(s)}
  PROVE  (IF known = {} THEN {s} ELSE known) = Concrete(s)
<1> DEFINE theirs == {i \in Implements : i[1] = s}
           methods == {i[2] : i \in theirs}
<1>1. \A i \in theirs : i[2] \in Symbols /\ NodesAt(Spot(i[2])) = {i[2]}
  BY SpotHasOneNode, CacheAssumption
<1>2. ImplementedAt(s) = {Spot(i[2]) : i \in theirs}
  BY DEF ImplementedAt
<1>3. known = methods
  BY <1>1, <1>2
<1>4. Concrete(s) = IF methods = {} THEN {s} ELSE methods
  BY DEF Concrete
<1> QED
  BY <1>3, <1>4

LEMMA NothingImplementsIt ==
  ASSUME NEW s, ~IsInterfaces(s)
  PROVE  Concrete(s) = {s}
<1>1. {i \in Implements : i[1] = s} = {}
  BY DEF IsInterfaces
<1> QED
  BY <1>1 DEF Concrete

\* The server's answer about a symbol at its place is about that symbol.
LEMMA ReportIsOfTheAnchor ==
  ASSUME Shape, Agree, NEW a \in Symbols, NEW kind
  PROVE  Report(kind, FileOf[a], Text(a).at[a]) =
             IF kind = "callees" THEN {Spot(d) : d \in CalledBy(a, Text(a))} ELSE {Spot(s) : s \in Callers(a)}
<1> DEFINE f == FileOf[a]
           there == At(f, Text(a).at[a])
<1>1. there = {a}
  BY SpotIsAt DEF Spot, Text
<1>2. View(f) = Text(a) /\ \A s \in Symbols : View(FileOf[s]) = disk[FileOf[s]] /\ Place(s) = Spot(s)
  BY FilesOfSymbols, PlacesAreSpots DEF Agree, Text
<1>3. {x \in Symbols : \E s \in there : <<s, x>> \in View(f).calls} = CalledBy(a, Text(a))
  BY <1>1, <1>2 DEF CalledBy
<1>4. {x \in Symbols : \E d \in there : <<x, d>> \in View(FileOf[x]).calls} = Callers(a)
  BY <1>1, <1>2 DEF Callers
<1>5. Report(kind, f, Text(a).at[a]) =
        IF kind = "callees"
        THEN {Place(d) : d \in {x \in Symbols : \E s \in there : <<s, x>> \in View(f).calls}}
        ELSE {Place(s) : s \in {x \in Symbols : \E d \in there : <<x, d>> \in View(FileOf[x]).calls}}
  BY DEF Report
<1>6. CalledBy(a, Text(a)) \subseteq Symbols /\ Callers(a) \subseteq Symbols
  BY DEF CalledBy, Callers
<1>7. {Place(d) : d \in CalledBy(a, Text(a))} = {Spot(d) : d \in CalledBy(a, Text(a))}
  BY <1>2, <1>6
<1>8. {Place(d) : d \in Callers(a)} = {Spot(d) : d \in Callers(a)}
  BY <1>2, <1>6
<1> QED
  BY <1>3, <1>4, <1>5, <1>7, <1>8

LEMMA ReportsArePlaces ==
  ASSUME Shape, NEW kind, NEW a \in Symbols, NEW line
  PROVE  Report(kind, FileOf[a], line) \subseteq Places
<1>1. \A s \in Symbols : FileOf[s] \in Files /\ s \in SymbolsOf(FileOf[s])
  BY FilesOfSymbols
<1>2. \A f \in Files : View(f) \in Texts[f]
  BY DEF View, Shape
<1>3. \A s \in Symbols : Place(s) \in Places
  BY <1>1, <1>2, TextsAreTexts DEF Place, Places
<1> QED
  BY <1>3 DEF Report

LEMMA ImplementersArePlaces ==
  ASSUME Shape, NEW f, NEW line
  PROVE  Implementers(f, line) \subseteq Places
<1>1. \A s \in Symbols : FileOf[s] \in Files /\ s \in SymbolsOf(FileOf[s])
  BY FilesOfSymbols
<1>2. \A g \in Files : View(g) \in Texts[g]
  BY DEF View, Shape
<1>3. \A s \in Symbols : Place(s) \in Places
  BY <1>1, <1>2, TextsAreTexts DEF Place, Places
<1>4. \A i \in Implements : i[2] \in Symbols
  BY CacheAssumption
<1> QED
  BY <1>3, <1>4 DEF Implementers

LEMMA NodesAreSymbols ==
  ASSUME Shape
  PROVE  \A p : NodesAt(p) \subseteq Symbols
  BY DEF NodesAt, SymbolsOf

-----------------------------------------------------------------------------
(* Disturbing.                                                             *)

LEMMA JobsOfTasks ==
  ASSUME Shape, NEW t \in Tasks
  PROVE  Working(t) <=> task[t] \in Job
  BY DEF Shape, TasksShape, Working, Job, Idle, Correcting

LEMMA DisturbedFacts ==
  ASSUME Shape, NEW which
  PROVE  /\ Disturbed(which) \in [Tasks -> Job \cup {Idle}]
         /\ \A t \in Tasks :
              /\ Disturbed(which)[t].pc = task[t].pc
              /\ t \notin which => Disturbed(which)[t] = task[t]
              /\ Working(t) => /\ Disturbed(which)[t] \in Job
                               /\ Disturbed(which)[t].kind = task[t].kind
                               /\ Disturbed(which)[t].anchor = task[t].anchor
                               /\ Disturbed(which)[t].text = task[t].text
                               /\ Disturbed(which)[t].todo = task[t].todo
              /\ Working(t) /\ t \in which => ~Disturbed(which)[t].clean
<1>1. ASSUME NEW t \in Tasks, Working(t)
      PROVE  /\ [task[t] EXCEPT !.clean = FALSE] \in Job
             /\ ~[task[t] EXCEPT !.clean = FALSE].clean
             /\ [task[t] EXCEPT !.clean = FALSE].pc = task[t].pc
             /\ [task[t] EXCEPT !.clean = FALSE].kind = task[t].kind
             /\ [task[t] EXCEPT !.clean = FALSE].anchor = task[t].anchor
             /\ [task[t] EXCEPT !.clean = FALSE].text = task[t].text
             /\ [task[t] EXCEPT !.clean = FALSE].todo = task[t].todo
  BY <1>1, JobsOfTasks DEF Job
<1>2. \A t \in Tasks : Disturbed(which)[t] = IF t \in which /\ Working(t)
                                              THEN [task[t] EXCEPT !.clean = FALSE] ELSE task[t]
  BY DEF Disturbed
<1>3. \A t \in Tasks : task[t] \in Job \cup {Idle}
  BY DEF Shape, TasksShape
<1>4. \A t \in Tasks : Disturbed(which)[t] \in Job \cup {Idle}
  BY <1>1, <1>2, <1>3
<1> QED
  BY <1>1, <1>2, <1>4, JobsOfTasks DEF Disturbed

-----------------------------------------------------------------------------
(* What a step leaves alone.                                               *)

LEMMA RecordsStay ==
  ASSUME RecordsAreSeen, ExactUnlessDisturbed, exact' \subseteq exact,
         \A a \in exact' : /\ hash'[a] = hash[a] /\ seen'[FileOf[a]] = seen[FileOf[a]]
                           /\ Neighbours("callees", a)' = Neighbours("callees", a)
  PROVE  RecordsAreSeen' /\ ExactUnlessDisturbed'
<1>1. RecordsAreSeen'
  BY DEF RecordsAreSeen
<1>2. ExactUnlessDisturbed'
  <2> SUFFICES ASSUME NEW a \in exact'
               PROVE  /\ hash'[a] # None
                      /\ Wanted(a, hash'[a]) \subseteq Neighbours("callees", a)'
                      /\ Neighbours("callees", a)' \subseteq Allowed(a, hash'[a])
    BY DEF ExactUnlessDisturbed, Wanted, Allowed
  <2> QED
    BY DEF ExactUnlessDisturbed, Wanted, Allowed
<1> QED
  BY <1>1, <1>2

LEMMA GoodStays ==
  ASSUME NEW t \in Tasks, Clean(t), Good(t), task'[t] = task[t], hand'[t] = hand[t], Agree',
         UNCHANGED <<disk, edges>>, task[t].anchor \in exact' => task[t].anchor \in exact,
         \A u \in Tasks \ {t} : ~Rebuilds(u)'
  PROVE  Good(t)'
<1> DEFINE a == task[t].anchor
<1>1. /\ a' = a /\ Rebuilds(t)' = Rebuilds(t)
      /\ \A s : Spot(s)' = Spot(s) /\ Text(s)' = Text(s) /\ Callers(s)' = Callers(s)
      /\ \A s, kind : Neighbours(kind, s)' = Neighbours(kind, s)
      /\ \A s : ImplementedAt(s)' = ImplementedAt(s)
  BY DEF Rebuilds, Working, Spot, Text, Callers, Neighbours, ImplementedAt
<1>2. StandsStill(t)'
  BY <1>1 DEF Good, StandsStill
<1>3. CalleesOnTheirWay(t)'
  BY <1>1 DEF Good, CalleesOnTheirWay
<1>4. CallersOnTheirWay(t)'
  BY <1>1 DEF Good, CallersOnTheirWay
<1> QED
  BY <1>2, <1>3, <1>4 DEF Good

\* A step of some tasks on their own, which starts no rebuilding.
LEMMA OwnStep ==
  ASSUME IInv, Shape', UNCHANGED <<disk, seen, edges, hash, exact>>, Agree => Agree',
         NEW movers \in SUBSET Tasks, \A u \in Tasks \ movers : task'[u] = task[u] /\ hand'[u] = hand[u],
         \A q \in movers : (Rebuilds(q)' => Rebuilds(q)) /\ (Clean(q)' => Good(q)')
  PROVE  IInv'
<1>1. RecordsAreSeen' /\ ExactUnlessDisturbed'
  BY RecordsStay DEF IInv, Neighbours
<1>2. \A u \in Tasks : Rebuilds(u)' => Rebuilds(u)
  BY DEF Rebuilds, Working
<1>3. ASSUME NEW t \in Tasks, Clean(t)' PROVE Good(t)'
  <2>1. CASE t \in movers
    BY <1>3, <2>1
  <2>2. CASE t \notin movers
    <3>1. task'[t] = task[t] /\ hand'[t] = hand[t] /\ Clean(t)
      BY <1>3, <2>2 DEF Clean, Working
    <3>2. Good(t) /\ Agree
      BY <3>1 DEF IInv, CleanIsGood, Good, StandsStill
    <3>3. \A u \in Tasks \ {t} : ~Rebuilds(u)'
      BY <1>2, <3>2 DEF Good, StandsStill
    <3> QED
      BY <3>1, <3>2, <3>3, GoodStays
  <2> QED
    BY <2>1, <2>2
<1> QED
  BY <1>1, <1>3 DEF IInv, CleanIsGood

-----------------------------------------------------------------------------
(* What changes one task.                                                  *)

\* What a step of one task does to what the tasks hold.
HandChanges(q, j) ==
    /\ hand' \in [Tasks -> Held \cup {None}] /\ \A u \in Tasks \ {q} : hand'[u] = hand[u]
    /\ j.pc \in Correcting =>
          /\ j.kind = "callees" /\ hand'[q] \in Held
          /\ hand'[q].text \in Texts[FileOf[hand'[q].callee]] \cup {None}

LEMMA HandUntouched ==
  ASSUME Shape, NEW q \in Tasks, NEW j, hand' = hand, j.pc \notin Correcting
  PROVE  HandChanges(q, j)
  BY DEF HandChanges, Shape, TasksShape

\* A step that changes one task as given keeps the shape of the tasks.
LEMMA OneTaskChanges ==
  ASSUME Shape, NEW q \in Tasks, Working(q), NEW j \in Job, task' = [task EXCEPT ![q] = j],
         j.anchor = task[q].anchor, j.kind = task[q].kind,
         j.text \in Texts[FileOf[task[q].anchor]] \cup {None}, HandChanges(q, j)
  PROVE  /\ TasksShape' /\ task'[q] = j
         /\ \A u \in Tasks \ {q} : task'[u] = task[u] /\ hand'[u] = hand[u]
<1>1. task'[q] = j /\ \A u \in Tasks \ {q} : task'[u] = task[u] /\ hand'[u] = hand[u]
  BY DEF Shape, TasksShape, HandChanges
<1>2. task' \in [Tasks -> Job \cup {Idle}]
  BY DEF Shape, TasksShape
<1>3. ASSUME NEW r \in Refreshes, Working(r)' PROVE <<task'[r].anchor, task'[r].kind>> = r
  <2>1. r \in Tasks /\ (r # q => task'[r] = task[r])
    BY <1>1 DEF Tasks
  <2> QED
    BY <1>1, <1>3, <2>1 DEF Shape, TasksShape, Working
<1>4. ASSUME NEW t \in Tasks, Working(t)'
      PROVE  task'[t].text \in Texts[FileOf[task'[t].anchor]] \cup {None}
  BY <1>1, <1>4 DEF Shape, TasksShape, Working
<1>5. ASSUME NEW t \in Tasks PROVE HoldsWell(t)'
  <2>1. CASE t = q
    BY <1>1, <2>1 DEF HandChanges, HoldsWell
  <2>2. CASE t # q
    <3>1. HoldsWell(t) /\ task'[t] = task[t] /\ hand'[t] = hand[t]
      BY <1>1, <2>2 DEF Shape, TasksShape
    <3> QED
      BY <3>1 DEF HoldsWell
  <2> QED
    BY <2>1, <2>2
<1>6. hand' \in [Tasks -> Held \cup {None}]
  BY DEF HandChanges
<1> QED
  BY <1>1, <1>2, <1>3, <1>4, <1>5, <1>6 DEF TasksShape

LEMMA ShapeOfTheRest ==
  ASSUME Shape, TasksShape', UNCHANGED <<world, edges, hash, warm, exact>>
  PROVE  Shape' /\ (Agree => Agree')
  BY DEF Shape, Agree, View, world

\* The world goes on standing still around a clean task that takes a step.
LEMMA StillStands ==
  ASSUME NEW q \in Tasks, Good(q), Agree', disk' = disk, \A u \in Tasks \ {q} : ~Rebuilds(u)',
         task'[q].line = task[q].line, task'[q].anchor = task[q].anchor,
         task'[q].text \in {None, Text(task[q].anchor)}
  PROVE  StandsStill(q)'
  BY DEF Good, StandsStill, Text

\* A step that takes a task on, before or after it has something to write: it keeps what
\* it knows of the callees and learns no more than its own text.
MovesOn(t, j) ==
    LET a == task[t].anchor IN
    /\ j.kind = "callees" /\ j.pc \in {"prepare", "ask", "write"} \cup Correcting =>
          task[t].pc \in {"prepare", "ask", "write"} \cup Correcting
    /\ j.pc # "write" \/ ~j.clean
    /\ j.clean =>
          /\ task[t].clean /\ j.line = task[t].line /\ j.todo = task[t].todo
          /\ j.text \in {task[t].text, Text(a)}
          /\ j.cold => task[t].cold \/ j.kind # "callees"
          /\ j.pc = "read" => j.kind = "callees" \/ ~j.cold
          /\ j.pc \in Correcting =>
                /\ task[t].pc \in Correcting
                /\ hand'[t].callee = hand[t].callee /\ hand'[t].line = hand[t].line
                /\ j.pc = "resolve" => hand'[t].found =
                                           Implementers(FileOf[hand[t].callee], hand[t].line)

LEMMA MovingOnPreservesIInv ==
  ASSUME IInv, NEW t \in Tasks, Working(t), NEW j \in Job, task' = [task EXCEPT ![t] = j],
         j.anchor = task[t].anchor, j.kind = task[t].kind,
         j.text \in Texts[FileOf[task[t].anchor]] \cup {None}, HandChanges(t, j), MovesOn(t, j),
         Shape', Agree => Agree', UNCHANGED <<disk, seen, edges, hash, exact>>
  PROVE  IInv'
<1> DEFINE a == task[t].anchor
<1>1. Shape /\ task[t] \in Job /\ a \in Symbols
  BY JobsOfTasks DEF IInv, Job
<1>2. task'[t] = j /\ \A u \in Tasks \ {t} : task'[u] = task[u] /\ hand'[u] = hand[u]
  BY <1>1, OneTaskChanges
<1>3. Rebuilds(t)' => j.kind = "callees" /\ j.pc \in {"prepare", "ask", "write"} \cup Correcting
  BY <1>2 DEF Rebuilds
<1>4. ASSUME Clean(t)' PROVE Good(t)'
  <2>1. Clean(t) /\ j.clean
    BY <1>2, <1>4 DEF Clean, MovesOn
  <2>2. Good(t)
    BY <2>1 DEF IInv, CleanIsGood
  <2>3. Agree' /\ \A u \in Tasks \ {t} : ~Rebuilds(u)'
    BY <1>2, <2>2 DEF Good, StandsStill, Rebuilds, Working
  <2>4. j.text \in {None, Text(a)}
    BY <2>1, <2>2 DEF Good, StandsStill, MovesOn
  <2>5. StandsStill(t)'
    BY <1>2, <2>1, <2>2, <2>3, <2>4, StillStands DEF MovesOn
  <2>6. /\ \A s : Spot(s)' = Spot(s) /\ Text(s)' = Text(s) /\ Callers(s)' = Callers(s)
        /\ \A s, kind : Neighbours(kind, s)' = Neighbours(kind, s)
        /\ \A s : ImplementedAt(s)' = ImplementedAt(s)
    BY DEF Spot, Text, Callers, Neighbours, ImplementedAt
  <2>7. CalleesOnTheirWay(t)'
    <3> SUFFICES ASSUME Rebuilds(t)' PROVE CalleesOnTheirWay(t)'
      BY DEF CalleesOnTheirWay
    <3>1. Rebuilds(t)
      BY <1>3, <2>1 DEF Rebuilds, MovesOn
    <3>2. a \notin exact /\ Neighbours("callees", a) \subseteq Allowed(a, Text(a))
      BY <2>2, <3>1 DEF Good, CalleesOnTheirWay
    <3>3. CASE j.pc \notin Correcting
      BY <1>2, <2>1, <2>6, <3>2, <3>3 DEF CalleesOnTheirWay, MovesOn
    <3>4. CASE j.pc \in Correcting
      <4>1. /\ task[t].pc \in Correcting /\ j.todo = task[t].todo
            /\ hand'[t].callee = hand[t].callee /\ hand'[t].line = hand[t].line
            /\ j.pc = "resolve" => hand'[t].found = Implementers(FileOf[hand[t].callee], hand[t].line)
        BY <2>1, <3>4 DEF MovesOn
      <4>2. /\ hand[t].callee \in CalledBy(a, Text(a)) /\ hand[t].line = Spot(hand[t].callee).line
            /\ task[t].todo \subseteq {Spot(d) : d \in CalledBy(a, Text(a))}
            /\ \A d \in CalledBy(a, Text(a)) :
                  \/ Spot(d) \in task[t].todo \/ Concrete(d) \subseteq Neighbours("callees", a)
                  \/ hand[t].callee = d
        BY <2>2, <3>1, <4>1 DEF Good, CalleesOnTheirWay
      <4>3. Implementers(FileOf[hand[t].callee], hand[t].line) = ImplementedAt(hand[t].callee)
        BY <1>1, <2>2, <4>2, ImplementersAreFound DEF Good, StandsStill, CalledBy
      <4> QED
        BY <1>2, <2>6, <3>2, <3>4, <4>1, <4>2, <4>3 DEF CalleesOnTheirWay
    <3> QED
      BY <3>3, <3>4
  <2>8. CallersOnTheirWay(t)'
    <3>1. j.pc # "write" /\ (j.cold => j.kind # "callees" /\ j.pc # "read")
      BY <2>1, <2>2 DEF MovesOn, Good, CallersOnTheirWay
    <3> QED
      BY <1>2, <3>1 DEF CallersOnTheirWay
  <2> QED
    BY <2>5, <2>7, <2>8 DEF Good
<1>5. Rebuilds(t)' => Rebuilds(t)
  BY <1>3 DEF Rebuilds, MovesOn
<1>6. {t} \in SUBSET Tasks
  OBVIOUS
<1> QED
  BY <1>2, <1>4, <1>5, <1>6, OwnStep

-----------------------------------------------------------------------------
(* The steps of a task, but for its writes.                                *)

LEMMA BeginPreservesIInv ==
  ASSUME IInv, NEW q \in Queries, NEW question \in Questions, Begin(q, question[1], question[2])
  PROVE  IInv'
<1> DEFINE a == question[1]
           kind == question[2]
<1>1. a \in Symbols /\ kind \in {"callees", "callers", "references"} /\ q \in Tasks
  BY CacheAssumption DEF Tasks
<1>2. PICK pc \in {"open", "cached"} : task' = [task EXCEPT ![q] =
          [pc |-> pc, kind |-> kind, anchor |-> a, line |-> seen[FileOf[a]].at[a],
           text |-> None, todo |-> {}, cold |-> FALSE, clean |-> Calm]]
  BY DEF Begin
<1>3. UNCHANGED <<world, store, hand>>
  BY DEF Begin
<1>4. FileOf[a] \in Files /\ seen[FileOf[a]].at[a] \in Nat
  BY <1>1, FilesOfSymbols, TextsAreTexts DEF IInv, Shape
<1>5. task'[q] = [pc |-> pc, kind |-> kind, anchor |-> a, line |-> seen[FileOf[a]].at[a],
                  text |-> None, todo |-> {}, cold |-> FALSE, clean |-> Calm]
  BY <1>1, <1>2 DEF IInv, Shape, TasksShape
<1>6. \A u \in Tasks \ {q} : task'[u] = task[u] /\ hand'[u] = hand[u]
  BY <1>2, <1>3 DEF IInv, Shape, TasksShape
<1>7. Calm \in BOOLEAN
  BY DEF Calm
<1>8. task'[q] \in Job /\ task'[q].pc \notin Correcting
  BY <1>1, <1>4, <1>5, <1>7 DEF Job, Correcting
<1>9. TasksShape'
  <2>1. q \notin Refreshes
    BY CacheAssumption DEF Refreshes
  <2>2. \A r \in Refreshes : task'[r] = task[r]
    BY <1>6, <2>1 DEF Tasks
  <2>3. \A r \in Refreshes : Working(r)' => <<task'[r].anchor, task'[r].kind>> = r
    BY <2>2 DEF IInv, Shape, TasksShape, Working
  <2>4. task' \in [Tasks -> Job \cup {Idle}]
    BY <1>1, <1>2, <1>8, <1>5 DEF IInv, Shape, TasksShape
  <2>5. \A t \in Tasks : Working(t)' => task'[t].text \in Texts[FileOf[task'[t].anchor]] \cup {None}
    BY <1>5, <1>6 DEF IInv, Shape, TasksShape, Working
  <2>6. \A t \in Tasks : HoldsWell(t)'
    BY <1>6, <1>8 DEF IInv, Shape, TasksShape, HoldsWell
  <2> QED
    BY <1>3, <2>3, <2>4, <2>5, <2>6 DEF IInv, Shape, TasksShape
<1>10. Shape' /\ (Agree => Agree')
  BY <1>3, <1>9, ShapeOfTheRest DEF IInv, store
<1>11. ASSUME Clean(q)' PROVE Good(q)'
  <2>1. Calm
    BY <1>5, <1>11 DEF Clean
  <2>2. Agree' /\ \A u \in Tasks \ {q} : ~Rebuilds(u)'
    BY <1>1, <1>3, <1>6, <2>1 DEF Calm, Agree, View, world, Rebuilding, Rebuilds, Working
  <2>3. ~Rebuilds(q)' /\ task'[q].pc \notin {"write", "read"} /\ ~task'[q].cold
    BY <1>5 DEF Rebuilds, Correcting
  <2>4. task'[q].line = Text(a)'.at[a] /\ task'[q].anchor = a /\ task'[q].text = None
    BY <1>3, <1>4, <1>5, <2>1 DEF Calm, Text, world
  <2> QED
    BY <2>2, <2>3, <2>4 DEF Good, StandsStill, CalleesOnTheirWay, CallersOnTheirWay
<1>12. ~Rebuilds(q)'
  BY <1>5 DEF Rebuilds, Correcting
<1>13. UNCHANGED <<disk, seen, edges, hash, exact>> /\ {q} \in SUBSET Tasks
  BY <1>1, <1>3 DEF world, store
<1> QED
  BY <1>6, <1>10, <1>11, <1>12, <1>13, OwnStep

LEMMA InitImpliesIInv ==
  ASSUME Init
  PROVE  IInv
<1>1. \A t \in Tasks : task[t] = Idle /\ ~Working(t) /\ task[t].pc \notin Correcting
  BY DEF Init, Working, Idle, Correcting
<1>2. Shape
  <2>1. disk \in [Files -> AllTexts] /\ \A f \in Files : disk[f] \in Texts[f]
    BY DEF Init, AllTexts
  <2>2. task \in [Tasks -> Job \cup {Idle}] /\ hand \in [Tasks -> Held \cup {None}]
    BY DEF Init
  <2>3. \A r \in Refreshes : ~Working(r)
    BY <1>1 DEF Tasks
  <2>4. \A t \in Tasks : HoldsWell(t)
    BY <1>1 DEF HoldsWell
  <2> QED
    BY <1>1, <2>1, <2>2, <2>3, <2>4 DEF Init, Shape, TasksShape
<1> QED
  BY <1>1, <1>2 DEF Init, IInv, RecordsAreSeen, ExactUnlessDisturbed, CleanIsGood, Clean

\* A step of one task that changes neither the world nor the store.
LEMMA QuietMovePreservesIInv ==
  ASSUME IInv, NEW t \in Tasks, Working(t), NEW j \in Job, task' = [task EXCEPT ![t] = j],
         j.anchor = task[t].anchor, j.kind = task[t].kind,
         j.text \in Texts[FileOf[task[t].anchor]] \cup {None}, HandChanges(t, j), MovesOn(t, j),
         UNCHANGED <<world, store>>
  PROVE  IInv'
<1>1. TasksShape'
  BY OneTaskChanges DEF IInv
<1>2. Shape' /\ (Agree => Agree')
  BY <1>1, ShapeOfTheRest DEF IInv, store
<1>3. UNCHANGED <<disk, seen, edges, hash, exact>>
  BY DEF world, store
<1> QED
  BY <1>2, <1>3, MovingOnPreservesIInv

LEMMA TextsOfTasks ==
  ASSUME IInv, NEW t \in Tasks, Working(t)
  PROVE  /\ Shape /\ task[t] \in Job /\ task[t].anchor \in Symbols /\ FileOf[task[t].anchor] \in Files
         /\ task[t].text \in Texts[FileOf[task[t].anchor]] \cup {None}
         /\ disk[FileOf[task[t].anchor]] \in Texts[FileOf[task[t].anchor]]
<1>1. Shape /\ task[t] \in Job /\ task[t].anchor \in Symbols
  BY JobsOfTasks DEF IInv, Job
<1> QED
  BY <1>1, FilesOfSymbols DEF Shape, TasksShape

LEMMA ReadAnchorPreservesIInv ==
  ASSUME IInv, NEW q \in Queries, ReadAnchor(q)
  PROVE  IInv'
<1> DEFINE a == task[q].anchor
           read == [task[q] EXCEPT !.pc = "tell", !.text = disk[FileOf[a]]]
           failed == [task[q] EXCEPT !.pc = "check"]
<1>1. q \in Tasks /\ Working(q) /\ task[q].pc = "open" /\ UNCHANGED <<world, store, hand>>
  BY DEF ReadAnchor, Working, Tasks
<1>2. /\ Shape /\ task[q] \in Job /\ a \in Symbols /\ FileOf[a] \in Files
      /\ task[q].text \in Texts[FileOf[a]] \cup {None} /\ disk[FileOf[a]] \in Texts[FileOf[a]]
  BY <1>1, TextsOfTasks
<1>3. PICK j \in {read, failed} : task' = [task EXCEPT ![q] = j]
  BY DEF ReadAnchor
<1>4. disk[FileOf[a]] \in AllTexts
  BY <1>2, TextsAreTexts
<1>5. /\ j \in Job /\ j.anchor = a /\ j.kind = task[q].kind /\ j.pc \in {"tell", "check"}
      /\ j.line = task[q].line /\ j.cold = task[q].cold /\ j.clean = task[q].clean /\ j.todo = task[q].todo
      /\ j.text \in {task[q].text, disk[FileOf[a]]}
  BY <1>2, <1>3, <1>4 DEF Job
<1>6. HandChanges(q, j)
  BY <1>1, <1>2, <1>5, HandUntouched DEF Correcting
<1>7. MovesOn(q, j)
  BY <1>5 DEF MovesOn, Text, Correcting
<1> HIDE DEF read, failed
<1> QED
  BY <1>1, <1>2, <1>3, <1>5, <1>6, <1>7, QuietMovePreservesIInv

LEMMA CheckHashPreservesIInv ==
  ASSUME IInv, NEW q \in Queries, CheckHash(q)
  PROVE  IInv'
<1>1. q \in Tasks /\ Working(q) /\ task[q].pc = "check" /\ task[q].kind = "callees"
      /\ UNCHANGED <<world, store, hand>>
  BY DEF CheckHash, Working, Tasks
<1>2. Shape /\ task[q] \in Job /\ task[q].text \in Texts[FileOf[task[q].anchor]] \cup {None}
  BY <1>1, TextsOfTasks
<1>3. PICK pc \in {"read", "drop"} : task' = [task EXCEPT ![q] = [task[q] EXCEPT !.pc = pc]]
  BY DEF CheckHash
<1> DEFINE j == [task[q] EXCEPT !.pc = pc]
<1>5. /\ j \in Job /\ j.anchor = task[q].anchor /\ j.kind = task[q].kind /\ j.text = task[q].text
      /\ j.pc = pc /\ j.line = task[q].line /\ j.cold = task[q].cold /\ j.clean = task[q].clean
      /\ j.todo = task[q].todo
  BY <1>2 DEF Job
<1> HIDE DEF j
<1>6. HandChanges(q, j)
  BY <1>1, <1>2, <1>5, HandUntouched DEF Correcting
<1>7. MovesOn(q, j)
  BY <1>1, <1>5 DEF MovesOn, Correcting
<1> QED
  BY <1>1, <1>2, <1>3, <1>5, <1>6, <1>7, QuietMovePreservesIInv DEF j

LEMMA CheckWarmPreservesIInv ==
  ASSUME IInv, NEW q \in Queries, CheckWarm(q)
  PROVE  IInv'
<1> DEFINE cold == <<task[q].anchor, task[q].kind>> \notin warm
           j == [task[q] EXCEPT !.pc = IF cold THEN First(task[q].kind) ELSE "read", !.cold = cold]
<1>1. q \in Tasks /\ Working(q) /\ task[q].pc = "check" /\ task[q].kind # "callees"
      /\ UNCHANGED <<world, store, hand>> /\ task' = [task EXCEPT ![q] = j]
  BY DEF CheckWarm, Working, Tasks
<1>2. Shape /\ task[q] \in Job /\ task[q].text \in Texts[FileOf[task[q].anchor]] \cup {None}
  BY <1>1, TextsOfTasks
<1>5. /\ j \in Job /\ j.anchor = task[q].anchor /\ j.kind = task[q].kind /\ j.text = task[q].text
      /\ j.pc = (IF cold THEN First(task[q].kind) ELSE "read") /\ j.line = task[q].line /\ j.cold = cold
      /\ j.clean = task[q].clean /\ j.todo = task[q].todo
  BY <1>2 DEF Job, First
<1> HIDE DEF j
<1>6. HandChanges(q, j)
  BY <1>1, <1>2, <1>5, HandUntouched DEF Correcting, First
<1>7. MovesOn(q, j)
  BY <1>1, <1>5 DEF MovesOn, Correcting, First
<1> QED
  BY <1>1, <1>2, <1>5, <1>6, <1>7, QuietMovePreservesIInv

LEMMA PreparePreservesIInv ==
  ASSUME IInv, NEW t \in Tasks, Prepare(t)
  PROVE  IInv'
<1> DEFINE there == At(FileOf[task[t].anchor], task[t].line)
           found == [task[t] EXCEPT !.pc = IF there # {} THEN "ask" ELSE "write"]
           failed == [task[t] EXCEPT !.pc = "write", !.clean = FALSE]
<1>1. Working(t) /\ task[t].pc = "prepare" /\ UNCHANGED <<world, store, hand>>
  BY DEF Prepare, Working
<1>2. /\ Shape /\ task[t] \in Job /\ task[t].text \in Texts[FileOf[task[t].anchor]] \cup {None}
      /\ task[t].anchor \in Symbols
  BY <1>1, TextsOfTasks
<1>3. PICK j \in {found, failed} : task' = [task EXCEPT ![t] = j]
  BY DEF Prepare
<1>5. /\ j \in Job /\ j.anchor = task[t].anchor /\ j.kind = task[t].kind /\ j.text = task[t].text
      /\ j.pc \in {"ask", "write"} /\ j.line = task[t].line /\ j.cold = task[t].cold
      /\ j.todo = task[t].todo
  BY <1>2, <1>3 DEF Job
<1>6. HandChanges(t, j)
  BY <1>1, <1>2, <1>5, HandUntouched DEF Correcting
<1>7. j.clean => task[t].clean /\ j.pc = "ask"
  <2> SUFFICES ASSUME j.clean PROVE task[t].clean /\ j.pc = "ask"
    OBVIOUS
  <2>1. j = found /\ task[t].clean
    BY <1>2, <1>3 DEF Job
  <2>2. Good(t)
    BY <1>1, <2>1 DEF IInv, CleanIsGood, Clean
  <2>3. there = {task[t].anchor}
    BY <1>2, <2>2, SpotIsAt DEF Good, StandsStill, Spot, Text
  <2> QED
    BY <1>2, <2>1, <2>3 DEF Job
<1>8. MovesOn(t, j)
  BY <1>1, <1>5, <1>7 DEF MovesOn, Correcting
<1> HIDE DEF found, failed
<1> QED
  BY <1>1, <1>2, <1>3, <1>5, <1>6, <1>8, QuietMovePreservesIInv

LEMMA EverybodyIsDisturbed ==
  ASSUME Shape, NEW which \in SUBSET Tasks, task' = Disturbed(which), hand' = hand
  PROVE  TasksShape' /\ \A t \in which : ~Clean(t)'
<1>1. task' \in [Tasks -> Job \cup {Idle}]
  BY DisturbedFacts
<1>2. ASSUME NEW t \in Tasks
      PROVE  /\ Working(t)' = Working(t) /\ task'[t].pc = task[t].pc
             /\ Working(t) => /\ task'[t].kind = task[t].kind /\ task'[t].anchor = task[t].anchor
                              /\ task'[t].text = task[t].text /\ (t \in which => ~task'[t].clean)
  BY DisturbedFacts DEF Working
<1>3. \A r \in Refreshes : Working(r)' => <<task'[r].anchor, task'[r].kind>> = r
  BY <1>2 DEF Shape, TasksShape, Tasks
<1>4. \A t \in Tasks : Working(t)' => task'[t].text \in Texts[FileOf[task'[t].anchor]] \cup {None}
  BY <1>2 DEF Shape, TasksShape
<1>5. ASSUME NEW t \in Tasks PROVE HoldsWell(t)'
  <2> SUFFICES ASSUME task'[t].pc \in Correcting PROVE HoldsWell(t)'
    BY DEF HoldsWell
  <2>1. Working(t) /\ task[t].pc \in Correcting
    BY <1>2 DEF Correcting, Working
  <2>2. HoldsWell(t)
    BY DEF Shape, TasksShape
  <2> QED
    BY <1>2, <2>1, <2>2 DEF HoldsWell
<1> QED
  BY <1>1, <1>2, <1>3, <1>4, <1>5 DEF Shape, TasksShape, Clean

\* Telling the server a text it has been given.
LEMMA TellingPreservesIInv ==
  ASSUME IInv, NEW t \in Tasks, Working(t), NEW f \in Files, NEW text \in Texts[f] \cup {None}, NEW next,
         Tell(t, f, text, next), next = "check" \/ (next = "implement" /\ task[t].pc = "show")
  PROVE  IInv'
<1> DEFINE j == [task[t] EXCEPT !.pc = next]
<1>1. /\ Shape /\ task[t] \in Job /\ task[t].text \in Texts[FileOf[task[t].anchor]] \cup {None}
      /\ UNCHANGED <<disk, analysed, seen, events, watcher, edges, hash, warm, exact, hand>>
  BY TextsOfTasks DEF Tell, store
<1>2. /\ j \in Job /\ j.anchor = task[t].anchor /\ j.kind = task[t].kind /\ j.text = task[t].text
      /\ j.pc = next /\ j.line = task[t].line /\ j.cold = task[t].cold /\ j.clean = task[t].clean
      /\ j.todo = task[t].todo
  BY <1>1 DEF Job, Correcting
<1>3. HandChanges(t, j)
  <2>1. CASE next = "check"
    BY <1>1, <1>2, <2>1, HandUntouched DEF Correcting
  <2>2. CASE next = "implement"
    <3>1. task[t].pc \in Correcting /\ HoldsWell(t)
      BY <1>1, <2>2 DEF Shape, TasksShape, Correcting
    <3> QED
      BY <1>1, <1>2, <3>1 DEF HandChanges, HoldsWell, Shape, TasksShape
  <2> QED
    BY <2>1, <2>2
<1>4. MovesOn(t, j)
  BY <1>1, <1>2 DEF MovesOn, Correcting
<1>5. open' = [open EXCEPT ![f] = text] \/ open' = open
  BY DEF Tell
<1>6. Shape' <=> TasksShape'
  <2>1. /\ open' \in [Files -> AllTexts \cup {None}]
        /\ \A g \in Files : open'[g] \in Texts[g] \cup {None}
    <3>1. text \in AllTexts \cup {None}
      BY TextsAreTexts
    <3> QED
      BY <1>1, <1>5, <3>1 DEF Shape
  <2> QED
    BY <1>1, <2>1 DEF Shape
<1>7. CASE task' = [task EXCEPT ![t] = j] /\ (open' = open \/ open' = [open EXCEPT ![f] = disk[f]])
  <2>1. TasksShape'
    BY <1>1, <1>2, <1>3, <1>7, OneTaskChanges
  <2>2. Agree => Agree'
    BY <1>1, <1>7 DEF Agree, View, Shape
  <2> HIDE DEF j
  <2> QED
    BY <1>1, <1>2, <1>3, <1>4, <1>6, <1>7, <2>1, <2>2, MovingOnPreservesIInv
<1>8. CASE task' = [Disturbed(Tasks) EXCEPT ![t].pc = next]
  <2> DEFINE rest == Disturbed(Tasks)
             k == [rest[t] EXCEPT !.pc = next]
  <2>1. /\ rest \in [Tasks -> Job \cup {Idle}]
        /\ \A u \in Tasks :
              /\ rest[u].pc = task[u].pc
              /\ Working(u) => /\ rest[u] \in Job /\ rest[u].kind = task[u].kind
                               /\ rest[u].anchor = task[u].anchor /\ rest[u].text = task[u].text
                               /\ ~rest[u].clean
    BY <1>1, DisturbedFacts
  <2> HIDE DEF rest
  <2>2. /\ k \in Job /\ k.pc = next /\ k.kind = task[t].kind /\ k.anchor = task[t].anchor
        /\ k.text = task[t].text /\ ~k.clean
    BY <1>1, <1>2, <2>1 DEF Job
  <2> HIDE DEF k, j
  <2>3. task' \in [Tasks -> Job \cup {Idle}] /\ task'[t] = k /\ \A u \in Tasks \ {t} : task'[u] = rest[u]
    BY <1>8, <2>1, <2>2 DEF rest, k
  <2>4. ASSUME NEW u \in Tasks
        PROVE  /\ Working(u)' = Working(u) /\ (u # t => task'[u].pc = task[u].pc)
               /\ Working(u) => /\ task'[u].kind = task[u].kind /\ task'[u].anchor = task[u].anchor
                                /\ task'[u].text = task[u].text /\ ~task'[u].clean
    <3>1. CASE u = t
      BY <2>2, <2>3, <3>1 DEF Working
    <3>2. CASE u # t
      BY <2>1, <2>3, <3>2 DEF Working
    <3> QED
      BY <3>1, <3>2
  <2>5. \A r \in Refreshes : Working(r)' => <<task'[r].anchor, task'[r].kind>> = r
    BY <1>1, <2>4 DEF Shape, TasksShape, Tasks
  <2>6. \A u \in Tasks : Working(u)' => task'[u].text \in Texts[FileOf[task'[u].anchor]] \cup {None}
    BY <1>1, <2>4 DEF Shape, TasksShape
  <2>7. ASSUME NEW u \in Tasks PROVE HoldsWell(u)'
    <3>1. CASE u = t
      BY <1>2, <1>3, <2>2, <2>3, <3>1 DEF HandChanges, HoldsWell
    <3>2. CASE u # t
      <4> SUFFICES ASSUME task'[u].pc \in Correcting PROVE HoldsWell(u)'
        BY DEF HoldsWell
      <4>1. Working(u) /\ task[u].pc \in Correcting /\ HoldsWell(u)
        BY <1>1, <2>4, <3>2 DEF Correcting, Working, Shape, TasksShape
      <4> QED
        BY <1>1, <2>4, <4>1 DEF HoldsWell
    <3> QED
      BY <3>1, <3>2
  <2>8. Shape'
    BY <1>1, <1>6, <2>3, <2>5, <2>6, <2>7 DEF Shape, TasksShape
  <2>9. RecordsAreSeen' /\ ExactUnlessDisturbed'
    BY <1>1, RecordsStay DEF IInv, Neighbours
  <2> QED
    BY <2>4, <2>8, <2>9 DEF IInv, CleanIsGood, Clean
<1> QED
  BY <1>7, <1>8 DEF Tell

LEMMA OpenAnchorPreservesIInv ==
  ASSUME IInv, NEW q \in Queries, OpenAnchor(q)
  PROVE  IInv'
<1>1. q \in Tasks /\ Working(q) /\ Tell(q, FileOf[task[q].anchor], task[q].text, "check")
  BY DEF OpenAnchor, Working, Tasks
<1>2. FileOf[task[q].anchor] \in Files /\ task[q].text \in Texts[FileOf[task[q].anchor]] \cup {None}
  BY <1>1, TextsOfTasks
<1> QED
  BY <1>1, <1>2, TellingPreservesIInv

LEMMA HandsOfTasks ==
  ASSUME IInv, NEW t \in Tasks, task[t].pc \in Correcting
  PROVE  /\ Shape /\ Working(t) /\ task[t].kind = "callees" /\ hand[t] \in Held
         /\ hand[t].callee \in Symbols /\ FileOf[hand[t].callee] \in Files
         /\ hand[t].text \in Texts[FileOf[hand[t].callee]] \cup {None}
         /\ disk[FileOf[hand[t].callee]] \in Texts[FileOf[hand[t].callee]]
<1>1. Shape /\ Working(t) /\ HoldsWell(t)
  BY DEF IInv, Shape, TasksShape, Working, Correcting
<1>2. hand[t] \in Held /\ hand[t].callee \in Symbols
  BY <1>1 DEF HoldsWell, Held
<1> QED
  BY <1>1, <1>2, FilesOfSymbols DEF HoldsWell, Shape

LEMMA OpenCalleePreservesIInv ==
  ASSUME IInv, NEW t \in Tasks, OpenCallee(t)
  PROVE  IInv'
<1>1. task[t].pc = "show" /\ Tell(t, FileOf[hand[t].callee], hand[t].text, "implement")
  BY DEF OpenCallee
<1> QED
  BY <1>1, HandsOfTasks, TellingPreservesIInv DEF Correcting

LEMMA ReadCalleePreservesIInv ==
  ASSUME IInv, NEW t \in Tasks, ReadCallee(t)
  PROVE  IInv'
<1> DEFINE c == hand[t].callee
           h == [hand[t] EXCEPT !.text = disk[FileOf[c]]]
<1>1. task[t].pc = "correct" /\ UNCHANGED <<world, store>>
  BY DEF ReadCallee
<1>2. /\ Shape /\ Working(t) /\ task[t].kind = "callees" /\ hand[t] \in Held /\ c \in Symbols
      /\ hand[t].text \in Texts[FileOf[c]] \cup {None} /\ disk[FileOf[c]] \in Texts[FileOf[c]]
      /\ FileOf[c] \in Files
  BY <1>1, HandsOfTasks DEF Correcting
<1>3. PICK pc \in {"show", "implement"} :
        /\ task' = [task EXCEPT ![t] = [task[t] EXCEPT !.pc = pc]]
        /\ hand' = [hand EXCEPT ![t] = h] \/ hand' = hand
  BY DEF ReadCallee
<1> DEFINE j == [task[t] EXCEPT !.pc = pc]
<1>4. task[t] \in Job /\ task[t].text \in Texts[FileOf[task[t].anchor]] \cup {None}
  BY <1>2, TextsOfTasks
<1>5. /\ j \in Job /\ j.anchor = task[t].anchor /\ j.kind = task[t].kind /\ j.text = task[t].text
      /\ j.pc = pc /\ j.line = task[t].line /\ j.cold = task[t].cold /\ j.clean = task[t].clean
      /\ j.todo = task[t].todo
  BY <1>4 DEF Job, Correcting
<1> HIDE DEF j
<1>6. disk[FileOf[c]] \in AllTexts
  BY <1>2, TextsAreTexts
<1>7. h \in Held /\ h.callee = c /\ h.line = hand[t].line /\ h.text = disk[FileOf[c]]
  BY <1>2, <1>6 DEF Held
<1> HIDE DEF h
<1>8. /\ hand'[t] \in {h, hand[t]} /\ hand' \in [Tasks -> Held \cup {None}]
      /\ \A u \in Tasks \ {t} : hand'[u] = hand[u]
  BY <1>2, <1>3, <1>7 DEF Shape, TasksShape
<1>9. HandChanges(t, j)
  BY <1>2, <1>5, <1>7, <1>8 DEF HandChanges
<1>10. MovesOn(t, j)
  BY <1>1, <1>5, <1>7, <1>8 DEF MovesOn, Correcting
<1> QED
  BY <1>1, <1>2, <1>3, <1>4, <1>5, <1>9, <1>10, QuietMovePreservesIInv DEF j

LEMMA AskImplementationPreservesIInv ==
  ASSUME IInv, NEW t \in Tasks, AskImplementation(t)
  PROVE  IInv'
<1> DEFINE c == hand[t].callee
           all == Implementers(FileOf[c], hand[t].line)
<1>1. task[t].pc = "implement" /\ UNCHANGED <<world, store>>
  BY DEF AskImplementation
<1>2. /\ Shape /\ Working(t) /\ task[t].kind = "callees" /\ hand[t] \in Held /\ c \in Symbols
      /\ hand[t].text \in Texts[FileOf[c]] \cup {None}
  BY <1>1, HandsOfTasks DEF Correcting
<1>3. PICK some \in SUBSET all, clean \in {FALSE, task[t].clean /\ analysed} :
        /\ task' = [task EXCEPT ![t] = [task[t] EXCEPT !.pc = "resolve", !.clean = clean]]
        /\ hand' = [hand EXCEPT ![t] = [hand[t] EXCEPT !.found = some]] \/ (~clean /\ hand' = hand)
        /\ clean => some = all
  <2>1. Answers(all) \subseteq SUBSET all /\ (analysed => Answers(all) = {all})
    BY DEF Answers
  <2> HIDE DEF all
  <2>2. CASE \E some \in Answers(all) :
               /\ hand' = [hand EXCEPT ![t] = [hand[t] EXCEPT !.found = some]]
               /\ task' = [task EXCEPT ![t] = [task[t] EXCEPT !.pc = "resolve", !.clean = @ /\ analysed]]
    BY <2>1, <2>2
  <2>3. CASE hand' = hand /\ task' = [task EXCEPT ![t] = [task[t] EXCEPT !.pc = "resolve", !.clean = FALSE]]
    BY <2>3
  <2> QED
    BY <2>2, <2>3 DEF AskImplementation, all
<1> DEFINE j == [task[t] EXCEPT !.pc = "resolve", !.clean = clean]
           h == [hand[t] EXCEPT !.found = some]
<1>4. task[t] \in Job /\ task[t].text \in Texts[FileOf[task[t].anchor]] \cup {None} /\ clean \in BOOLEAN
  BY <1>2, <1>3, TextsOfTasks DEF Job
<1>5. /\ j \in Job /\ j.anchor = task[t].anchor /\ j.kind = task[t].kind /\ j.text = task[t].text
      /\ j.pc = "resolve" /\ j.line = task[t].line /\ j.cold = task[t].cold /\ j.clean = clean
      /\ j.todo = task[t].todo
  BY <1>4 DEF Job, Correcting
<1> HIDE DEF j
<1>6. some \subseteq Places
  BY <1>2, ImplementersArePlaces
<1>7. h \in Held /\ h.callee = c /\ h.line = hand[t].line /\ h.text = hand[t].text /\ h.found = some
  BY <1>2, <1>6 DEF Held
<1> HIDE DEF h
<1>8. /\ hand' = [hand EXCEPT ![t] = h] \/ (~clean /\ hand' = hand)
      /\ task' = [task EXCEPT ![t] = j]
  BY <1>3 DEF h, j
<1>9. /\ hand'[t] \in {h, hand[t]} /\ (clean => hand'[t] = h) /\ hand' \in [Tasks -> Held \cup {None}]
      /\ \A u \in Tasks \ {t} : hand'[u] = hand[u]
  BY <1>2, <1>7, <1>8 DEF Shape, TasksShape
<1>10. HandChanges(t, j)
  BY <1>2, <1>5, <1>7, <1>9 DEF HandChanges
<1>11. clean => task[t].clean /\ some = all
  BY <1>3
<1> HIDE DEF all
<1>12. MovesOn(t, j)
  BY <1>1, <1>5, <1>7, <1>9, <1>11 DEF MovesOn, Correcting, all
<1> QED
  BY <1>1, <1>2, <1>4, <1>5, <1>8, <1>10, <1>12, QuietMovePreservesIInv

LEMMA AskPreservesIInv ==
  ASSUME IInv, NEW t \in Tasks, Ask(t)
  PROVE  IInv'
<1> DEFINE a == task[t].anchor
           answered == Report(task[t].kind, FileOf[a], task[t].line)
<1>1. Working(t) /\ task[t].pc = "ask" /\ UNCHANGED <<world, store, hand>>
  BY DEF Ask, Working
<1>2. /\ Shape /\ task[t] \in Job /\ a \in Symbols /\ task[t].text \in Texts[FileOf[a]] \cup {None}
  BY <1>1, TextsOfTasks
<1>3. PICK some \in SUBSET Places, clean \in BOOLEAN :
        /\ task' = [task EXCEPT ![t] = [task[t] EXCEPT !.pc = "write", !.todo = some, !.clean = clean]]
        /\ clean => task[t].clean /\ some = answered
  <2>1. answered \subseteq Places
    BY <1>2, ReportsArePlaces
  <2>2. Answers(answered) \subseteq SUBSET Places /\ (analysed => Answers(answered) = {answered})
    BY <2>1 DEF Answers
  <2>3. task[t].todo \in SUBSET Places /\ task[t].clean \in BOOLEAN /\ analysed \in BOOLEAN
    BY <1>2 DEF Job, Shape
  <2> HIDE DEF answered
  <2>4. CASE \E some \in Answers(answered) : task' = [task EXCEPT ![t] =
               [task[t] EXCEPT !.pc = "write", !.todo = some, !.clean = @ /\ analysed]]
    BY <2>2, <2>3, <2>4
  <2>5. CASE task' = [task EXCEPT ![t] = [task[t] EXCEPT !.pc = "write", !.clean = FALSE]]
    <3>1. [task[t] EXCEPT !.pc = "write", !.clean = FALSE] =
             [task[t] EXCEPT !.pc = "write", !.todo = task[t].todo, !.clean = FALSE]
      BY <1>2 DEF Job
    <3> QED
      BY <2>3, <2>5, <3>1
  <2> QED
    BY <2>4, <2>5 DEF Ask, answered
<1> DEFINE j == [task[t] EXCEPT !.pc = "write", !.todo = some, !.clean = clean]
<1>4. /\ j \in Job /\ j.anchor = a /\ j.kind = task[t].kind /\ j.text = task[t].text /\ j.pc = "write"
      /\ j.line = task[t].line /\ j.cold = task[t].cold /\ j.clean = clean /\ j.todo = some
  BY <1>2 DEF Job
<1> HIDE DEF j
<1>5. task' = [task EXCEPT ![t] = j]
  BY <1>3 DEF j
<1>6. HandChanges(t, j)
  BY <1>1, <1>2, <1>4, HandUntouched DEF Correcting
<1>7. TasksShape' /\ task'[t] = j /\ \A u \in Tasks \ {t} : task'[u] = task[u] /\ hand'[u] = hand[u]
  BY <1>1, <1>2, <1>4, <1>5, <1>6, OneTaskChanges
<1>8. Shape' /\ (Agree => Agree')
  BY <1>1, <1>2, <1>7, ShapeOfTheRest DEF store
<1>10. Rebuilds(t)' => Rebuilds(t)
  BY <1>1, <1>4, <1>7 DEF Rebuilds
<1>11. ASSUME Clean(t)' PROVE Good(t)'
  <2>1. Clean(t) /\ some = answered
    BY <1>1, <1>3, <1>4, <1>7, <1>11 DEF Clean
  <2>2. Good(t)
    BY <2>1 DEF IInv, CleanIsGood
  <2>3. Agree' /\ \A u \in Tasks \ {t} : ~Rebuilds(u)'
    BY <1>7, <1>8, <2>2 DEF Good, StandsStill, Rebuilds, Working
  <2>4. StandsStill(t)'
    <3>1. task[t].text \in {None, Text(a)} /\ disk' = disk
      BY <1>1, <2>2 DEF Good, StandsStill, world
    <3> QED
      BY <1>4, <1>7, <2>2, <2>3, <3>1, StillStands
  <2>5. some = IF task[t].kind = "callees" THEN {Spot(d) : d \in CalledBy(a, Text(a))}
                                           ELSE {Spot(s) : s \in Callers(a)}
    BY <1>2, <2>1, <2>2, ReportIsOfTheAnchor DEF Good, StandsStill
  <2>6. /\ \A s : Spot(s)' = Spot(s) /\ Text(s)' = Text(s) /\ Callers(s)' = Callers(s)
        /\ \A s, kind : Neighbours(kind, s)' = Neighbours(kind, s)
        /\ exact' = exact
    BY <1>1 DEF Spot, Text, Callers, Neighbours, world, store
  <2>7. CalleesOnTheirWay(t)'
    BY <1>1, <1>4, <1>7, <2>2, <2>5, <2>6 DEF CalleesOnTheirWay, Rebuilds, Good, Correcting
  <2>8. CallersOnTheirWay(t)'
    BY <1>1, <1>4, <1>7, <2>2, <2>5, <2>6 DEF CallersOnTheirWay, Good
  <2> QED
    BY <2>4, <2>7, <2>8 DEF Good
<1>12. UNCHANGED <<disk, seen, edges, hash, exact>> /\ {t} \in SUBSET Tasks
  BY <1>1 DEF world, store
<1> QED
  BY <1>7, <1>8, <1>10, <1>11, <1>12, OwnStep

LEMMA MarkMaterializedPreservesIInv ==
  ASSUME IInv, NEW q \in Queries, MarkMaterialized(q)
  PROVE  IInv'
<1> DEFINE a == task[q].anchor
           j == [task[q] EXCEPT !.pc = "read"]
<1>1. /\ q \in Tasks /\ Working(q) /\ task[q].pc = "write" /\ task[q].todo = {} /\ task[q].kind # "callees"
      /\ warm' = warm \cup {<<a, task[q].kind>>}
      /\ task' = [task EXCEPT ![q] = j] /\ UNCHANGED <<world, edges, hash, exact, hand>>
  BY DEF MarkMaterialized, Working, Tasks
<1>2. Shape /\ task[q] \in Job /\ a \in Symbols /\ task[q].text \in Texts[FileOf[a]] \cup {None}
  BY <1>1, TextsOfTasks
<1>3. /\ j \in Job /\ j.anchor = a /\ j.kind = task[q].kind /\ j.text = task[q].text /\ j.pc = "read"
      /\ j.line = task[q].line /\ j.cold = task[q].cold /\ j.clean = task[q].clean
  BY <1>2 DEF Job
<1> HIDE DEF j
<1>4. TasksShape' /\ task'[q] = j /\ \A u \in Tasks \ {q} : task'[u] = task[u] /\ hand'[u] = hand[u]
  <2>1. HandChanges(q, j)
    BY <1>1, <1>2, <1>3, HandUntouched DEF Correcting
  <2> QED
    BY <1>1, <1>2, <1>3, <2>1, OneTaskChanges
<1>5. <<a, task[q].kind>> \in Symbols \X {"callees", "callers", "references"}
  BY <1>2 DEF Job
<1>6. Shape'
  BY <1>1, <1>2, <1>4, <1>5 DEF Shape, world
<1>7. Agree => Agree'
  BY <1>1 DEF Agree, View, world
<1>8. ASSUME Clean(q)' PROVE Good(q)'
  <2>1. Good(q)
    BY <1>1, <1>3, <1>4, <1>8 DEF Clean, IInv, CleanIsGood
  <2>2. Agree' /\ \A u \in Tasks \ {q} : ~Rebuilds(u)'
    BY <1>4, <1>7, <2>1 DEF Good, StandsStill, Rebuilds, Working
  <2>3. StandsStill(q)'
    <3>1. task[q].text \in {None, Text(a)} /\ disk' = disk /\ q \in Tasks
      BY <1>1, <2>1 DEF Good, StandsStill, world
    <3> QED
      BY <1>3, <1>4, <2>1, <2>2, <3>1, StillStands
  <2>4. Callers(a) \subseteq Neighbours(task[q].kind, a)
    BY <1>1, <2>1 DEF Good, CallersOnTheirWay
  <2>5. Callers(a)' = Callers(a) /\ Neighbours(task[q].kind, a)' = Neighbours(task[q].kind, a)
    <3>1. disk' = disk /\ edges' = edges /\ task'[q].anchor = a /\ task'[q].kind = task[q].kind
      BY <1>1, <1>3, <1>4 DEF world
    <3> QED
      BY <3>1 DEF Callers, Neighbours
  <2>6. CalleesOnTheirWay(q)' /\ CallersOnTheirWay(q)'
    BY <1>1, <1>3, <1>4, <2>4, <2>5 DEF CalleesOnTheirWay, CallersOnTheirWay, Rebuilds
  <2> QED
    BY <2>3, <2>6 DEF Good
<1>9. ~Rebuilds(q)'
  BY <1>1, <1>3, <1>4 DEF Rebuilds
<1>10. UNCHANGED <<disk, seen, edges, hash, exact>> /\ {q} \in SUBSET Tasks
  BY <1>1 DEF world
<1> QED
  BY <1>4, <1>6, <1>7, <1>8, <1>9, <1>10, OwnStep

\* A task that ends is no longer part of what has to be kept.
LEMMA TaskEnds ==
  ASSUME IInv, NEW q \in Tasks, task' = [task EXCEPT ![q] = Idle], UNCHANGED <<world, store>>,
         hand' = hand \/ hand' = [hand EXCEPT ![q] = None]
  PROVE  IInv'
<1>1. Shape /\ task'[q] = Idle /\ \A u \in Tasks \ {q} : task'[u] = task[u] /\ hand'[u] = hand[u]
  BY DEF IInv, Shape, TasksShape
<1>2. ~Working(q)' /\ task'[q].pc \notin Correcting
  BY <1>1 DEF Working, Idle, Correcting
<1>3. task' \in [Tasks -> Job \cup {Idle}] /\ hand' \in [Tasks -> Held \cup {None}]
  BY DEF IInv, Shape, TasksShape
<1>4. ASSUME NEW r \in Refreshes, Working(r)' PROVE <<task'[r].anchor, task'[r].kind>> = r
  <2>1. r \in Tasks \ {q}
    BY <1>2, <1>4 DEF Tasks
  <2>2. task'[r] = task[r] /\ Working(r)
    BY <1>1, <1>4, <2>1 DEF Working
  <2> QED
    BY <1>1, <2>2 DEF Shape, TasksShape
<1>5. ASSUME NEW t \in Tasks, Working(t)'
      PROVE  task'[t].text \in Texts[FileOf[task'[t].anchor]] \cup {None}
  <2>1. task'[t] = task[t] /\ Working(t)
    BY <1>1, <1>2, <1>5 DEF Working
  <2> QED
    BY <1>1, <2>1 DEF Shape, TasksShape
<1>6. \A t \in Tasks : HoldsWell(t)'
  BY <1>1, <1>2 DEF Shape, TasksShape, HoldsWell
<1>7. TasksShape'
  BY <1>1, <1>3, <1>4, <1>5, <1>6 DEF Shape, TasksShape
<1>8. Shape' /\ (Agree => Agree')
  BY <1>1, <1>7, ShapeOfTheRest DEF store
<1>9. ~Rebuilds(q)' /\ ~Clean(q)'
  BY <1>2 DEF Rebuilds, Clean
<1>10. UNCHANGED <<disk, seen, edges, hash, exact>> /\ {q} \in SUBSET Tasks
  BY DEF world, store
<1> QED
  BY <1>1, <1>8, <1>9, <1>10, OwnStep

LEMMA AnswerPreservesIInv ==
  ASSUME IInv, NEW q \in Queries, Answer(q)
  PROVE  IInv'
<1> DEFINE fresh == Calm /\ task[q].line = seen[FileOf[task[q].anchor]].at[task[q].anchor]
           j == [task[q] EXCEPT !.pc = First(task[q].kind), !.text = None, !.cold = FALSE, !.clean = fresh]
<1>1. /\ q \in Tasks /\ Working(q) /\ task[q] \in Job /\ Shape /\ q \notin Refreshes /\ task[q].pc = "read"
      /\ UNCHANGED <<world, store, hand>>
  BY JobsOfTasks, CacheAssumption DEF Answer, Working, Tasks, Refreshes, IInv
<1>3. CASE task' = [task EXCEPT ![q] = Idle]
  BY <1>1, <1>3, TaskEnds
<1>4. ASSUME NEW r \in Refreshes, r = <<task[q].anchor, task[q].kind>>, ~Working(r),
             task' = [task EXCEPT ![q] = Idle, ![r] = j]
      PROVE  IInv'
  <2>1. task' = [task EXCEPT ![q] = Idle, ![r] = j]
    BY <1>4
  <2>2. r \in Tasks /\ r # q /\ task[q].kind # "callees" /\ task[q].anchor = r[1] /\ fresh \in BOOLEAN
    BY <1>1, <1>4 DEF Tasks, Refreshes, Calm
  <2>3. /\ j \in Job /\ j.anchor = task[q].anchor /\ j.kind = task[q].kind /\ j.text = None
        /\ j.pc \in {"prepare", "ask"} /\ j.line = task[q].line /\ ~j.cold /\ j.clean = fresh
    BY <1>1, <2>2 DEF Job, First
  <2> HIDE DEF j
  <2>4. task'[q] = Idle /\ task'[r] = j /\ \A u \in Tasks \ {q, r} : task'[u] = task[u] /\ hand'[u] = hand[u]
    BY <1>1, <2>1, <2>2 DEF Shape, TasksShape
  <2>5. task' \in [Tasks -> Job \cup {Idle}]
    BY <1>1, <2>1, <2>3 DEF Shape, TasksShape
  <2>6. ~Working(q)' /\ task'[q].pc \notin Correcting /\ task'[r].pc \notin Correcting
    BY <2>3, <2>4 DEF Working, Idle, Correcting
  <2>7. ASSUME NEW s \in Refreshes, Working(s)' PROVE <<task'[s].anchor, task'[s].kind>> = s
    <3>1. s \in Tasks /\ s # q
      BY <1>1 DEF Tasks
    <3>2. CASE s = r
      BY <1>4, <2>3, <2>4, <3>2
    <3>3. CASE s # r
      BY <1>1, <2>4, <2>7, <3>1, <3>3 DEF Shape, TasksShape, Working
    <3> QED
      BY <3>2, <3>3
  <2>8. ASSUME NEW t \in Tasks, Working(t)'
        PROVE  task'[t].text \in Texts[FileOf[task'[t].anchor]] \cup {None}
    BY <1>1, <2>3, <2>4, <2>6, <2>8 DEF Shape, TasksShape, Working
  <2>9. \A t \in Tasks : HoldsWell(t)'
    BY <1>1, <2>4, <2>6 DEF Shape, TasksShape, HoldsWell
  <2>10. TasksShape'
    BY <1>1, <2>5, <2>7, <2>8, <2>9 DEF Shape, TasksShape
  <2>11. Shape' /\ (Agree => Agree')
    BY <1>1, <2>10, ShapeOfTheRest DEF store
  <2>12. ~Rebuilds(q)' /\ ~Clean(q)' /\ ~Rebuilds(r)'
    BY <2>2, <2>3, <2>4, <2>6 DEF Rebuilds, Clean
  <2>13. ASSUME Clean(r)' PROVE Good(r)'
    <3>1. fresh
      BY <2>3, <2>4, <2>13 DEF Clean
    <3>2. Agree' /\ \A u \in Tasks \ {r} : ~Rebuilds(u)'
      <4>1. Agree /\ \A u \in Tasks : ~Rebuilds(u)
        BY <3>1 DEF Calm, Agree, Rebuilding, Rebuilds
      <4> QED
        BY <2>4, <2>11, <2>12, <4>1 DEF Rebuilds, Working
    <3>3. task'[r].line = Text(task[r].anchor)'.at[task'[r].anchor]
      BY <1>1, <2>2, <2>3, <2>4, <3>1, FilesOfSymbols DEF Calm, Text, world, Job
    <3>4. StandsStill(r)'
      BY <2>3, <2>4, <3>2, <3>3 DEF StandsStill
    <3>5. CalleesOnTheirWay(r)' /\ CallersOnTheirWay(r)'
      BY <2>3, <2>4, <2>12 DEF CalleesOnTheirWay, CallersOnTheirWay
    <3> QED
      BY <3>4, <3>5 DEF Good
  <2>14. UNCHANGED <<disk, seen, edges, hash, exact>> /\ {q, r} \in SUBSET Tasks
    BY <1>1, <2>2 DEF world, store
  <2> QED
    BY <2>4, <2>11, <2>12, <2>13, <2>14, OwnStep
<1>5. CASE <<task[q].anchor, task[q].kind>> \in Refreshes /\ ~Working(<<task[q].anchor, task[q].kind>>)
  BY <1>4, <1>5 DEF Answer
<1> QED
  BY <1>3, <1>5 DEF Answer

\* Steps of the server and of the watcher that touch nothing the tasks know.
LEMMA NothingMuchPreservesIInv ==
  ASSUME IInv, UNCHANGED <<disk, open, seen, task, hand, edges, hash, warm, exact>>,
         analysed' \in BOOLEAN, events' \subseteq Files, watcher' \in {watcher, None}
  PROVE  IInv'
<1>1. Shape' /\ (Agree => Agree')
  BY DEF IInv, Shape, TasksShape, HoldsWell, Working, Agree, View
<1>2. {} \in SUBSET Tasks /\ \A u \in Tasks \ {} : task'[u] = task[u] /\ hand'[u] = hand[u]
  OBVIOUS
<1> QED
  BY <1>1, <1>2, OwnStep

-----------------------------------------------------------------------------
(* The steps that write.                                                   *)

LEMMA InvalidatePreservesIInv ==
  ASSUME IInv, NEW q \in Queries, InvalidateOutgoingCalls(q)
  PROVE  IInv'
<1> DEFINE a == task[q].anchor
           mine == [task[q] EXCEPT !.pc = "prepare"]
           rest == Disturbed(Tasks \ {q})
<1>1. q \in Tasks /\ Working(q) /\ task[q] \in Job /\ Shape /\ task[q].pc = "drop"
  BY JobsOfTasks DEF InvalidateOutgoingCalls, Working, Tasks, IInv
<1>2. /\ edges' = {e \in edges : ~(e[1] = a /\ e[3] = "calls")} /\ exact' = exact \ {a}
      /\ task' = [rest EXCEPT ![q].pc = "prepare"] /\ UNCHANGED <<world, hash, warm, hand>>
  BY DEF InvalidateOutgoingCalls
<1>3. rest \in [Tasks -> Job \cup {Idle}] /\ rest[q] = task[q]
  BY <1>1, DisturbedFacts
<1>4. /\ mine \in Job /\ mine.anchor = a /\ mine.kind = task[q].kind /\ mine.text = task[q].text
      /\ mine.pc = "prepare" /\ mine.line = task[q].line /\ mine.cold = task[q].cold /\ mine.clean = task[q].clean
  BY <1>1 DEF Job
<1>5. task' \in [Tasks -> Job \cup {Idle}] /\ task'[q] = mine /\ \A u \in Tasks \ {q} : task'[u] = rest[u]
  BY <1>1, <1>2, <1>3, <1>4
<1>6. ASSUME NEW u \in Tasks \ {q}
      PROVE  /\ task'[u].pc = task[u].pc /\ Working(u)' = Working(u)
             /\ Working(u) => /\ task'[u].kind = task[u].kind /\ task'[u].anchor = task[u].anchor
                              /\ task'[u].text = task[u].text /\ ~task'[u].clean
  BY <1>1, <1>5, DisturbedFacts DEF Working
<1> HIDE DEF rest, mine
<1>7. ASSUME NEW r \in Refreshes, Working(r)' PROVE <<task'[r].anchor, task'[r].kind>> = r
  <2>1. r \in Tasks \ {q}
    BY CacheAssumption DEF Tasks, Refreshes
  <2> QED
    BY <1>1, <1>6, <1>7, <2>1 DEF Shape, TasksShape
<1>8. ASSUME NEW t \in Tasks, Working(t)'
      PROVE  task'[t].text \in Texts[FileOf[task'[t].anchor]] \cup {None}
  BY <1>1, <1>4, <1>5, <1>6, <1>8 DEF Shape, TasksShape
<1>9. Shape'
  <2>1. ASSUME NEW t \in Tasks PROVE HoldsWell(t)'
    <3>1. CASE t = q
      BY <1>4, <1>5, <3>1 DEF HoldsWell, Correcting
    <3>2. CASE t # q
      <4> SUFFICES ASSUME task'[t].pc \in Correcting PROVE HoldsWell(t)'
        BY DEF HoldsWell
      <4>1. Working(t) /\ task[t].pc \in Correcting /\ HoldsWell(t)
        BY <1>1, <1>6, <3>2 DEF Correcting, Working, Shape, TasksShape
      <4> QED
        BY <1>2, <1>6, <3>2, <4>1 DEF HoldsWell
    <3> QED
      BY <3>1, <3>2
  <2>2. TasksShape'
    BY <1>1, <1>2, <1>5, <1>7, <1>8, <2>1 DEF Shape, TasksShape
  <2> QED
    BY <1>1, <1>2, <2>2 DEF Shape, world
<1>10. RecordsAreSeen' /\ ExactUnlessDisturbed'
  <2>1. exact' \subseteq exact
    BY <1>2
  <2>2. ASSUME NEW b \in exact'
        PROVE  /\ hash'[b] = hash[b] /\ seen'[FileOf[b]] = seen[FileOf[b]]
               /\ Neighbours("callees", b)' = Neighbours("callees", b)
    BY <1>2, <2>2 DEF Neighbours, world
  <2> QED
    BY <2>1, <2>2, RecordsStay DEF IInv
<1>11. ASSUME NEW t \in Tasks, Clean(t)' PROVE Good(t)'
  <2>1. t = q /\ Good(q)
    BY <1>1, <1>4, <1>5, <1>6, <1>11 DEF Clean, IInv, CleanIsGood
  <2>2. Agree'
    BY <1>2, <2>1 DEF Good, StandsStill, Agree, View, world
  <2>3. \A u \in Tasks \ {q} : ~Rebuilds(u)'
    BY <1>6, <2>1 DEF Good, StandsStill, Rebuilds
  <2>4. task[q].text \in {None, Text(a)}
    BY <1>1, <2>1 DEF Good, StandsStill
  <2>5. StandsStill(q)'
    BY <1>1, <1>2, <1>4, <1>5, <2>1, <2>2, <2>3, <2>4, StillStands DEF world
  <2>6. Neighbours("callees", a)' = {} /\ task'[q].anchor \notin exact'
    <3>1. task'[q].anchor = task[q].anchor
      BY <1>4, <1>5
    <3>2. \A s : <<task[q].anchor, s, "calls">> \notin edges'
      BY <1>2
    <3> QED
      BY <1>2, <3>1, <3>2 DEF Neighbours
  <2>7. CalleesOnTheirWay(q)'
    BY <1>4, <1>5, <2>6 DEF CalleesOnTheirWay, Correcting
  <2>8. CallersOnTheirWay(q)'
    BY <1>4, <1>5, <2>1 DEF CallersOnTheirWay, Good
  <2> QED
    BY <2>1, <2>5, <2>7, <2>8 DEF Good
<1> QED
  BY <1>9, <1>10, <1>11 DEF IInv, CleanIsGood

LEMMA SetHashPreservesIInv ==
  ASSUME IInv, NEW q \in Queries, SetCalleesCacheHash(q)
  PROVE  IInv'
<1> DEFINE a == task[q].anchor
           j == [task[q] EXCEPT !.pc = "read"]
<1>1. /\ q \in Tasks /\ Working(q) /\ Rebuilds(q)
      /\ task[q].pc = "write" /\ task[q].todo = {} /\ task[q].kind = "callees"
      /\ task' = [task EXCEPT ![q] = j] /\ UNCHANGED <<world, edges, warm, hand>>
  BY DEF SetCalleesCacheHash, Working, Rebuilds, Tasks
<1>2. /\ task[q].text = None => UNCHANGED <<hash, exact>>
      /\ task[q].text # None =>
            /\ hash' = [hash EXCEPT ![a] = task[q].text]
            /\ exact' = IF task[q].clean THEN exact \cup {a} ELSE exact \ {a}
  BY DEF SetCalleesCacheHash
<1>3. Shape /\ task[q] \in Job /\ a \in Symbols /\ task[q].text \in Texts[FileOf[a]] \cup {None}
  BY <1>1, TextsOfTasks
<1>4. /\ j \in Job /\ j.anchor = a /\ j.kind = "callees" /\ j.text = task[q].text /\ j.pc = "read"
      /\ j.line = task[q].line /\ j.cold = task[q].cold /\ j.clean = task[q].clean
  BY <1>1, <1>3 DEF Job
<1> HIDE DEF j
<1>5. TasksShape' /\ task'[q] = j /\ \A u \in Tasks \ {q} : task'[u] = task[u] /\ hand'[u] = hand[u]
  <2>1. HandChanges(q, j)
    BY <1>1, <1>3, <1>4, HandUntouched DEF Correcting
  <2> QED
    BY <1>1, <1>3, <1>4, <2>1, OneTaskChanges
<1>6. task[q].text \in AllTexts \cup {None}
  BY <1>3 DEF Job
<1>7. Shape'
  <2>1. /\ hash' \in [Symbols -> AllTexts \cup {None}] /\ exact' \subseteq Symbols
        /\ \A b \in Symbols : hash'[b] \in Texts[FileOf[b]] \cup {None}
    BY <1>2, <1>3, <1>6 DEF Shape
  <2> QED
    BY <1>1, <1>3, <1>5, <2>1 DEF Shape, world
<1>8. task[q].clean => Good(q)
  BY <1>1 DEF IInv, CleanIsGood, Clean
<1>9. ASSUME task[q].clean, task[q].text # None
      PROVE  /\ task[q].text = seen[FileOf[a]]
             /\ Wanted(a, task[q].text) \subseteq Neighbours("callees", a)
             /\ Neighbours("callees", a) \subseteq Allowed(a, task[q].text)
  <2>1. task[q].text = Text(a) /\ Agree
    BY <1>8, <1>9 DEF Good, StandsStill
  <2>2. FileOf[a] \in Files
    BY <1>3, FilesOfSymbols
  <2>3. task[q].text = seen[FileOf[a]]
    BY <2>1, <2>2 DEF Agree, Text
  <2>4. \A d \in CalledBy(a, Text(a)) : Concrete(d) \subseteq Neighbours("callees", a)
    BY <1>1, <1>8, <1>9 DEF Good, CalleesOnTheirWay, Correcting
  <2>5. Neighbours("callees", a) \subseteq Allowed(a, Text(a))
    BY <1>1, <1>8, <1>9 DEF Good, CalleesOnTheirWay
  <2> QED
    BY <2>1, <2>3, <2>4, <2>5 DEF Wanted
<1>10. ASSUME NEW b \in exact'
       PROVE  /\ hash'[b] # None /\ hash'[b] = seen'[FileOf[b]]
              /\ Wanted(b, hash'[b]) \subseteq Neighbours("callees", b)'
              /\ Neighbours("callees", b)' \subseteq Allowed(b, hash'[b])
  <2>1. Neighbours("callees", b)' = Neighbours("callees", b) /\ seen' = seen
    BY <1>1 DEF Neighbours, world
  <2>2. CASE b = a /\ task[q].text # None
    <3>1. task[q].clean /\ hash'[b] = task[q].text
      BY <1>2, <1>3, <1>10, <2>2 DEF Shape
    <3> QED
      BY <1>9, <2>1, <2>2, <3>1
  <2>3. CASE b # a \/ task[q].text = None
    <3>1. b \in exact /\ hash'[b] = hash[b]
      BY <1>2, <1>3, <1>10, <2>3 DEF Shape
    <3> QED
      BY <2>1, <3>1 DEF IInv, RecordsAreSeen, ExactUnlessDisturbed, Wanted, Allowed
  <2> QED
    BY <2>2, <2>3
<1>11. RecordsAreSeen' /\ ExactUnlessDisturbed'
  <2>1. RecordsAreSeen'
    BY <1>10 DEF RecordsAreSeen
  <2>2. ExactUnlessDisturbed'
    BY <1>10 DEF ExactUnlessDisturbed, Wanted, Allowed
  <2> QED
    BY <2>1, <2>2
<1>12. ASSUME NEW t \in Tasks, Clean(t)' PROVE Good(t)'
  <2>1. t = q
    <3> SUFFICES ASSUME t # q PROVE FALSE
      OBVIOUS
    <3>1. Clean(t)
      BY <1>5, <1>12 DEF Clean, Working
    <3> QED
      BY <1>1, <3>1 DEF IInv, CleanIsGood, Good, StandsStill
  <2>2. Good(q)
    BY <1>4, <1>5, <1>8, <1>12, <2>1 DEF Clean
  <2>3. Agree' /\ \A u \in Tasks \ {q} : ~Rebuilds(u)'
    BY <1>1, <1>5, <2>2 DEF Good, StandsStill, Rebuilds, Working, Agree, View, world
  <2>4. StandsStill(q)'
    <3>1. task[q].text \in {None, Text(a)} /\ disk' = disk /\ q \in Tasks
      BY <1>1, <2>2 DEF Good, StandsStill, world
    <3> QED
      BY <1>4, <1>5, <2>2, <2>3, <3>1, StillStands
  <2>5. ~task[q].cold
    BY <1>1, <2>2 DEF Good, CallersOnTheirWay
  <2>6. CalleesOnTheirWay(q)' /\ CallersOnTheirWay(q)'
    BY <1>4, <1>5, <2>5 DEF CalleesOnTheirWay, CallersOnTheirWay, Rebuilds, Correcting
  <2> QED
    BY <2>1, <2>4, <2>6 DEF Good
<1> QED
  BY <1>7, <1>11, <1>12 DEF IInv, CleanIsGood

\* What a task goes on with after it has written one place.
GoesOnAs(t, on) ==
    /\ Working(t) /\ task[t].pc \in {"write", "resolve"} /\ on \in Job /\ on.pc = "write"
    /\ on.anchor = task[t].anchor /\ on.kind = task[t].kind /\ on.text = task[t].text
    /\ on.line = task[t].line /\ on.cold = task[t].cold /\ on.clean = task[t].clean
    /\ HandChanges(t, on)

\* What a write of one place does to the tasks and to the shape of the graph.
LEMMA WriteFacts ==
  ASSUME Shape, NEW t \in Tasks, NEW nodes \in SUBSET Symbols, NEW on, GoesOnAs(t, on), Write(t, nodes, on)
  PROVE  /\ Shape' /\ task'[t] = on
         /\ \A u \in Tasks :
              /\ Working(u)' = Working(u)
              /\ Working(u) /\ ~task[t].clean => ~task'[u].clean
              /\ u # t => hand'[u] = hand[u]
              /\ u # t /\ task[t].clean => task'[u] = task[u]
<1> DEFINE new == {Edge(task[t].kind, task[t].anchor, s) : s \in nodes}
           clean == task[t].clean
           pre == IF clean THEN task ELSE Disturbed(Tasks)
<1>1. /\ edges' = edges \cup new /\ exact' = (IF clean THEN exact ELSE exact \ {e[1] : e \in new})
      /\ task' = [pre EXCEPT ![t] = on] /\ UNCHANGED <<world, hash, warm>>
  BY DEF Write
<1>2. task[t] \in Job /\ Working(t) /\ task[t].pc \in {"write", "resolve"} /\ clean \in BOOLEAN
  BY JobsOfTasks DEF GoesOnAs, Job
<1>3. /\ pre \in [Tasks -> Job \cup {Idle}]
      /\ \A u \in Tasks :
            /\ pre[u].pc = task[u].pc
            /\ Working(u) => /\ pre[u] \in Job /\ pre[u].kind = task[u].kind /\ pre[u].anchor = task[u].anchor
                             /\ pre[u].text = task[u].text /\ (~clean => ~pre[u].clean)
            /\ clean => pre[u] = task[u]
  <2>1. CASE clean
    BY <2>1, JobsOfTasks DEF Shape, TasksShape
  <2>2. CASE ~clean
    BY <2>2, DisturbedFacts
  <2> QED
    BY <2>1, <2>2
<1> HIDE DEF pre
<1>4. /\ on \in Job /\ on.pc = "write" /\ on.kind = task[t].kind /\ on.anchor = task[t].anchor
      /\ on.text = task[t].text /\ on.clean = clean
  BY DEF GoesOnAs
<1>5. task' \in [Tasks -> Job \cup {Idle}] /\ task'[t] = on /\ \A u \in Tasks \ {t} : task'[u] = pre[u]
  BY <1>1, <1>3, <1>4
<1>6. ASSUME NEW u \in Tasks
      PROVE  /\ Working(u)' = Working(u) /\ (u # t => task'[u].pc = task[u].pc)
             /\ Working(u) => /\ task'[u].kind = task[u].kind /\ task'[u].anchor = task[u].anchor
                              /\ task'[u].text = task[u].text /\ (~clean => ~task'[u].clean)
             /\ u # t /\ clean => task'[u] = task[u]
  <2>1. CASE u = t
    BY <1>2, <1>4, <1>5, <2>1 DEF Working
  <2>2. CASE u # t
    BY <1>3, <1>5, <2>2 DEF Working
  <2> QED
    BY <2>1, <2>2
<1>7. new \subseteq Symbols \X Symbols \X {"calls", "references"}
  <2>1. \A s \in nodes : Edge(task[t].kind, task[t].anchor, s) \in Symbols \X Symbols \X {"calls", "references"}
    BY <1>2 DEF Edge, TypeOf, Job
  <2> QED
    BY <2>1
<1> HIDE DEF new
<1>8. /\ hand' \in [Tasks -> Held \cup {None}] /\ \A u \in Tasks \ {t} : hand'[u] = hand[u]
  BY DEF GoesOnAs, HandChanges
<1>9. ASSUME NEW u \in Tasks PROVE HoldsWell(u)'
  <2>1. CASE u = t
    BY <1>4, <1>5, <2>1 DEF HoldsWell, Correcting
  <2>2. CASE u # t
    <3> SUFFICES ASSUME task'[u].pc \in Correcting PROVE HoldsWell(u)'
      BY DEF HoldsWell
    <3>1. Working(u) /\ task[u].pc \in Correcting /\ HoldsWell(u)
      BY <1>6, <2>2 DEF Correcting, Working, Shape, TasksShape
    <3> QED
      BY <1>6, <1>8, <2>2, <3>1 DEF HoldsWell
  <2> QED
    BY <2>1, <2>2
<1>10. Shape'
  <2>1. \A r \in Refreshes : Working(r)' => <<task'[r].anchor, task'[r].kind>> = r
    BY <1>6 DEF Shape, TasksShape, Tasks
  <2>2. \A u \in Tasks : Working(u)' => task'[u].text \in Texts[FileOf[task'[u].anchor]] \cup {None}
    BY <1>6 DEF Shape, TasksShape
  <2>3. edges' \subseteq Symbols \X Symbols \X {"calls", "references"} /\ exact' \subseteq Symbols
    BY <1>1, <1>7 DEF Shape
  <2>4. TasksShape'
    BY <1>5, <1>8, <1>9, <2>1, <2>2 DEF TasksShape
  <2> QED
    BY <1>1, <2>3, <2>4 DEF Shape, world
<1> QED
  BY <1>5, <1>6, <1>8, <1>10

\* An edge written from a doubtful answer spoils the records it touches.
LEMMA DoubtfulWrite ==
  ASSUME IInv, NEW t \in Tasks, NEW nodes \in SUBSET Symbols, NEW on, GoesOnAs(t, on), Write(t, nodes, on),
         task[t].clean = FALSE
  PROVE  IInv'
<1> DEFINE new == {Edge(task[t].kind, task[t].anchor, s) : s \in nodes}
<1>1. Shape' /\ \A u \in Tasks : Working(u)' => ~task'[u].clean
  BY WriteFacts DEF IInv, GoesOnAs
<1>2. edges' = edges \cup new /\ exact' = exact \ {e[1] : e \in new} /\ UNCHANGED <<world, hash>>
  BY DEF Write
<1>3. RecordsAreSeen' /\ ExactUnlessDisturbed'
  <2>1. ASSUME NEW a \in exact' PROVE Neighbours("callees", a)' = Neighbours("callees", a)
    <3>1. \A s : <<a, s, "calls">> \notin new
      <4> SUFFICES ASSUME NEW s, <<a, s, "calls">> \in new PROVE FALSE
        OBVIOUS
      <4>1. <<a, s, "calls">>[1] \in {e[1] : e \in new}
        OBVIOUS
      <4> QED
        BY <1>2, <2>1, <4>1
    <3> HIDE DEF new
    <3> QED
      BY <1>2, <3>1 DEF Neighbours
  <2> QED
    BY <1>2, <2>1, RecordsStay DEF IInv, world
<1> QED
  BY <1>1, <1>3 DEF IInv, CleanIsGood, Clean

\* A clean rebuild of callees adds what its text calls for.
LEMMA CleanCalleeWrite ==
  ASSUME IInv, NEW t \in Tasks, task[t].kind = "callees", task[t].clean = TRUE,
         NEW d \in CalledBy(task[t].anchor, Text(task[t].anchor)), NEW nodes, nodes = Concrete(d),
         nodes \in SUBSET Symbols, NEW on, GoesOnAs(t, on), Write(t, nodes, on),
         on.todo \subseteq task[t].todo, task[t].todo \ {Spot(d)} \subseteq on.todo,
         task[t].pc = "resolve" => hand[t].callee = d
  PROVE  IInv'
<1> DEFINE a == task[t].anchor
<1>1. task[t] \in Job /\ Shape /\ a \in Symbols /\ Good(t) /\ Agree /\ Rebuilds(t) /\ a \notin exact
  <2>1. Working(t) /\ task[t].pc \in {"write", "resolve"}
    BY DEF GoesOnAs
  <2>2. Good(t)
    BY <2>1 DEF IInv, CleanIsGood, Clean
  <2> QED
    BY <2>1, <2>2, JobsOfTasks DEF IInv, Good, StandsStill, Rebuilds, CalleesOnTheirWay, Correcting, Job
<1>2. Shape' /\ task'[t] = on /\ \A u \in Tasks \ {t} : task'[u] = task[u]
  BY <1>1, WriteFacts
<1>3. /\ task'[t].pc = "write" /\ task'[t].kind = "callees" /\ task'[t].anchor = a /\ task'[t].line = task[t].line
      /\ task'[t].text = task[t].text /\ task'[t].todo = on.todo /\ task'[t].cold = task[t].cold
  BY <1>2 DEF GoesOnAs
<1>4. /\ edges' = edges \cup {<<a, s, "calls">> : s \in nodes} /\ exact' = exact /\ UNCHANGED <<world, hash>>
  BY DEF Write, Edge
<1>6. d \in Symbols
  BY DEF CalledBy
<1>7. /\ \A s \in nodes : <<a, s, "calls">> \in edges'
      /\ \A b, s : <<b, s, "calls">> \in edges' <=> <<b, s, "calls">> \in edges \/ (b = a /\ s \in nodes)
  BY <1>4
<1>8. /\ {s \in Symbols : <<a, s, "calls">> \in edges'} = Neighbours("callees", a) \cup Concrete(d)
      /\ \A b \in Symbols \ {a} : {s \in Symbols : <<b, s, "calls">> \in edges'} = Neighbours("callees", b)
  BY <1>6, <1>7 DEF Neighbours
<1>9. /\ \A b : Neighbours("callees", b)' = {s \in Symbols : <<b, s, "calls">> \in edges'}
      /\ \A b : Spot(b)' = Spot(b) /\ Text(b)' = Text(b)
      /\ Agree'
  BY <1>1, <1>4 DEF Neighbours, Spot, Text, Agree, View, world
<1>10. RecordsAreSeen' /\ ExactUnlessDisturbed'
  <2>1. ASSUME NEW b \in exact' PROVE Neighbours("callees", b)' = Neighbours("callees", b)
    BY <1>1, <1>4, <1>8, <1>9, <2>1 DEF Shape
  <2> QED
    BY <1>4, <2>1, RecordsStay DEF IInv, world
<1>11. ASSUME NEW u \in Tasks, Clean(u)' PROVE Good(u)'
  <2>1. u = t
    <3> SUFFICES ASSUME u # t PROVE FALSE
      OBVIOUS
    <3>1. Clean(u)
      BY <1>2, <1>11 DEF Clean, Working
    <3> QED
      BY <1>1, <3>1 DEF IInv, CleanIsGood, Good, StandsStill
  <2>2. \A v \in Tasks \ {t} : ~Rebuilds(v)'
    BY <1>1, <1>2 DEF Good, StandsStill, Rebuilds, Working
  <2>3. task[t].text \in {None, Text(a)}
    BY <1>1 DEF Good, StandsStill
  <2>4. StandsStill(t)'
    BY <1>1, <1>3, <1>4, <1>9, <2>2, <2>3, StillStands DEF world
  <2>5. CalleesOnTheirWay(t)'
    <3> DEFINE shown == Neighbours("callees", a)
               shownNext == {s \in Symbols : <<a, s, "calls">> \in edges'}
               called == CalledBy(a, Text(a))
    <3>1. /\ shown \subseteq Allowed(a, Text(a)) /\ task[t].todo \subseteq {Spot(x) : x \in called}
          /\ \A x \in called : Spot(x) \in task[t].todo \/ Concrete(x) \subseteq shown \/ x = d
      <4>1. task[t].pc \in {"write", "resolve"} /\ {"write", "resolve"} \subseteq {"write"} \cup Correcting
            /\ "write" \notin Correcting
        BY DEF GoesOnAs, Correcting
      <4> QED
        BY <1>1, <4>1 DEF Good, CalleesOnTheirWay
    <3>2. shownNext \subseteq Allowed(a, Text(a))
      BY <1>8, <3>1 DEF Allowed, Wanted
    <3>3. ASSUME NEW x \in called PROVE Spot(x) \in task'[t].todo \/ Concrete(x) \subseteq shownNext
      <4>1. CASE Spot(x) # Spot(d)
        BY <1>3, <1>8, <3>1, <4>1
      <4>2. CASE Spot(x) = Spot(d)
        <5>1. x \in Symbols /\ NodesAt(Spot(d)) = {x} /\ NodesAt(Spot(d)) = {d}
          BY <1>1, <1>6, <4>2, SpotHasOneNode DEF CalledBy
        <5> QED
          BY <1>8, <5>1
      <4> QED
        BY <4>1, <4>2
    <3>4. task'[t].todo \subseteq {Spot(x) : x \in called}
      BY <1>3, <3>1
    <3>5. Neighbours("callees", task[t].anchor)' = shownNext /\ Text(task[t].anchor)' = Text(a)
      BY <1>3, <1>9
    <3>6. \A x \in called : Spot(x)' = Spot(x)
      BY <1>9
    <3>7. {Spot(x) : x \in called} = {Spot(x)' : x \in called}
      BY <3>6
    <3>8. CalledBy(task[t].anchor, Text(task[t].anchor))' = called
      BY <1>3, <3>5 DEF CalledBy
    <3>9. Allowed(task[t].anchor, Text(task[t].anchor))' = Allowed(a, Text(a))
      BY <1>3, <3>5 DEF Allowed, Wanted, CalledBy, Concrete
    <3>10. task'[t].anchor \notin exact'
      BY <1>1, <1>3, <1>4
    <3>11. task'[t].pc = "write" /\ "write" \notin Correcting
      BY <1>3 DEF Correcting
    <3> HIDE DEF shown, shownNext, called
    <3> QED
      BY <3>2, <3>3, <3>4, <3>5, <3>6, <3>7, <3>8, <3>9, <3>10, <3>11 DEF CalleesOnTheirWay
  <2>6. ~task[t].cold
    BY <1>1 DEF Good, CallersOnTheirWay
  <2>7. CallersOnTheirWay(t)'
    BY <1>3, <2>6 DEF CallersOnTheirWay
  <2> QED
    BY <2>1, <2>4, <2>5, <2>7 DEF Good
<1> QED
  BY <1>2, <1>10, <1>11 DEF IInv, CleanIsGood

\* What others know survives an edge that the caller's text calls for.
LEMMA TrueEdgesDoNoHarm ==
  ASSUME NEW u \in Tasks, Clean(u), Good(u), task'[u] = task[u], hand'[u] = hand[u],
         Agree', disk' = disk, exact' = exact, edges \subseteq edges', \A v \in Tasks \ {u} : ~Rebuilds(v)', task[u].anchor \in Symbols,
         \A b \in Symbols : Neighbours("callees", b)' \subseteq Neighbours("callees", b) \cup CalledBy(b, Text(b))
  PROVE  Good(u)'
<1> DEFINE a == task[u].anchor
<1>1. /\ task'[u].anchor = a /\ Rebuilds(u)' = Rebuilds(u)
      /\ \A s : Spot(s)' = Spot(s) /\ Text(s)' = Text(s) /\ Callers(s)' = Callers(s)
      /\ \A s, kind : Neighbours(kind, s) \subseteq Neighbours(kind, s)'
      /\ \A s, text : Allowed(s, text)' = Allowed(s, text) /\ CalledBy(s, text)' = CalledBy(s, text)
      /\ \A s : ImplementedAt(s)' = ImplementedAt(s)
  BY DEF Rebuilds, Working, Spot, Text, Callers, Neighbours, Allowed, Wanted, CalledBy, Concrete, ImplementedAt
<1>2. StandsStill(u)'
  BY <1>1 DEF Good, StandsStill
<1>3. CalleesOnTheirWay(u)'
  <2>1. CASE ~Rebuilds(u)
    BY <1>1, <2>1 DEF CalleesOnTheirWay
  <2>2. CASE Rebuilds(u)
    <3> DEFINE called == CalledBy(a, Text(a))
    <3>1. /\ a \notin exact /\ Neighbours("callees", a) \subseteq Allowed(a, Text(a))
          /\ task[u].pc \in {"write"} \cup Correcting =>
                /\ task[u].todo \subseteq {Spot(d) : d \in called}
                /\ \A d \in called :
                      \/ Spot(d) \in task[u].todo \/ Concrete(d) \subseteq Neighbours("callees", a)
                      \/ task[u].pc \in Correcting /\ hand[u].callee = d
          /\ task[u].pc \in Correcting =>
                /\ hand[u].callee \in called /\ hand[u].line = Spot(hand[u].callee).line
                /\ task[u].pc = "resolve" => hand[u].found = ImplementedAt(hand[u].callee)
      BY <2>2 DEF Good, CalleesOnTheirWay
    <3>2. Neighbours("callees", a)' \subseteq Allowed(a, Text(a))
      <4>1. CalledBy(a, Text(a)) \subseteq Allowed(a, Text(a))
        BY DEF Allowed
      <4>2. a' = a
        BY <1>1
      <4> QED
        BY <3>1, <4>1, <4>2
    <3>3. task[u].pc \in {"write"} \cup Correcting => \A d \in called :
              \/ Spot(d) \in task[u].todo \/ Concrete(d) \subseteq Neighbours("callees", a)'
              \/ task[u].pc \in Correcting /\ hand[u].callee = d
      BY <1>1, <3>1
    <3> QED
      BY <1>1, <3>1, <3>2, <3>3 DEF CalleesOnTheirWay
  <2> QED
    BY <2>1, <2>2
<1>4. CallersOnTheirWay(u)'
  <2> DEFINE kind == task[u].kind
  <2>1. Neighbours(kind, a) \subseteq Neighbours(kind, a)' /\ task'[u].kind = kind
    BY <1>1
  <2> QED
    BY <1>1, <2>1 DEF Good, CallersOnTheirWay
<1> QED
  BY <1>2, <1>3, <1>4 DEF Good

\* A clean lookup of callers or references adds what there is.
LEMMA CleanCallerWrite ==
  ASSUME IInv, NEW t \in Tasks, task[t].pc = "write", task[t].kind # "callees", task[t].clean = TRUE,
         NEW p \in task[t].todo, NEW on, GoesOnAs(t, on), Write(t, NodesAt(p), on),
         on.todo = task[t].todo \ {p}
  PROVE  IInv'
<1> DEFINE a == task[t].anchor
           kind == task[t].kind
<1>1. task[t] \in Job /\ Shape /\ a \in Symbols /\ Good(t) /\ Agree /\ ~Rebuilds(t) /\ Clean(t)
  BY JobsOfTasks DEF IInv, CleanIsGood, Clean, Good, StandsStill, Rebuilds, Job, GoesOnAs
<1>2. NodesAt(p) \in SUBSET Symbols
  BY <1>1, NodesAreSymbols
<1>3. Shape' /\ task'[t] = on /\ \A u \in Tasks \ {t} : task'[u] = task[u] /\ hand'[u] = hand[u]
  BY <1>1, <1>2, WriteFacts
<1>4. /\ task'[t].pc = "write" /\ task'[t].kind = kind /\ task'[t].anchor = a /\ task'[t].line = task[t].line
      /\ task'[t].text = task[t].text /\ task'[t].todo = task[t].todo \ {p} /\ task'[t].cold = task[t].cold
  BY <1>1, <1>3 DEF GoesOnAs
<1>5. PICK x \in Callers(a) : p = Spot(x)
  BY <1>1 DEF Good, CallersOnTheirWay
<1>6. x \in Symbols /\ NodesAt(p) = {x} /\ a \in CalledBy(x, Text(x))
  <2>1. x \in Symbols
    BY DEF Callers
  <2> QED
    BY <1>1, <1>5, <2>1, SpotHasOneNode DEF Callers, CalledBy, Text
<1>7. edges' = edges \cup {<<x, a, TypeOf(kind)>>} /\ exact' = exact /\ UNCHANGED <<world, hash>>
  BY <1>6 DEF Write, Edge
<1>8. Agree' /\ disk' = disk
  BY <1>1, <1>7 DEF Agree, View, world
<1>9. ASSUME NEW b \in Symbols
      PROVE  /\ Neighbours("callees", b) \subseteq Neighbours("callees", b)'
             /\ Neighbours("callees", b)' \subseteq Neighbours("callees", b) \cup CalledBy(b, Text(b))
  BY <1>6, <1>7 DEF Neighbours
<1>10. ASSUME NEW b \in exact'
       PROVE  /\ hash'[b] # None /\ hash'[b] = seen'[FileOf[b]]
              /\ Wanted(b, hash'[b]) \subseteq Neighbours("callees", b)'
              /\ Neighbours("callees", b)' \subseteq Allowed(b, hash'[b])
  <2>1. b \in exact /\ b \in Symbols /\ hash'[b] = hash[b] /\ seen' = seen
    BY <1>1, <1>7 DEF Shape, world
  <2>2. hash[b] # None /\ hash[b] = seen[FileOf[b]] /\ Wanted(b, hash[b]) \subseteq Neighbours("callees", b)
        /\ Neighbours("callees", b) \subseteq Allowed(b, hash[b])
    BY <2>1 DEF IInv, RecordsAreSeen, ExactUnlessDisturbed, Wanted, Allowed
  <2>3. hash[b] = Text(b)
    BY <1>1, <2>1, <2>2, FilesOfSymbols DEF Agree, Text
  <2>4. CalledBy(b, hash[b]) \subseteq Allowed(b, hash[b])
    BY DEF Allowed
  <2> QED
    BY <1>9, <2>1, <2>2, <2>3, <2>4
<1>11. RecordsAreSeen' /\ ExactUnlessDisturbed'
  <2>1. RecordsAreSeen'
    BY <1>10 DEF RecordsAreSeen
  <2>2. ExactUnlessDisturbed'
    BY <1>10 DEF ExactUnlessDisturbed, Wanted, Allowed
  <2> QED
    BY <2>1, <2>2
<1>12. \A u \in Tasks : Rebuilds(u)' => u # t /\ Rebuilds(u)
  BY <1>1, <1>3, <1>4 DEF Rebuilds, Working
<1>13. ASSUME NEW u \in Tasks, Clean(u)' PROVE Good(u)'
  <2>1. CASE u # t
    <3>1. task'[u] = task[u] /\ hand'[u] = hand[u] /\ Clean(u)
      BY <1>3, <1>13, <2>1 DEF Clean, Working
    <3>2. Good(u) /\ task[u].anchor \in Symbols
      BY <1>1, <3>1, JobsOfTasks DEF IInv, CleanIsGood, Clean, Job
    <3>3. \A v \in Tasks \ {u} : ~Rebuilds(v)'
      BY <1>12, <3>2 DEF Good, StandsStill
    <3>4. edges \subseteq edges'
      BY <1>7
    <3> QED
      BY <1>7, <1>8, <1>9, <3>1, <3>2, <3>3, <3>4, TrueEdgesDoNoHarm
  <2>2. CASE u = t
    <3>1. \A v \in Tasks \ {t} : ~Rebuilds(v)'
      BY <1>1, <1>12 DEF Good, StandsStill
    <3>2. StandsStill(t)'
      <4>1. task[t].text \in {None, Text(a)}
        BY <1>1 DEF Good, StandsStill
      <4> QED
        BY <1>1, <1>4, <1>8, <3>1, <4>1, StillStands
    <3>3. CalleesOnTheirWay(t)'
      BY <1>4 DEF CalleesOnTheirWay, Rebuilds
    <3>4. /\ task[t].todo \subseteq {Spot(s) : s \in Callers(a)}
          /\ \A s \in Callers(a) : Spot(s) \in task[t].todo \/ s \in Neighbours(kind, a)
      BY <1>1 DEF Good, CallersOnTheirWay
    <3>5. x \in Neighbours(kind, a)' /\ Neighbours(kind, a) \subseteq Neighbours(kind, a)'
      BY <1>4, <1>6, <1>7 DEF Neighbours, TypeOf
    <3>6. ASSUME NEW s \in Callers(a) PROVE Spot(s) \in task'[t].todo \/ s \in Neighbours(kind, a)'
      <4>1. CASE Spot(s) # p
        BY <1>4, <3>4, <3>5, <4>1
      <4>2. CASE Spot(s) = p
        <5>1. s \in Symbols /\ NodesAt(p) = {s}
          BY <1>1, <4>2, SpotHasOneNode DEF Callers
        <5> QED
          BY <1>6, <3>5, <5>1
      <4> QED
        BY <4>1, <4>2
    <3>7. (\A s : Spot(s)' = Spot(s)) /\ Callers(task[t].anchor)' = Callers(a)
      BY <1>4, <1>8 DEF Spot, Callers
    <3>8. CallersOnTheirWay(t)'
      BY <1>4, <3>4, <3>6, <3>7 DEF CallersOnTheirWay
    <3> QED
      BY <2>2, <3>2, <3>3, <3>8 DEF Good
  <2> QED
    BY <2>1, <2>2
<1> QED
  BY <1>3, <1>11, <1>13 DEF IInv, CleanIsGood

LEMMA WriteCallerPreservesIInv ==
  ASSUME IInv, NEW t \in Tasks, WriteCaller(t)
  PROVE  IInv'
<1>1. Working(t) /\ task[t].pc = "write" /\ task[t].kind # "callees" /\ hand' = hand
  BY DEF WriteCaller, Working
<1>2. PICK p \in task[t].todo : Write(t, NodesAt(p), [task[t] EXCEPT !.todo = @ \ {p}])
  BY DEF WriteCaller
<1> DEFINE on == [task[t] EXCEPT !.todo = @ \ {p}]
<1>3. Shape /\ task[t] \in Job
  BY <1>1, TextsOfTasks
<1>4. /\ on \in Job /\ on.anchor = task[t].anchor /\ on.kind = task[t].kind /\ on.text = task[t].text
      /\ on.pc = "write" /\ on.line = task[t].line /\ on.cold = task[t].cold /\ on.clean = task[t].clean
      /\ on.todo = task[t].todo \ {p}
  BY <1>1, <1>3 DEF Job
<1>5. Write(t, NodesAt(p), on)
  BY <1>2
<1> HIDE DEF on
<1>6. GoesOnAs(t, on)
  <2>1. HandChanges(t, on)
    BY <1>1, <1>3, <1>4, HandUntouched DEF Correcting
  <2> QED
    BY <1>1, <1>4, <2>1 DEF GoesOnAs
<1>7. NodesAt(p) \in SUBSET Symbols
  BY <1>3, NodesAreSymbols
<1>8. task[t].clean = TRUE \/ task[t].clean = FALSE
  BY <1>3 DEF Job
<1> QED
  BY <1>1, <1>4, <1>5, <1>6, <1>7, <1>8, CleanCallerWrite, DoubtfulWrite

\* A callee that is no interface's method is written as it is.
LEMMA PlainCalleePreservesIInv ==
  ASSUME IInv, NEW t \in Tasks, task[t].pc = "write", task[t].kind = "callees", hand' = hand,
         NEW p \in task[t].todo, \A s \in NodesAt(p) : ~IsInterfaces(s),
         Write(t, NodesAt(p), [task[t] EXCEPT !.todo = @ \ {p}])
  PROVE  IInv'
<1> DEFINE on == [task[t] EXCEPT !.todo = @ \ {p}]
           a == task[t].anchor
<1>1. Working(t)
  BY DEF Working
<1>2. Shape /\ task[t] \in Job
  BY <1>1, TextsOfTasks
<1>3. /\ on \in Job /\ on.anchor = a /\ on.kind = task[t].kind /\ on.text = task[t].text
      /\ on.pc = "write" /\ on.line = task[t].line /\ on.cold = task[t].cold /\ on.clean = task[t].clean
      /\ on.todo = task[t].todo \ {p}
  BY <1>2 DEF Job
<1>4. Write(t, NodesAt(p), on)
  OBVIOUS
<1> HIDE DEF on
<1>5. GoesOnAs(t, on)
  <2>1. HandChanges(t, on)
    BY <1>2, <1>3, HandUntouched DEF Correcting
  <2> QED
    BY <1>1, <1>3, <2>1 DEF GoesOnAs
<1>6. NodesAt(p) \in SUBSET Symbols
  BY <1>2, NodesAreSymbols
<1>7. CASE task[t].clean = FALSE
  BY <1>4, <1>5, <1>6, <1>7, DoubtfulWrite
<1>8. CASE task[t].clean = TRUE
  <2>1. Good(t) /\ Rebuilds(t)
    BY <1>1, <1>8 DEF IInv, CleanIsGood, Clean, Rebuilds
  <2>2. PICK d \in CalledBy(a, Text(a)) : p = Spot(d)
    BY <2>1 DEF Good, CalleesOnTheirWay
  <2>3. d \in Symbols /\ Agree
    BY <2>1 DEF CalledBy, Good, StandsStill
  <2>4. NodesAt(p) = {d}
    BY <1>2, <2>2, <2>3, SpotHasOneNode
  <2>5. NodesAt(p) = Concrete(d)
    BY <2>4, NothingImplementsIt
  <2>6. on.todo \subseteq task[t].todo /\ task[t].todo \ {Spot(d)} \subseteq on.todo
    BY <1>3, <2>2
  <2> HIDE DEF a
  <2> QED
    BY <1>4, <1>5, <1>6, <1>8, <2>2, <2>5, <2>6, CleanCalleeWrite DEF a
<1> QED
  BY <1>2, <1>7, <1>8 DEF Job

\* An interface's method is taken in hand.
LEMMA TakingInHandPreservesIInv ==
  ASSUME IInv, NEW t \in Tasks, task[t].pc = "write", task[t].kind = "callees", UNCHANGED <<world, store>>,
         NEW p \in task[t].todo, NEW s \in NodesAt(p),
         hand' = [hand EXCEPT ![t] = [callee |-> s, line |-> p.line, text |-> None, found |-> {}]],
         task' = [task EXCEPT ![t] = [task[t] EXCEPT !.pc = "correct", !.todo = @ \ {p}]]
  PROVE  IInv'
<1> DEFINE j == [task[t] EXCEPT !.pc = "correct", !.todo = @ \ {p}]
           h == [callee |-> s, line |-> p.line, text |-> None, found |-> {}]
           a == task[t].anchor
<1>1. Working(t) /\ Rebuilds(t)
  BY DEF Working, Rebuilds
<1>2. /\ Shape /\ task[t] \in Job /\ a \in Symbols /\ task[t].text \in Texts[FileOf[a]] \cup {None}
  BY <1>1, TextsOfTasks
<1>3. /\ j \in Job /\ j.anchor = a /\ j.kind = "callees" /\ j.text = task[t].text
      /\ j.pc = "correct" /\ j.line = task[t].line /\ j.cold = task[t].cold /\ j.clean = task[t].clean
      /\ j.todo = task[t].todo \ {p}
  BY <1>2 DEF Job, Correcting
<1>4. task' = [task EXCEPT ![t] = j]
  OBVIOUS
<1> HIDE DEF j
<1>5. s \in Symbols /\ p \in Places
  BY <1>2, NodesAreSymbols DEF Job
<1>6. h \in Held /\ h.callee = s /\ h.line = p.line /\ h.text = None
  BY <1>5 DEF Held, Places
<1>7. hand' = [hand EXCEPT ![t] = h]
  OBVIOUS
<1> HIDE DEF h
<1>8. /\ hand'[t] = h /\ hand' \in [Tasks -> Held \cup {None}]
      /\ \A u \in Tasks \ {t} : hand'[u] = hand[u]
  <2>1. hand \in [Tasks -> Held \cup {None}]
    BY <1>2 DEF Shape, TasksShape
  <2>2. h \in Held \cup {None}
    BY <1>6
  <2> QED
    BY ONLY <1>7, <2>1, <2>2, t \in Tasks
<1>9. HandChanges(t, j)
  BY <1>3, <1>6, <1>8 DEF HandChanges
<1>10. TasksShape' /\ task'[t] = j /\ \A u \in Tasks \ {t} : task'[u] = task[u] /\ hand'[u] = hand[u]
  BY <1>1, <1>2, <1>3, <1>4, <1>9, OneTaskChanges
<1>11. Shape' /\ (Agree => Agree')
  BY <1>2, <1>10, ShapeOfTheRest DEF store
<1>12. ASSUME Clean(t)' PROVE Good(t)'
  <2>1. Good(t)
    BY <1>1, <1>3, <1>10, <1>12 DEF Clean, IInv, CleanIsGood
  <2>2. Agree' /\ \A u \in Tasks \ {t} : ~Rebuilds(u)'
    BY <1>10, <1>11, <2>1 DEF Good, StandsStill, Rebuilds, Working
  <2>3. StandsStill(t)'
    <3>1. task[t].text \in {None, Text(a)} /\ disk' = disk
      BY <2>1 DEF Good, StandsStill, world
    <3> QED
      BY <1>3, <1>10, <2>1, <2>2, <3>1, StillStands
  <2> DEFINE called == CalledBy(a, Text(a))
  <2>4. /\ a \notin exact /\ Neighbours("callees", a) \subseteq Allowed(a, Text(a))
        /\ task[t].todo \subseteq {Spot(d) : d \in called}
        /\ \A d \in called : Spot(d) \in task[t].todo \/ Concrete(d) \subseteq Neighbours("callees", a)
    BY <1>1, <2>1 DEF Good, CalleesOnTheirWay, Correcting
  <2>5. PICK d \in called : p = Spot(d)
    BY <2>4
  <2>6. d \in Symbols /\ NodesAt(p) = {d}
    BY <1>2, <2>1, <2>5, SpotHasOneNode DEF CalledBy, Good, StandsStill
  <2>7. s = d /\ h.line = Spot(s).line
    BY <1>6, <2>5, <2>6
  <2>8. \A x \in called : Spot(x) \in j.todo \/ Concrete(x) \subseteq Neighbours("callees", a) \/ x = s
    <3>1. ASSUME NEW x \in called, Spot(x) = p PROVE x = s
      <4>1. NodesAt(p) = {x}
        BY <1>2, <2>1, <3>1, SpotHasOneNode DEF CalledBy, Good, StandsStill
      <4> QED
        BY <4>1
    <3> QED
      BY <1>3, <2>4, <3>1
  <2>9. /\ \A x : Spot(x)' = Spot(x) /\ Text(x)' = Text(x)
        /\ \A x : Neighbours("callees", x)' = Neighbours("callees", x)
        /\ exact' = exact
    BY DEF Spot, Text, Neighbours, world, store
  <2>10. /\ task'[t].anchor = a /\ task'[t].todo = j.todo /\ task'[t].pc = "correct"
         /\ hand'[t].callee = s /\ hand'[t].line = h.line
    BY <1>3, <1>6, <1>8, <1>10
  <2>11. CalleesOnTheirWay(t)'
    <3>1. /\ CalledBy(task[t].anchor, Text(task[t].anchor))' = called
          /\ Allowed(task[t].anchor, Text(task[t].anchor))' = Allowed(a, Text(a))
          /\ Neighbours("callees", task[t].anchor)' = Neighbours("callees", a)
      BY <2>9, <2>10 DEF CalledBy, Allowed, Wanted, Concrete
    <3>2. {Spot(x) : x \in called} = {Spot(x)' : x \in called} /\ j.todo \subseteq {Spot(x) : x \in called}
      BY <1>3, <2>4, <2>9
    <3> HIDE DEF called
    <3> QED
      BY <2>4, <2>5, <2>7, <2>8, <2>9, <2>10, <3>1, <3>2 DEF CalleesOnTheirWay
  <2>12. CallersOnTheirWay(t)'
    <3>1. ~task[t].cold
      BY <2>1 DEF Good, CallersOnTheirWay
    <3> QED
      BY <1>3, <1>10, <3>1 DEF CallersOnTheirWay
  <2> QED
    BY <2>3, <2>11, <2>12 DEF Good
<1>13. UNCHANGED <<disk, seen, edges, hash, exact>> /\ {t} \in SUBSET Tasks
  BY DEF world, store
<1> QED
  BY <1>1, <1>10, <1>11, <1>12, <1>13, OwnStep

LEMMA WriteCalleePreservesIInv ==
  ASSUME IInv, NEW t \in Tasks, WriteCallee(t)
  PROVE  IInv'
<1>1. task[t].pc = "write" /\ task[t].kind = "callees"
  BY DEF WriteCallee
<1>2. PICK p \in task[t].todo :
          \/ /\ \A s \in NodesAt(p) : ~IsInterfaces(s)
             /\ Write(t, NodesAt(p), [task[t] EXCEPT !.todo = @ \ {p}])
             /\ UNCHANGED hand
          \/ \E s \in NodesAt(p) :
                /\ IsInterfaces(s)
                /\ hand' = [hand EXCEPT ![t] = [callee |-> s, line |-> p.line, text |-> None, found |-> {}]]
                /\ task' = [task EXCEPT ![t] = [task[t] EXCEPT !.pc = "correct", !.todo = @ \ {p}]]
                /\ UNCHANGED <<world, store, count>>
  BY Zenon DEF WriteCallee
<1>3. CASE /\ \A s \in NodesAt(p) : ~IsInterfaces(s)
           /\ Write(t, NodesAt(p), [task[t] EXCEPT !.todo = @ \ {p}])
           /\ UNCHANGED hand
  BY <1>1, <1>3, PlainCalleePreservesIInv
<1>4. CASE \E s \in NodesAt(p) :
                /\ IsInterfaces(s)
                /\ hand' = [hand EXCEPT ![t] = [callee |-> s, line |-> p.line, text |-> None, found |-> {}]]
                /\ task' = [task EXCEPT ![t] = [task[t] EXCEPT !.pc = "correct", !.todo = @ \ {p}]]
                /\ UNCHANGED <<world, store, count>>
  BY <1>1, <1>4, TakingInHandPreservesIInv
<1> QED
  BY <1>2, <1>3, <1>4

LEMMA WriteCorrectedPreservesIInv ==
  ASSUME IInv, NEW t \in Tasks, WriteCorrected(t)
  PROVE  IInv'
<1> DEFINE known == UNION {NodesAt(p) : p \in hand[t].found}
           c == hand[t].callee
           nodes == IF known = {} THEN {c} ELSE known
           on == [task[t] EXCEPT !.pc = "write"]
           a == task[t].anchor
<1>1. task[t].pc = "resolve" /\ Write(t, nodes, on) /\ hand' = [hand EXCEPT ![t] = None]
  BY DEF WriteCorrected
<1>2. Shape /\ Working(t) /\ task[t].kind = "callees" /\ c \in Symbols
  BY <1>1, HandsOfTasks DEF Correcting
<1>3. task[t] \in Job
  BY <1>2, TextsOfTasks
<1>4. /\ on \in Job /\ on.anchor = a /\ on.kind = task[t].kind /\ on.text = task[t].text
      /\ on.pc = "write" /\ on.line = task[t].line /\ on.cold = task[t].cold /\ on.clean = task[t].clean
      /\ on.todo = task[t].todo
  BY <1>3 DEF Job
<1> HIDE DEF on
<1>5. GoesOnAs(t, on)
  <2>1. HandChanges(t, on)
    BY <1>1, <1>2, <1>4 DEF HandChanges, Shape, TasksShape, Correcting
  <2> QED
    BY <1>1, <1>2, <1>4, <2>1 DEF GoesOnAs
<1>6. nodes \in SUBSET Symbols
  <2>1. known \subseteq Symbols
    BY <1>2, NodesAreSymbols
  <2> QED
    BY <1>2, <2>1
<1>7. CASE task[t].clean = FALSE
  <2> HIDE DEF nodes
  <2> QED
    BY <1>1, <1>5, <1>6, <1>7, DoubtfulWrite
<1>8. CASE task[t].clean = TRUE
  <2>1. Good(t) /\ Rebuilds(t) /\ Agree
    BY <1>1, <1>2, <1>8 DEF IInv, CleanIsGood, Clean, Rebuilds, Correcting, Good, StandsStill
  <2>2. c \in CalledBy(a, Text(a)) /\ hand[t].found = ImplementedAt(c)
    BY <1>1, <2>1 DEF Good, CalleesOnTheirWay, Correcting
  <2>3. known = UNION {NodesAt(p) : p \in ImplementedAt(c)}
    BY <2>2
  <2>4. nodes = Concrete(c)
    <3> HIDE DEF known, c
    <3>1. \A k : k = UNION {NodesAt(p) : p \in ImplementedAt(c)} =>
                    (IF k = {} THEN {c} ELSE k) = Concrete(c)
      BY <1>2, <2>1, ImplementersStandForIt
    <3> QED
      BY <2>3, <3>1
  <2>5. on.todo \subseteq task[t].todo /\ task[t].todo \ {Spot(c)} \subseteq on.todo
    BY <1>4
  <2> HIDE DEF nodes
  <2> QED
    BY <1>1, <1>2, <1>5, <1>6, <1>8, <2>2, <2>4, <2>5, CleanCalleeWrite
<1> QED
  BY <1>3, <1>7, <1>8 DEF Job

-----------------------------------------------------------------------------
(* The steps of the files and the watcher, which disturb every task.       *)

LEMMA EditPreservesIInv ==
  ASSUME IInv, NEW f \in Files, NEW text \in Texts[f], Edit(f, text)
  PROVE  IInv'
<1>1. /\ Shape /\ disk' = [disk EXCEPT ![f] = text] /\ task' = Disturbed(Tasks)
      /\ events' = events \cup {f}
      /\ UNCHANGED <<open, analysed, seen, watcher, edges, hash, warm, exact, hand>>
  BY DEF Edit, IInv, store
<1>2. TasksShape' /\ \A t \in Tasks : ~Clean(t)'
  BY <1>1, EverybodyIsDisturbed
<1>3. Shape'
  BY <1>1, <1>2, TextsAreTexts DEF Shape
<1>4. RecordsAreSeen' /\ ExactUnlessDisturbed'
  BY <1>1, RecordsStay DEF IInv, Neighbours
<1> QED
  BY <1>2, <1>3, <1>4 DEF IInv, CleanIsGood

LEMMA StartReconcilePreservesIInv ==
  ASSUME IInv, NEW f \in Files, StartReconcile(f)
  PROVE  IInv'
<1>1. /\ Shape /\ watcher' = [file |-> f, text |-> disk[f]] /\ open' = [open EXCEPT ![f] = disk[f]]
      /\ events' = events \ {f} /\ task' = Disturbed(Tasks)
      /\ UNCHANGED <<disk, analysed, seen, edges, hash, warm, exact, hand>>
  BY DEF StartReconcile, IInv, store
<1>2. TasksShape' /\ \A t \in Tasks : ~Clean(t)'
  BY <1>1, EverybodyIsDisturbed
<1>3. Shape'
  BY <1>1, <1>2, TextsAreTexts DEF Shape
<1>4. RecordsAreSeen' /\ ExactUnlessDisturbed'
  BY <1>1, RecordsStay DEF IInv, Neighbours
<1> QED
  BY <1>2, <1>3, <1>4 DEF IInv, CleanIsGood

LEMMA CommitReconcilePreservesIInv ==
  ASSUME IInv, CommitReconcile
  PROVE  IInv'
<1> DEFINE f == watcher.file
           moved == {s \in SymbolsOf(f) : seen[f].at[s] # watcher.text.at[s]}
           dead == {e \in edges : {e[1], e[2]} \cap moved # {}}
<1>1. /\ Shape /\ watcher # None /\ seen' = [seen EXCEPT ![f] = watcher.text]
      /\ hash' = [a \in Symbols |-> IF FileOf[a] = f THEN None ELSE hash[a]]
      /\ edges' = edges \ dead /\ exact' = {a \in exact : FileOf[a] # f /\ \A e \in dead : e[1] # a}
      /\ watcher' = None /\ task' = Disturbed(Tasks) /\ UNCHANGED <<disk, open, analysed, events, warm, hand>>
  BY DEF CommitReconcile, IInv
<1> HIDE DEF dead
<1>2. TasksShape' /\ \A t \in Tasks : ~Clean(t)'
  BY <1>1, EverybodyIsDisturbed
<1>3. f \in Files /\ watcher.text \in Texts[f] /\ watcher.text \in AllTexts
  BY <1>1, TextsAreTexts DEF Shape
<1>4. Shape'
  BY <1>1, <1>2, <1>3 DEF Shape
<1>5. ASSUME NEW a \in exact'
      PROVE  /\ hash'[a] = hash[a] /\ seen'[FileOf[a]] = seen[FileOf[a]]
             /\ Neighbours("callees", a)' = Neighbours("callees", a)
  <2>1. a \in Symbols /\ FileOf[a] \in Files /\ FileOf[a] # f /\ \A e \in dead : e[1] # a
    BY <1>1, <1>5, FilesOfSymbols DEF Shape
  <2>2. hash'[a] = hash[a] /\ seen'[FileOf[a]] = seen[FileOf[a]]
    BY <1>1, <1>3, <2>1 DEF Shape
  <2>3. \A s : <<a, s, "calls">> \in edges' <=> <<a, s, "calls">> \in edges
    <3>1. \A s : <<a, s, "calls">> \notin dead
      BY <2>1
    <3> QED
      BY <1>1, <3>1
  <2> QED
    BY <2>2, <2>3 DEF Neighbours
<1>6. exact' \subseteq exact
  BY <1>1
<1>7. RecordsAreSeen' /\ ExactUnlessDisturbed'
  BY <1>5, <1>6, RecordsStay DEF IInv
<1> QED
  BY <1>2, <1>4, <1>7 DEF IInv, CleanIsGood

LEMMA ServerAndEventsPreserveIInv ==
  ASSUME IInv, FinishAnalysis \/ (\E f \in Files : LoseEvent(f)) \/ FailReconcile \/ UNCHANGED vars
  PROVE  IInv'
<1>1. analysed \in BOOLEAN /\ events \subseteq Files
  BY DEF IInv, Shape
<1>2. CASE FinishAnalysis
  BY <1>1, <1>2, NothingMuchPreservesIInv DEF FinishAnalysis, store
<1>3. CASE \E f \in Files : LoseEvent(f)
  BY <1>1, <1>3, NothingMuchPreservesIInv DEF LoseEvent, store
<1>4. CASE FailReconcile
  BY <1>1, <1>4, NothingMuchPreservesIInv DEF FailReconcile, store
<1>5. CASE UNCHANGED vars
  BY <1>1, <1>5, NothingMuchPreservesIInv DEF vars
<1> QED
  BY <1>2, <1>3, <1>4, <1>5

LEMMA NextPreservesIInv ==
  ASSUME IInv, [Next]_vars
  PROVE  IInv'
<1>1. ASSUME NEW q \in Queries, QueryStep(q) PROVE IInv'
  <2>1. CASE AnswerFromCache(q)
    BY <2>1, TaskEnds DEF AnswerFromCache, Tasks
  <2> QED
    BY <1>1, <2>1, ReadAnchorPreservesIInv, OpenAnchorPreservesIInv, CheckHashPreservesIInv,
       InvalidatePreservesIInv, CheckWarmPreservesIInv, SetHashPreservesIInv,
       MarkMaterializedPreservesIInv, AnswerPreservesIInv DEF QueryStep
<1>2. ASSUME NEW t \in Tasks, TaskStep(t) PROVE IInv'
  <2>1. CASE EndRefresh(t)
    BY <2>1, TaskEnds DEF EndRefresh
  <2>2. CASE Fail(t)
    BY <2>2, TaskEnds DEF Fail
  <2> QED
    BY <1>2, <2>1, <2>2, PreparePreservesIInv, AskPreservesIInv, WriteCallerPreservesIInv,
       WriteCalleePreservesIInv, ReadCalleePreservesIInv, OpenCalleePreservesIInv,
       AskImplementationPreservesIInv, WriteCorrectedPreservesIInv DEF TaskStep
<1>3. CASE FilesStep
  BY <1>3, StartReconcilePreservesIInv, EditPreservesIInv, CommitReconcilePreservesIInv,
     ServerAndEventsPreserveIInv DEF FilesStep
<1> QED
  BY <1>1, <1>2, <1>3, BeginPreservesIInv, ServerAndEventsPreserveIInv DEF Next

\* Type correctness of the query engine's caches and tasks: resolve_anchor, find_callees,
\* find_callers and the watcher keep every record within what its reader expects.
THEOREM ShapeIsInvariant == Spec => []Shape
<1>1. Init => IInv
  BY InitImpliesIInv
<1>2. IInv /\ [Next]_vars => IInv'
  BY NextPreservesIInv
<1>3. IInv => Shape
  BY DEF IInv
<1> QED
  BY <1>1, <1>2, <1>3, PTL DEF Spec

\* The content-hash cache (find_callees, set_callees_cache_hash): for any texts, callees
\* recorded by an undisturbed lookup and untouched since are those of the recorded text.
THEOREM CacheIsExactUnlessDisturbed == Spec => []ExactUnlessDisturbed
<1>1. Init => IInv
  BY InitImpliesIInv
<1>2. IInv /\ [Next]_vars => IInv'
  BY NextPreservesIInv
<1>3. IInv => ExactUnlessDisturbed
  BY DEF IInv
<1> QED
  BY <1>1, <1>2, <1>3, PTL DEF Spec

\* Cold anchors (find_callers, find_references): for any number of queries, files and
\* incomplete answers of a server that is still analysing, a first answer shows every
\* caller if the server was through when it was asked and nothing disturbed the lookup;
\* so does the graph when a refresh of that kind ends, whatever came before it.
THEOREM LookupsShowEveryCaller == Spec => LookupsAreComplete
<1>1. Init => IInv
  BY InitImpliesIInv
<1>2. IInv /\ [Next]_vars => IInv'
  BY NextPreservesIInv
<1>3. IInv /\ [Next]_vars =>
        [\A t \in Tasks :
          (/\ Working(t) /\ task[t].clean
           /\ (Answer(t) /\ task[t].cold) \/ EndRefresh(t)) =>
              Callers(task[t].anchor) \subseteq Neighbours(task[t].kind, task[t].anchor)]_vars
  <2> SUFFICES ASSUME IInv, NEW t \in Tasks, Working(t), task[t].clean,
                      (Answer(t) /\ task[t].cold) \/ EndRefresh(t)
               PROVE  Callers(task[t].anchor) \subseteq Neighbours(task[t].kind, task[t].anchor)
    OBVIOUS
  <2>1. Good(t)
    BY DEF IInv, CleanIsGood, Clean
  <2>2. CASE Answer(t) /\ task[t].cold
    BY <2>1, <2>2 DEF Answer, Good, CallersOnTheirWay
  <2>3. CASE EndRefresh(t)
    <3>1. t \in Refreshes /\ task[t].pc = "write" /\ task[t].todo = {}
      BY <2>3 DEF EndRefresh
    <3>2. t[2] = task[t].kind /\ t[2] # "callees"
      BY <3>1 DEF IInv, Shape, TasksShape, Refreshes
    <3> QED
      BY <2>1, <3>1, <3>2 DEF Good, CallersOnTheirWay
  <2> QED
    BY <2>2, <2>3
<1> QED
  BY <1>1, <1>2, <1>3, PTL DEF Spec, LookupsAreComplete

=============================================================================
