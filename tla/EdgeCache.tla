----------------------------- MODULE EdgeCache -----------------------------
(***************************************************************************)
(* How queries fill the graph's edges on demand and when they trust what   *)
(* they find there (query/ops.rs, query/resolver.rs, query/pool.rs): the   *)
(* content-hash cache of find_callees, the cold and warm anchors of        *)
(* find_callers and find_references with their background refresh, and the *)
(* file watcher whose reconciles move and outdate what queries wrote.      *)
(*                                                                         *)
(* A symbol never leaves its file here (GraphReconcile is about that); a   *)
(* text gives each symbol of its file a line and says whom it calls.  A    *)
(* node's fingerprint is its line: the text of a body may change without.  *)
(* An edge the graph holds switched off and one it does not hold are the   *)
(* same to every reader.  The database calls with which one place of an    *)
(* answer becomes edges are one step; every request to the server is its   *)
(* own, and so are the reading of a file and the telling of it.            *)
(***************************************************************************)
EXTENDS Naturals, FiniteSets

CONSTANTS Symbols, Files,
          FileOf,      \* [Symbols -> Files]
          Texts,       \* [Files -> set of [at : [symbols -> line], calls : pairs]]
          Questions,   \* what is asked: pairs of a symbol and callees, callers or references
          Queries,     \* how many may be at work at a time
          Implements,  \* pairs of an interface's method and a method that implements it
          MaxQueries,
          MaxEdits,    \* bound: edits and mishaps
          MaxMishaps,  \* requests and database calls that fail, unreadable files, lost visits
          None

SymbolsOf(f) == {s \in Symbols : FileOf[s] = f}

ASSUME CacheAssumption ==
    /\ FileOf \in [Symbols -> Files]
    /\ Questions \subseteq Symbols \X {"callees", "callers", "references"}
    /\ Implements \subseteq Symbols \X Symbols
    /\ Queries \cap Questions = {}
    /\ \A f \in Files : \A t \in Texts[f] :
          /\ t # None
          /\ t.at \in [SymbolsOf(f) -> Nat]
          /\ \A r, s \in SymbolsOf(f) : t.at[r] = t.at[s] => r = s
          /\ t.calls \subseteq SymbolsOf(f) \X Symbols

VARIABLES
    disk,     \* the text of each file
    open,     \* the text the server was last told, None before the first didOpen
    analysed, \* the server is through with the workspace: before, it may know less
    seen,     \* the text the graph was last reconciled with
    events,   \* files the watcher was told of and has not come to
    edges,    \* the valid calls and references, <<source, target, type>>
    hash,     \* callees_cache: the text an anchor's callees were recorded under
    warm,     \* materialized: <<anchor, kind>>
    task,     \* queries, and the background refresh of each anchor
    hand,     \* the interface's method of an answer that a task is correcting
    watcher,  \* the reconcile in progress, [file, text], or None
    asked, edits, mishaps,  \* counters for the bounds
    exact     \* history: anchors whose recorded callees nothing has disturbed

vars == <<disk, open, analysed, seen, events, edges, hash, warm, task, hand, watcher, asked, edits,
          mishaps, exact>>
store == <<edges, hash, warm, exact>>
world == <<disk, open, analysed, seen, events, watcher>>
count == <<asked, edits, mishaps>>

Refreshes == {r \in Questions : r[2] # "callees"}
Tasks == Queries \cup Refreshes
Idle == [pc |-> "idle"]
Working(t) == task[t].pc # "idle"

Mishap == mishaps < MaxMishaps /\ edits + mishaps < MaxEdits /\ mishaps' = mishaps + 1

Correcting == {"correct", "show", "implement", "resolve"}

TypeOK ==
    /\ \A f \in Files : {disk[f], seen[f]} \subseteq Texts[f] /\ open[f] \in Texts[f] \cup {None}
    /\ analysed \in BOOLEAN /\ events \subseteq Files
    /\ edges \subseteq Symbols \X Symbols \X {"calls", "references"}
    /\ \A a \in Symbols : hash[a] \in Texts[FileOf[a]] \cup {None}
    /\ warm \subseteq Refreshes /\ exact \subseteq Symbols
    /\ \A t \in Tasks :
          /\ task[t].pc \in {"idle", "open", "tell", "check", "drop", "prepare", "ask", "write", "read",
                            "cached"} \cup Correcting
          /\ hand[t] # None <=> task[t].pc \in Correcting

Init ==
    /\ disk \in [Files -> UNION {Texts[f] : f \in Files}] /\ \A f \in Files : disk[f] \in Texts[f]
    /\ seen = disk /\ events = {}
    /\ open = [f \in Files |-> None] /\ analysed = FALSE
    /\ edges = {} /\ hash = [a \in Symbols |-> None] /\ warm = {} /\ exact = {}
    /\ task = [t \in Tasks |-> Idle] /\ hand = [t \in Tasks |-> None]
    /\ watcher = None /\ asked = 0 /\ edits = 0 /\ mishaps = 0

-----------------------------------------------------------------------------
(* What the server knows, and what the graph makes of it.                  *)

\* An opened document is what the server was told, any other what is on disk.
View(f) == IF open[f] = None THEN disk[f] ELSE open[f]
Place(s) == [file |-> FileOf[s], line |-> View(FileOf[s]).at[s]]

At(f, line) == {s \in SymbolsOf(f) : View(f).at[s] = line}

\* The server's answer about whatever is now at the place the graph had for the
\* anchor: the places of those it calls, or of those that call (use) it.
Report(kind, f, line) ==
    IF kind = "callees"
    THEN {Place(d) : d \in {x \in Symbols : \E s \in At(f, line) : <<s, x>> \in View(f).calls}}
    ELSE {Place(s) : s \in {x \in Symbols : \E d \in At(f, line) : <<x, d>> \in View(FileOf[x]).calls}}

\* The methods it says implement what is at that place.
Implementers(f, line) == {Place(i[2]) : i \in {j \in Implements : j[1] \in At(f, line)}}

\* While it is still analysing, any part of an answer may be missing.
Answers(all) == IF analysed THEN {all} ELSE SUBSET all

\* find_node_by_position, in the graph as it is by then.
NodesAt(p) == {s \in SymbolsOf(p.file) : seen[p.file].at[s] = p.line}

\* A method declared in an interface.
IsInterfaces(s) == \E i \in Implements : i[1] = s

TypeOf(kind) == IF kind = "references" THEN "references" ELSE "calls"
Edge(kind, anchor, s) ==
    IF kind = "callees" THEN <<anchor, s, "calls">> ELSE <<s, anchor, TypeOf(kind)>>

-----------------------------------------------------------------------------
(* History: a task is clean while server, graph and files agree and nobody *)
(* else takes edges away under it.                                         *)
Rebuilding == {t \in Tasks : Working(t) /\ task[t].kind = "callees"
                             /\ task[t].pc \in {"prepare", "ask", "write"} \cup Correcting}
Calm == /\ watcher = None /\ Rebuilding = {}
        /\ \A f \in Files : seen[f] = disk[f] /\ View(f) = disk[f]
Disturbed(which) == [t \in Tasks |-> IF t \in which /\ Working(t)
                                     THEN [task[t] EXCEPT !.clean = FALSE] ELSE task[t]]

-----------------------------------------------------------------------------
(* A query.  It holds the activity gate from Begin to its answer.          *)

\* The anchor is resolved to its node, whose place is the graph's.  Without a
\* server the graph is all there is.
Begin(q, a, kind) ==
    /\ ~Working(q) /\ asked < MaxQueries
    /\ asked' = asked + 1
    /\ \E pc \in {"open", "cached"} : task' = [task EXCEPT ![q] =
          [pc |-> pc, kind |-> kind, anchor |-> a, line |-> seen[FileOf[a]].at[a],
           text |-> None, todo |-> {}, cold |-> FALSE, clean |-> Calm]]
    /\ UNCHANGED <<world, store, hand, edits, mishaps>>

\* Read the anchor's file, if it can be read; otherwise the server is told nothing.
ReadAnchor(q) ==
    /\ task[q].pc = "open"
    /\ \/ /\ task' = [task EXCEPT ![q].pc = "tell", ![q].text = disk[FileOf[task[q].anchor]]]
          /\ UNCHANGED mishaps
       \/ Mishap /\ task' = [task EXCEPT ![q].pc = "check"]
    /\ UNCHANGED <<world, store, hand, asked, edits>>

\* Tell the server (didOpen, didChange or nothing); a failure is ignored.  History: a
\* text that has been edited since it was read disturbs everybody.
Tell(t, f, text, next) ==
    /\ \/ /\ open' = [open EXCEPT ![f] = text] /\ UNCHANGED mishaps
          /\ task' = [(IF text = disk[f] THEN task ELSE Disturbed(Tasks)) EXCEPT ![t].pc = next]
       \/ Mishap /\ UNCHANGED open /\ task' = [task EXCEPT ![t].pc = next]
    /\ UNCHANGED <<disk, analysed, seen, events, watcher, store, hand, asked, edits>>

OpenAnchor(q) ==
    task[q].pc = "tell" /\ Tell(q, FileOf[task[q].anchor], task[q].text, "check")

\* find_callees: a recorded text equal to the one just read is trusted; without a
\* text the callees are asked for anew each time.
CheckHash(q) ==
    /\ task[q].pc = "check" /\ task[q].kind = "callees"
    /\ task' = [task EXCEPT ![q].pc =
          IF task[q].text # None /\ hash[task[q].anchor] = task[q].text THEN "read" ELSE "drop"]
    /\ UNCHANGED <<world, store, hand, count>>

\* Mutant: a rebuild keeps what is there.
InvalidateOutgoingCallsNot(q) ==
    /\ task[q].pc = "drop"
    /\ task' = [Disturbed(Tasks \ {q}) EXCEPT ![q].pc = "prepare"]
    /\ exact' = exact \ {task[q].anchor}
    /\ UNCHANGED <<world, hash, warm, edges, hand, count>>

\* find_callees: forget the callees before they are asked for anew.
InvalidateOutgoingCalls(q) ==
    LET a == task[q].anchor IN
    /\ task[q].pc = "drop"
    /\ edges' = {e \in edges : ~(e[1] = a /\ e[3] = "calls")}
    /\ exact' = exact \ {a}
    /\ task' = [Disturbed(Tasks \ {q}) EXCEPT ![q].pc = "prepare"]
    /\ UNCHANGED <<world, hash, warm, hand, count>>

\* The first request of a lookup.
First(kind) == IF kind = "references" THEN "ask" ELSE "prepare"

\* Mutant: a cold anchor is served at once like a warm one.
CheckWarmServesAll(q) ==
    LET cold == <<task[q].anchor, task[q].kind>> \notin warm IN
    /\ task[q].pc = "check" /\ task[q].kind # "callees"
    /\ task' = [task EXCEPT ![q].pc = "read", ![q].cold = cold]
    /\ UNCHANGED <<world, store, hand, count>>

\* find_callers, find_references: an anchor asked for before is served at once.
CheckWarm(q) ==
    LET cold == <<task[q].anchor, task[q].kind>> \notin warm IN
    /\ task[q].pc = "check" /\ task[q].kind # "callees"
    /\ task' = [task EXCEPT ![q].pc = IF cold THEN First(task[q].kind) ELSE "read",
                           ![q].cold = cold]
    /\ UNCHANGED <<world, store, hand, count>>

\* prepareCallHierarchy, of a query or of a refresh: without an item at the place, or
\* with a failure, there is nothing to ask further.
Prepare(t) ==
    /\ task[t].pc = "prepare"
    /\ \/ /\ task' = [task EXCEPT ![t].pc =
                IF At(FileOf[task[t].anchor], task[t].line) # {} THEN "ask" ELSE "write"]
          /\ UNCHANGED mishaps
       \/ /\ Mishap \/ (~analysed /\ UNCHANGED mishaps)
          /\ task' = [task EXCEPT ![t].pc = "write", ![t].clean = FALSE]
    /\ UNCHANGED <<world, store, hand, asked, edits>>

\* incomingCalls, outgoingCalls, references; one that fails or times out is an
\* empty answer.  History: so is part of one from a server still analysing.
Ask(t) ==
    /\ task[t].pc = "ask"
    /\ \/ /\ \E some \in Answers(Report(task[t].kind, FileOf[task[t].anchor], task[t].line)) :
                task' = [task EXCEPT ![t] =
                            [task[t] EXCEPT !.pc = "write", !.todo = some, !.clean = @ /\ analysed]]
          /\ UNCHANGED mishaps
       \/ Mishap /\ task' = [task EXCEPT ![t].pc = "write", ![t].clean = FALSE]
    /\ UNCHANGED <<world, store, hand, asked, edits>>

\* Edges to (from) these nodes; the task goes on as given.  History: an edge from an
\* answer that may be out of date spoils what was recorded.
Write(t, nodes, on) ==
    LET new == {Edge(task[t].kind, task[t].anchor, s) : s \in nodes} IN
    /\ edges' = edges \cup new
    /\ exact' = IF task[t].clean THEN exact ELSE exact \ {e[1] : e \in new}
    /\ task' = [(IF task[t].clean THEN task ELSE Disturbed(Tasks)) EXCEPT ![t] = on]
    /\ UNCHANGED <<world, hash, warm, count>>

\* materialize_references, and materialize_call_edges for the callers: a user or a
\* caller, if the graph has a node at its place.
WriteCaller(t) ==
    /\ task[t].pc = "write" /\ task[t].kind # "callees"
    /\ \E p \in task[t].todo : Write(t, NodesAt(p), [task[t] EXCEPT !.todo = @ \ {p}])
    /\ UNCHANGED hand

\* materialize_call_edges for the callees: the callee of one place; an interface's
\* method is first corrected.
WriteCallee(t) ==
    /\ task[t].pc = "write" /\ task[t].kind = "callees"
    /\ \E p \in task[t].todo :
          \/ /\ \A s \in NodesAt(p) : ~IsInterfaces(s)
             /\ Write(t, NodesAt(p), [task[t] EXCEPT !.todo = @ \ {p}])
             /\ UNCHANGED hand
          \/ \E s \in NodesAt(p) :
                /\ IsInterfaces(s)
                /\ hand' = [hand EXCEPT ![t] =
                              [callee |-> s, line |-> p.line, text |-> None, found |-> {}]]
                /\ task' = [task EXCEPT ![t].pc = "correct", ![t].todo = @ \ {p}]
                /\ UNCHANGED <<world, store, count>>

\* resolve_outgoing_callee: the callee's own file is read ...
ReadCallee(t) ==
    /\ task[t].pc = "correct"
    /\ \/ /\ hand' = [hand EXCEPT ![t].text = disk[FileOf[hand[t].callee]]]
          /\ task' = [task EXCEPT ![t].pc = "show"]
          /\ UNCHANGED mishaps
       \/ Mishap /\ task' = [task EXCEPT ![t].pc = "implement"] /\ UNCHANGED hand
    /\ UNCHANGED <<world, store, asked, edits>>

\* ... and shown to the server ...
OpenCallee(t) ==
    task[t].pc = "show" /\ Tell(t, FileOf[hand[t].callee], hand[t].text, "implement")

\* ... which is asked for implementations at the place the callee was found ...
AskImplementation(t) ==
    /\ task[t].pc = "implement"
    /\ \/ /\ \E some \in Answers(Implementers(FileOf[hand[t].callee], hand[t].line)) :
                hand' = [hand EXCEPT ![t].found = some]
          /\ task' = [task EXCEPT ![t].pc = "resolve", ![t].clean = @ /\ analysed]
          /\ UNCHANGED mishaps
       \/ Mishap /\ task' = [task EXCEPT ![t].pc = "resolve", ![t].clean = FALSE] /\ UNCHANGED hand
    /\ UNCHANGED <<world, store, asked, edits>>

\* ... and those the graph knows stand for it, or it for itself if there are none.
WriteCorrected(t) ==
    LET known == UNION {NodesAt(p) : p \in hand[t].found} IN
    /\ task[t].pc = "resolve"
    /\ Write(t, IF known = {} THEN {hand[t].callee} ELSE known, [task[t] EXCEPT !.pc = "write"])
    /\ hand' = [hand EXCEPT ![t] = None]

\* find_callees records the text it read at the beginning, if it read one, whatever
\* came between.
SetCalleesCacheHash(q) ==
    LET a == task[q].anchor IN
    /\ task[q].pc = "write" /\ task[q].todo = {} /\ task[q].kind = "callees"
    /\ IF task[q].text = None THEN UNCHANGED <<hash, exact>>
       ELSE /\ hash' = [hash EXCEPT ![a] = task[q].text]
            /\ exact' = IF task[q].clean THEN exact \cup {a} ELSE exact \ {a}
    /\ task' = [task EXCEPT ![q].pc = "read"]
    /\ UNCHANGED <<world, edges, warm, hand, count>>

\* A cold anchor is warm from its first answer on, a timed out one included.
MarkMaterialized(q) ==
    /\ q \in Queries /\ task[q].pc = "write" /\ task[q].todo = {} /\ task[q].kind # "callees"
    /\ warm' = warm \cup {<<task[q].anchor, task[q].kind>>}
    /\ task' = [task EXCEPT ![q].pc = "read"]
    /\ UNCHANGED <<world, edges, hash, exact, hand, count>>

Neighbours(kind, a) ==
    {s \in Symbols : (IF kind = "callees" THEN <<a, s, "calls">> ELSE <<s, a, TypeOf(kind)>>) \in edges}

\* The answer is read from the graph.  find_callers and find_references start a
\* refresh, cold or warm, unless one of this anchor is under way.
Answer(q) ==
    LET r == <<task[q].anchor, task[q].kind>> IN
    /\ q \in Queries /\ task[q].pc = "read"
    /\ task' = IF r \in Refreshes /\ ~Working(r)
               THEN [task EXCEPT ![q] = Idle,
                        ![r] = [task[q] EXCEPT !.pc = First(task[q].kind), !.text = None, !.cold = FALSE,
                                   !.clean = Calm /\ task[q].line = seen[FileOf[r[1]]].at[r[1]]]]
               ELSE [task EXCEPT ![q] = Idle]
    /\ UNCHANGED <<world, store, hand, count>>

\* Nothing is started without a server.
AnswerFromCache(q) ==
    /\ task[q].pc = "cached"
    /\ task' = [task EXCEPT ![q] = Idle]
    /\ UNCHANGED <<world, store, hand, count>>

\* The refresh is over and may be started again.
EndRefresh(r) ==
    /\ r \in Refreshes /\ task[r].pc = "write" /\ task[r].todo = {}
    /\ task' = [task EXCEPT ![r] = Idle]
    /\ UNCHANGED <<world, store, hand, count>>

\* A database call that fails ends the query or the refresh it belongs to.
Fail(t) ==
    /\ Working(t) /\ Mishap
    /\ task' = [task EXCEPT ![t] = Idle] /\ hand' = [hand EXCEPT ![t] = None]
    /\ UNCHANGED <<world, store, asked, edits>>

-----------------------------------------------------------------------------
(* The server, the files and the watcher.                                  *)

FinishAnalysis ==
    /\ ~analysed /\ analysed' = TRUE
    /\ UNCHANGED <<disk, open, seen, events, watcher, store, task, hand, count>>

Edit(f, text) ==
    /\ edits + mishaps < MaxEdits /\ text # disk[f]
    /\ edits' = edits + 1
    /\ disk' = [disk EXCEPT ![f] = text] /\ events' = events \cup {f}
    /\ task' = Disturbed(Tasks)
    /\ UNCHANGED <<open, analysed, seen, watcher, store, hand, asked, mishaps>>

\* The watcher comes to a file when no query is at work; refreshes do not hold it up.
Visits(f) == f \in events /\ watcher = None /\ \A q \in Queries : ~Working(q)

\* The text it reads goes to the server.
StartReconcile(f) ==
    /\ Visits(f) /\ events' = events \ {f}
    /\ watcher' = [file |-> f, text |-> disk[f]]
    /\ open' = [open EXCEPT ![f] = disk[f]]
    /\ task' = Disturbed(Tasks)
    /\ UNCHANGED <<disk, analysed, seen, store, hand, count>>

\* A visit that finds no server, or fails later on, has used the event up.
LoseEvent(f) ==
    /\ Visits(f) /\ Mishap /\ events' = events \ {f}
    /\ UNCHANGED <<disk, open, analysed, seen, watcher, store, task, hand, asked, edits>>
FailReconcile ==
    /\ watcher # None /\ Mishap /\ watcher' = None
    /\ UNCHANGED <<disk, open, analysed, seen, events, store, task, hand, asked, edits>>

\* Its transaction: the records of the file's anchors go, and every edge at a node
\* whose fingerprint has changed, wherever its other end is.
CommitReconcile ==
    LET f == watcher.file
        moved == {s \in SymbolsOf(f) : seen[f].at[s] # watcher.text.at[s]}
        dead == {e \in edges : {e[1], e[2]} \cap moved # {}}
    IN
    /\ watcher # None
    /\ seen' = [seen EXCEPT ![f] = watcher.text]
    /\ hash' = [a \in Symbols |-> IF FileOf[a] = f THEN None ELSE hash[a]]
    /\ edges' = edges \ dead
    /\ exact' = {a \in exact : FileOf[a] # f /\ \A e \in dead : e[1] # a}
    /\ watcher' = None
    /\ task' = Disturbed(Tasks)
    /\ UNCHANGED <<disk, open, analysed, events, warm, hand, count>>

-----------------------------------------------------------------------------
QueryStep(q) ==
    \/ ReadAnchor(q) \/ OpenAnchor(q) \/ CheckHash(q) \/ InvalidateOutgoingCalls(q) \/ CheckWarm(q)
    \/ SetCalleesCacheHash(q) \/ MarkMaterialized(q) \/ Answer(q)
    \/ AnswerFromCache(q)
TaskStep(t) ==
    \/ Prepare(t) \/ Ask(t) \/ WriteCaller(t) \/ WriteCallee(t) \/ EndRefresh(t) \/ Fail(t)
    \/ ReadCallee(t) \/ OpenCallee(t) \/ AskImplementation(t) \/ WriteCorrected(t)
FilesStep ==
    \/ \E f \in Files : StartReconcile(f) \/ LoseEvent(f) \/ \E text \in Texts[f] : Edit(f, text)
    \/ FailReconcile \/ CommitReconcile

Next ==
    \/ \E q \in Queries, question \in Questions : Begin(q, question[1], question[2])
    \/ \E q \in Queries : QueryStep(q)
    \/ \E t \in Tasks : TaskStep(t)
    \/ FinishAnalysis \/ FilesStep

Spec == Init /\ [][Next]_vars

-----------------------------------------------------------------------------
(* Promises.                                                               *)
CalledBy(a, text) == {d \in Symbols : <<a, d>> \in text.calls}
Concrete(d) == LET found == {i[2] : i \in {j \in Implements : j[1] = d}}
               IN IF found = {} THEN {d} ELSE found
Callers(a) == {s \in Symbols : <<s, a>> \in disk[FileOf[s]].calls}

\* What the content-hash cache of find_callees does guarantee: callees recorded by a
\* lookup that nothing disturbed, and at which no later lookup, out-of-date answer
\* or reconcile has touched an edge, are those of the recorded text; at most the
\* interface's own methods are there as well, since find_callers does not correct.
ExactUnlessDisturbed ==
    \A a \in exact :
        /\ hash[a] # None
        /\ LET called == CalledBy(a, hash[a])
               concrete == UNION {Concrete(d) : d \in called}
           IN /\ concrete \subseteq Neighbours("callees", a)
              /\ Neighbours("callees", a) \subseteq concrete \cup called

\* "A cold anchor blocks on one materialization first, so a first-ever query is never
\* a false empty, then also spawns a background refresh - the inline materialization may
\* be silently incomplete when the LSP server's background analysis hasn't finished yet"
\* (pool.rs): a first answer has every caller there is if the server was through with
\* its analysis when it was asked and nothing disturbed the lookup; and however little
\* that answer showed, so has the graph when the refresh that follows ends, if those
\* two hold of the refresh.
LookupsAreComplete ==
    [][\A t \in Tasks :
          (/\ Working(t) /\ task[t].clean
           /\ (Answer(t) /\ task[t].cold) \/ EndRefresh(t)) =>
              Callers(task[t].anchor) \subseteq Neighbours(task[t].kind, task[t].anchor)]_vars

\* V0002__callees_cache.sql: "The outgoing callee list of a node depends only on its
\* own file's text, so a content-hash match means the cached graph is exact".
\* While nothing is going on, a record that matches the file is exact.
Quiet == Calm /\ \A t \in Tasks : ~Working(t)
MatchMeansExact ==
    Quiet => \A a \in Symbols :
        hash[a] = disk[FileOf[a]] =>
            Neighbours("callees", a) = UNION {Concrete(d) : d \in CalledBy(a, hash[a])}

\* lsp-integration.md: "a warm anchor can only be stale in the 'missing a newly-added
\* caller' direction, converging on the next query".  While nothing is going on, no
\* caller is shown that calls no more.
NoCallerTooMany ==
    Quiet => \A a \in Symbols : <<a, "callers">> \in warm => Neighbours("callers", a) \subseteq Callers(a)
=============================================================================
