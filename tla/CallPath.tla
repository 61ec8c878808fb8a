------------------------------ MODULE CallPath ------------------------------
(***************************************************************************)
(* find_call_path (query/ops.rs): does one symbol reach another through    *)
(* calls?  A breadth-first search that brings the callees of each node it  *)
(* takes from its queue up to date first, in the content-hash cache that   *)
(* find_callees uses too, and is bounded by a depth and by a budget of     *)
(* lookups.  Several searches may be at work: each awaits the database and *)
(* the server between its steps.                                           *)
(*                                                                         *)
(* The files do not change here (EdgeCache is about that): a callee list   *)
(* is recorded or is not, and the hash of a recorded one matches.          *)
(***************************************************************************)
EXTENDS Naturals, FiniteSets, Sequences

CONSTANTS N,          \* symbols, numbered in the order of their names
          Graphs,     \* what the files may say: sets of calls, pairs of symbols
          Earlier,    \* what lookups may have left: recorded symbols and calls shown of others
          Questions,  \* what may be asked: both ends, the limits, whether there is a server
          Searches,   \* how many may be at work at a time
          Failures,   \* whether a server may time out or answer with an error
          MaxSearches \* bound

Nodes == 1..N

ASSUME CallPathAssumption ==
    /\ N \in Nat /\ MaxSearches \in Nat
    /\ Graphs \subseteq SUBSET (Nodes \X Nodes)
    /\ Earlier \subseteq [recorded : SUBSET Nodes, shown : SUBSET (Nodes \X Nodes)]
    /\ Questions \subseteq [from : Nodes, to : Nodes, depth : Nat \ {0}, budget : Nat, client : BOOLEAN]
    /\ Failures \in BOOLEAN

VARIABLES
    calls,     \* the calls in the files
    edges,     \* the valid calls in the graph
    recorded,  \* symbols whose callees_cache row has the hash of their file
    search,    \* the searches
    asked,     \* counter for the bound
    spoiled    \* history: recorded by a lookup that failed

vars == <<calls, edges, recorded, search, asked, spoiled>>
graph == <<edges, recorded, spoiled>>

Callees(n) == {d \in Nodes : <<n, d>> \in calls}
Stored(n) == {d \in Nodes : <<n, d>> \in edges}
Idle == [pc |-> "idle"]

Init ==
    /\ calls \in Graphs
    /\ \E left \in Earlier :
          /\ recorded = left.recorded
          /\ edges = {e \in left.shown : e[1] \notin recorded} \cup {e \in calls : e[1] \in recorded}
    /\ search = [s \in Searches |-> Idle]
    /\ asked = 0 /\ spoiled = {}

-----------------------------------------------------------------------------
At(s) == search[s].path[Len(search[s].path)]
Is(s, pc) == search[s].pc = pc
Becomes(s, pc) == search' = [search EXCEPT ![s].pc = pc]

\* Both ends are resolved, by name or by the server's definition; a search from a
\* symbol to itself ends here.
Begin(s, q) ==
    /\ search[s].pc \in {"idle", "done"} /\ asked < MaxSearches
    /\ asked' = asked + 1
    /\ search' = [search EXCEPT ![s] =
          [pc |-> IF q.from = q.to THEN "done" ELSE "next", asked |-> q, budget |-> q.budget,
           queue |-> <<<<q.from>>>>, path |-> <<q.from>>, visited |-> {q.from}, todo |-> {},
           found |-> q.from = q.to, limit |-> FALSE, late |-> FALSE, short |-> FALSE, clean |-> TRUE]]
    /\ UNCHANGED <<calls, graph>>

\* An end that resolves to nothing: an answer without a search, in which a definition
\* request may have timed out.
Unresolved(s, late) ==
    /\ search[s].pc \in {"idle", "done"} /\ asked < MaxSearches /\ late \in {FALSE, Failures}
    /\ asked' = asked + 1
    /\ search' = [search EXCEPT ![s] = Idle]
    /\ UNCHANGED <<calls, graph>>

\* Mutant: the youngest node first.
NextNodeDepthFirst(s) ==
    LET last == search[s].queue[Len(search[s].queue)] IN
    /\ Is(s, "next") /\ search[s].queue # <<>>
    /\ search' = [search EXCEPT ![s].queue = SubSeq(@, 1, Len(@) - 1),
          ![s].path = last,
          ![s].pc = IF Len(last) > search[s].asked.depth THEN "next" ELSE "check",
          ![s].limit = @ \/ Len(last) > search[s].asked.depth]
    /\ UNCHANGED <<calls, graph, asked>>

\* The next node, unless it is as far away as the search may go.
NextNode(s) ==
    LET first == Head(search[s].queue) IN
    /\ Is(s, "next") /\ search[s].queue # <<>>
    /\ search' = [search EXCEPT ![s].queue = Tail(@),
          ![s].path = first,
          ![s].pc = IF Len(first) > search[s].asked.depth THEN "next" ELSE "check",
          ![s].limit = @ \/ Len(first) > search[s].asked.depth]
    /\ UNCHANGED <<calls, graph, asked>>

NotFound(s) ==
    /\ Is(s, "next") /\ search[s].queue = <<>>
    /\ Becomes(s, "done")
    /\ UNCHANGED <<calls, graph, asked>>

\* Mutant: a node without budget counts as expanded.
ExpandSilently(s) ==
    LET usable == search[s].asked.client /\ (At(s) \in recorded \/ search[s].budget > 0) IN
    /\ Is(s, "check")
    /\ search' = [search EXCEPT ![s].short = @ \/ ~usable,
          ![s].limit = @ \/ ~search[s].asked.client,
          ![s].pc = IF usable /\ At(s) \notin recorded THEN "drop" ELSE "read",
          ![s].budget = IF usable /\ At(s) \notin recorded THEN @ - 1 ELSE @]
    /\ UNCHANGED <<calls, graph, asked>>

\* expand_outgoing_calls: a recorded list costs nothing, any other a lookup; without
\* a server or a budget the graph's edges are read as they are.
Expand(s) ==
    LET usable == search[s].asked.client /\ (At(s) \in recorded \/ search[s].budget > 0) IN
    /\ Is(s, "check")
    /\ search' = [search EXCEPT ![s].short = @ \/ ~usable,
          ![s].limit = @ \/ ~usable,
          ![s].pc = IF usable /\ At(s) \notin recorded THEN "drop" ELSE "read",
          ![s].budget = IF usable /\ At(s) \notin recorded THEN @ - 1 ELSE @]
    /\ UNCHANGED <<calls, graph, asked>>

InvalidateOutgoingCalls(s) ==
    /\ Is(s, "drop")
    /\ edges' = {e \in edges : e[1] # At(s)}
    /\ Becomes(s, "ask")
    /\ UNCHANGED <<calls, recorded, spoiled, asked>>

\* The requests of materialize_call_edges; an error is an empty answer, and so is a
\* time-out, which is reported.
Ask(s) ==
    /\ Is(s, "ask")
    /\ \/ search' = [search EXCEPT ![s].pc = "write", ![s].todo = Callees(At(s))]
       \/ /\ Failures
          /\ \E timeout \in BOOLEAN : search' = [search EXCEPT ![s].pc = "fail", ![s].late = @ \/ timeout]
    /\ UNCHANGED <<calls, graph, asked>>

Write(s) ==
    /\ Is(s, "write")
    /\ \E d \in search[s].todo :
          /\ edges' = edges \cup {<<At(s), d>>}
          /\ search' = [search EXCEPT ![s].todo = @ \ {d}]
    /\ UNCHANGED <<calls, recorded, spoiled, asked>>

\* Recorded whatever became of the requests.
SetCalleesCacheHash(s) ==
    /\ Is(s, "fail") \/ (Is(s, "write") /\ search[s].todo = {})
    /\ recorded' = recorded \cup {At(s)}
    /\ spoiled' = IF Is(s, "fail") THEN spoiled \cup {At(s)} ELSE spoiled
    /\ Becomes(s, "read")
    /\ UNCHANGED <<calls, edges, asked>>

\* History: what is read is not what was recorded, or is just being replaced.
Rebuilt(s) == \E t \in Searches \ {s} : search[t].pc \in {"ask", "write", "fail"} /\ At(t) = At(s)
Clean(s) == At(s) \notin spoiled /\ ~Rebuilt(s)

\* ORDER BY fqn
InOrder(nodes) ==
    [i \in 1..Cardinality(nodes) |-> CHOOSE n \in nodes : Cardinality({m \in nodes : m < n}) = i - 1]

\* The node's callees, in the order of their names: the end of the search, or nodes
\* to look at later.
Neighbours(s) ==
    LET now == search[s]
        new == Stored(At(s)) \ now.visited
    IN
    /\ Is(s, "read")
    /\ IF now.asked.to \in Stored(At(s))
       THEN search' = [search EXCEPT ![s].pc = "done", ![s].found = TRUE,
               ![s].path = Append(@, now.asked.to), ![s].clean = @ /\ Clean(s)]
       ELSE search' = [search EXCEPT ![s].pc = "next", ![s].visited = @ \cup new,
               ![s].clean = @ /\ Clean(s),
               ![s].queue = @ \o [i \in 1..Cardinality(new) |->
                                    Append(now.path, InOrder(new)[i])]]
    /\ UNCHANGED <<calls, graph, asked>>

-----------------------------------------------------------------------------
SearchStep(s) ==
    \/ NextNode(s) \/ NotFound(s) \/ Expand(s) \/ InvalidateOutgoingCalls(s) \/ Ask(s)
    \/ Write(s) \/ SetCalleesCacheHash(s) \/ Neighbours(s)

Next ==
    \/ \E s \in Searches, q \in Questions : Begin(s, q)
    \/ \E s \in Searches, late \in BOOLEAN : Unresolved(s, late)
    \/ \E s \in Searches : SearchStep(s)

Spec == Init /\ [][Next]_vars

-----------------------------------------------------------------------------
(* Promises.                                                               *)

\* The symbols at most k calls away.
Within(from, k) ==
    LET reach[i \in 0..k] ==
          IF i = 0 THEN {from} ELSE reach[i - 1] \cup UNION {Callees(n) : n \in reach[i - 1]}
    IN reach[k]

TypeOK ==
    /\ edges \subseteq Nodes \X Nodes /\ recorded \subseteq Nodes /\ spoiled \subseteq recorded
    /\ \A s \in Searches : search[s].pc # "idle" =>
          /\ search[s].visited \subseteq Nodes
          /\ search[s].budget \in 0..search[s].asked.budget
          /\ \A i \in DOMAIN search[s].queue : Len(search[s].queue[i]) \in 1..N

\* query/dto.rs: "only `{reachable: false, limit_reached: false}` means the search was
\* exhaustive": then there is no way at all, if the search read no list that a failed
\* lookup recorded or that another search was rebuilding.
ExhaustiveUnlessDisturbed ==
    \A s \in Searches : LET now == search[s] IN
        now.pc = "done" /\ now.clean /\ ~now.found /\ ~now.limit => now.asked.to \notin Within(now.asked.from, N)

\* mcp-tools.md: "Breadth-first, so `path` is a shortest path": undisturbed, and with
\* a server and budget for every node, a search finds a way exactly if there is one
\* of at most max_depth calls, and what it finds is one of the shortest.
FindsTheShortest ==
    \A s \in Searches : LET now == search[s] IN
        now.pc = "done" /\ now.clean /\ ~now.short =>
            /\ now.found <=> now.asked.to \in Within(now.asked.from, now.asked.depth)
            /\ now.found =>
                 /\ now.path[1] = now.asked.from /\ now.path[Len(now.path)] = now.asked.to
                 /\ \A i \in 1..Len(now.path) - 1 : <<now.path[i], now.path[i + 1]>> \in calls
                 /\ Len(now.path) > 1 => now.asked.to \notin Within(now.asked.from, Len(now.path) - 2)

\* query/dto.rs and mcp-tools.md: an answer that is neither positive nor limited, nor
\* reported as timed out, is "an exhaustive negative".
NegativeIsProof ==
    \A s \in Searches : LET now == search[s] IN
        now.pc = "done" /\ ~now.found /\ ~now.limit /\ ~now.late => now.asked.to \notin Within(now.asked.from, N)
=============================================================================
