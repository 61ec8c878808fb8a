--------------------------- MODULE GraphReconcile ---------------------------
(***************************************************************************)
(* The symbol graph of src/graph/db.rs: the tables nodes, edges and        *)
(* callees_cache with their unique indexes and foreign keys                *)
(* (migrations/V0001__init.sql, V0002__callees_cache.sql), and the         *)
(* operations that write them: the transaction that reconciles one file's  *)
(* rows with the symbols a language server just reported for it            *)
(* (reconcile_file_symbols), the file's first indexing by `semnav index`   *)
(* (indexer/pipeline.rs), and the edges and cache rows a query adds.       *)
(*                                                                         *)
(* An FQN is the sequence of its dotted segments, the file's module first. *)
(* `body` stands for whatever of a symbol (end line, selection, detail)    *)
(* enters the two fingerprints besides its name, kind and start line.      *)
(***************************************************************************)
EXTENDS Integers, SequencesExt, FiniteSetsExt

CONSTANTS
    Uris,        \* the files
    Texts,       \* [Uris -> set of texts]: the symbol lists a file may have
    Nothing,     \* no container, no text reconciled yet
    MaxDrift,    \* RENAME_MAX_LINE_DRIFT
    Calls,       \* the pairs of kinds <<caller, callee>> servers report
    Reindexing,  \* whether `semnav index` is run again on a filled graph
    MaxId,       \* bound: rows ever inserted
    MaxCalls     \* bound: call edges and rows of callees_cache, together

Fqns(t) == {t[i].fqn : i \in DOMAIN t}

(***************************************************************************)
(* What a server reports for one file: no two symbols of one name at one   *)
(* place, a container before what it contains (flatten_document_symbols    *)
(* walks the tree in pre-order), the module's own symbol, which the        *)
(* indexer appends, at the end.  Several symbols may have one FQN:         *)
(* overloads, a class and an interface of one name.                        *)
(***************************************************************************)
\* Of several symbols of one FQN the first finds the row of that name, and the last is
\* what the row is in the end.
IsFirst(t, i) == \A j \in 1..(i - 1) : t[j].fqn # t[i].fqn
IsLast(t, i) == \A j \in (i + 1)..Len(t) : t[j].fqn # t[i].fqn
Overloaded(t, fqn) == \E i \in DOMAIN t : t[i].fqn = fqn /\ ~IsLast(t, i)

Symbol == [fqn : Seq(STRING) \ {<<>>}, kind : STRING, line : Nat, body : Nat]

Proper(t) ==
    /\ \A i, j \in DOMAIN t : i # j =>
         <<Last(t[i].fqn), t[i].line>> # <<Last(t[j].fqn), t[j].line>>
    /\ \A i \in DOMAIN t : Len(t[i].fqn) > 2 =>
         \E j \in 1..(i - 1) : t[j].fqn = Front(t[i].fqn)
    /\ \A i \in DOMAIN t : Len(t[i].fqn) = 1 => i = Len(t)

ASSUME TextsAssumption ==
    /\ MaxDrift \in Nat /\ MaxId \in Nat /\ MaxCalls \in Nat
    /\ Reindexing \in BOOLEAN /\ Nothing \notin Nat
    /\ \A u \in Uris : \A t \in Texts[u] :
         /\ t \in Seq(Symbol) /\ t # Nothing /\ Proper(t)
         /\ \A i \in DOMAIN t : Head(t[i].fqn) = u

VARIABLES
    nodes,    \* [row ids -> row]
    edges,    \* [<<source id, target id, edge_type>> -> edge]
    callees,  \* callees_cache: the anchor ids that have a row
    nextId,   \* the AUTOINCREMENT counter
    synced    \* history: [Uris -> text of the last committed reconcile]

vars == <<nodes, edges, callees, nextId, synced>>

-----------------------------------------------------------------------------
(***************************************************************************)
(* Keys and fingerprints                                                   *)
(***************************************************************************)
\* fqn.rsplit_once('.'): the FQN without its last segment
container_prefix(fqn) == Front(fqn)

\* signature_hash: name, kind, detail and the absolute ranges
signature_fingerprint(s) == <<Last(s.fqn), s.kind, s.line, s.body>>

\* the same without the name: a rename keeps it
body_fingerprint(s) == <<s.kind, s.line, s.body>>

\* idx_nodes_fqn and idx_nodes_phys
Phys(r) == <<r.uri, r.line, Last(r.fqn)>>
Unique(ns) ==
    \A i, j \in DOMAIN ns :
        i # j => ns[i].fqn # ns[j].fqn /\ Phys(ns[i]) # Phys(ns[j])

Row(u, s, container) ==
    [uri |-> u, fqn |-> s.fqn, kind |-> s.kind, line |-> s.line, body |-> s.body,
     container |-> container, valid |-> TRUE, orphan |-> FALSE]

RowsOf(u) == {id \in DOMAIN nodes : nodes[id].uri = u}
Live(id) == nodes[id].valid
Drift(o, s) == IF o.line > s.line THEN o.line - s.line ELSE s.line - o.line

-----------------------------------------------------------------------------
(***************************************************************************)
(* SQL statements, on a database [nodes, edges, callees, next, ids, ok]:   *)
(* ids are the rows the symbols so far were written to, ok turns FALSE     *)
(* with the first constraint a statement violates.                         *)
(***************************************************************************)
Database == [nodes |-> nodes, edges |-> edges, callees |-> callees,
             next |-> nextId, ids |-> <<>>, ok |-> TRUE]

Put(db, ns) == [db EXCEPT !.nodes = ns, !.ok = @ /\ Unique(ns)]

\* a table f written over a table g
Over(f, g) == [x \in DOMAIN f \cup DOMAIN g |-> IF x \in DOMAIN f THEN f[x] ELSE g[x]]

\* UPDATE_NODE_SQL and the insert: one row written, its id threaded on
Write(db, id, row) ==
    [Put(db, Over([x \in {id} |-> row], db.nodes)) EXCEPT !.ids = Append(@, id)]

\* UPSERT_SQL: the row of that FQN, else the row at that place, else a new one
upsert_node(db, row) ==
    LET byFqn  == {id \in DOMAIN db.nodes : db.nodes[id].fqn = row.fqn}
        byPhys == {id \in DOMAIN db.nodes : Phys(db.nodes[id]) = Phys(row)}
    IN  IF byFqn # {} THEN Write(db, CHOOSE id \in byFqn : TRUE, row)
        ELSE IF byPhys # {} THEN Write(db, CHOOSE id \in byPhys : TRUE, row)
        ELSE [Write(db, db.next, row) EXCEPT !.next = @ + 1]

Invalid == [valid |-> FALSE]

\* INVALIDATE_EDGES_SQL
InvalidateEdges(db, id) ==
    [db EXCEPT !.edges = [e \in DOMAIN @ |-> IF id \in {e[1], e[2]} THEN Invalid ELSE @[e]]]

\* upsert_edge, for each of a set of keys: found rows are switched on again.
Edge == [valid |-> TRUE]
upsert_edges_mutant(db, keys) == [db EXCEPT !.edges = Over(@, [e \in keys |-> Edge])]
upsert_edges(db, keys) == [db EXCEPT !.edges = Over([e \in keys |-> Edge], @)]

\* DELETE_NODE_SQL, with ON DELETE CASCADE and ON DELETE SET NULL
Unlinked(r, gone) == [r EXCEPT !.container = IF @ \in gone THEN Nothing ELSE @]
Delete(db, gone) ==
    [db EXCEPT
        !.nodes = [id \in DOMAIN @ \ gone |-> Unlinked(@[id], gone)],
        !.edges = Restrict(@, {e \in DOMAIN @ : {e[1], e[2]} \cap gone = {}}),
        !.callees = @ \ gone]

-----------------------------------------------------------------------------
(***************************************************************************)
(* reconcile_file_symbols_tx. The old rows are read first: old in what     *)
(* follows is the row as it was before the transaction.                    *)
(***************************************************************************)
\* the parent of symbol i, 0 for a top-level one
Parent(t, i) ==
    LET up == {j \in 1..(i - 1) : t[j].fqn = container_prefix(t[i].fqn)}
    IN  IF up = {} THEN 0 ELSE Max(up)

\* Pass 1: the old row of the very same FQN, for the first symbol that has it
ExactMatches_mutant(u, t) ==
    {m \in [sym : DOMAIN t, old : RowsOf(u)] :
        nodes[m.old].fqn = t[m.sym].fqn /\ nodes[m.old].line = t[m.sym].line /\ IsFirst(t, m.sym)}
ExactMatches(u, t) ==
    {m \in [sym : DOMAIN t, old : RowsOf(u)] : nodes[m.old].fqn = t[m.sym].fqn /\ IsFirst(t, m.sym)}

\* Pass 2: could the old row be what the symbol was called before?
RenameCandidate(old, s) ==
    /\ old.kind = s.kind
    /\ container_prefix(old.fqn) = container_prefix(s.fqn)
    /\ Drift(old, s) <= MaxDrift

Tier(m, t) == IF body_fingerprint(nodes[m.old]) = body_fingerprint(t[m.sym]) THEN 0 ELSE 1

\* The sort of the candidates: the confident ones first, then the nearest,
\* then the order in which the rows were read (any order: the query has no
\* ORDER BY), then the order of the symbols (the sort is stable).
Key(m, t, rank) ==
    <<Tier(m, t), Drift(nodes[m.old], t[m.sym]), rank[m.old], m.sym>>
Before(a, b) ==
    \E k \in 1..4 : a[k] < b[k] /\ \A j \in 1..(k - 1) : a[j] = b[j]

Candidates(u, t) ==
    LET exact == ExactMatches(u, t)
        free  == [sym : DOMAIN t \ {m.sym : m \in exact},
                  old : RowsOf(u) \ {m.old : m \in exact}]
    IN  {m \in free : RenameCandidate(nodes[m.old], t[m.sym])}

\* the orders in which SQLite may hand out the rows the sort has to tell apart
Ranks(candidates) ==
    LET ids == {m.old : m \in candidates}
    IN  {r \in [ids -> 1..Cardinality(ids)] : IsInjective(r)}

\* The loop over the sorted candidates takes each one whose row and symbol are
\* still free, and passes over the others: there is one such set.
Clash(m, o) == m.old = o.old \/ m.sym = o.sym
Greedy(taken, candidates, t, rank) ==
    \A m \in candidates :
        m \in taken <=>
            ~\E o \in taken : Clash(m, o) /\ Before(Key(o, t, rank), Key(m, t, rank))

\* what may be assigned to the symbols, one set for each order of the rows
Assignments(u, t) ==
    LET candidates == Candidates(u, t)
    IN  {ExactMatches(u, t) \cup taken : taken \in {C \in SUBSET candidates :
            \E rank \in Ranks(candidates) : Greedy(C, candidates, t, rank)}}

\* Pass 3: is what was known about the symbol's relations now doubtful?
Outdates_mutant(old, s) == old.fqn # s.fqn
Outdates_mutant2(old, s) == TRUE
Outdates(old, s) == old.fqn # s.fqn \/ signature_fingerprint(old) # signature_fingerprint(s)

\* Pass 3: one symbol, on its old row or through the insert
ApplySymbol(db, u, t, i, assigned) ==
    LET up  == Parent(t, i)
        row == Row(u, t[i], IF up = 0 THEN Nothing ELSE db.ids[up])
        mine == {m \in assigned : m.sym = i}
    IN  IF mine = {} THEN upsert_node(db, row)
        ELSE LET id == (CHOOSE m \in mine : TRUE).old
                 written == Write(db, id, row)
             IN  IF Outdates(nodes[id], t[i]) THEN InvalidateEdges(written, id) ELSE written

\* Pass 4: a row nobody claimed is orphaned the first time and deleted the
\* second; an orphan gets the line back it had before it was parked.
SecondStrike_mutant(old) == TRUE
SecondStrike(old) == old.orphan

Orphaned_mutant2(db, id) == [db.nodes[id] EXCEPT !.orphan = TRUE, !.line = nodes[id].line]
Orphaned(db, id) ==
    [db.nodes[id] EXCEPT !.orphan = TRUE, !.valid = FALSE, !.line = nodes[id].line]

StrikeUnclaimed(db, unclaimed) ==
    LET gone   == {id \in unclaimed : SecondStrike(nodes[id])}
        kept   == Delete(db, gone)
        struck == unclaimed \ gone
    IN  Put(kept, [id \in DOMAIN kept.nodes |->
                      IF id \in struck THEN Orphaned(kept, id) ELSE kept.nodes[id]])

\* Pass 3 on the first k symbols
Applied(db, u, t, assigned) ==
    LET upTo[k \in 0..Len(t)] ==
          IF k = 0 THEN db ELSE ApplySymbol(upTo[k - 1], u, t, k, assigned)
    IN  upTo

\* Pass 5
ContainsEdges(db, t) ==
    upsert_edges(db, {<<db.ids[Parent(t, i)], db.ids[i], "contains">> :
                         i \in {j \in DOMAIN t : Parent(t, j) # 0}})

\* the callees_cache rows of the file go first, then every row of the file is
\* parked on a line no symbol has: -id
ParkedLine(id) == -id
Prepared(u) ==
    [Database EXCEPT
        !.callees = @ \ RowsOf(u),
        !.nodes = [id \in DOMAIN @ |->
            IF id \in RowsOf(u) THEN [@[id] EXCEPT !.line = ParkedLine(id)] ELSE @[id]]]

reconcile_file_symbols_tx(u, t, assigned) ==
    LET applied == Applied(Prepared(u), u, t, assigned)[Len(t)]
    IN  ContainsEdges(StrikeUnclaimed(applied, RowsOf(u) \ {m.old : m \in assigned}), t)

Commit(db) ==
    /\ db.next <= MaxId + 1
    /\ nodes' = db.nodes
    /\ edges' = db.edges
    /\ callees' = db.callees
    /\ nextId' = db.next

(***************************************************************************)
(* The operations                                                          *)
(***************************************************************************)
Init ==
    /\ nodes = <<>>
    /\ edges = <<>>
    /\ callees = {}
    /\ nextId = 1
    /\ synced = [u \in Uris |-> Nothing]

\* reconcile_file_symbols: all of it or, on the first error, nothing of it
Reconcile(u, t) ==
    \E assigned \in Assignments(u, t) :
      LET db == reconcile_file_symbols_tx(u, t, assigned)
      IN  IF db.ok THEN Commit(db) /\ synced' = [synced EXCEPT ![u] = t]
          ELSE UNCHANGED vars

\* index_repository on one file: upsert_symbol_tree, statement by statement
\* and outside a transaction, so that a killed `semnav index` leaves the first
\* few of them (cut) done.
Index(u, t, cut) ==
    LET upTo == Applied(Database, u, t, {})
        done == IF cut < Len(t) THEN upTo[cut] ELSE ContainsEdges(upTo[cut], t)
    IN  /\ RowsOf(u) = {} \/ Reindexing
        /\ done.ok
        /\ Commit(done)
        /\ synced' = [synced EXCEPT ![u] = Nothing]

MaterializedSoFar(db) ==
    Cardinality({e \in DOMAIN db.edges : e[3] = "calls"}) + Cardinality(db.callees)

\* The end of materialize_call_edges: one call edge between two symbols the server has
\* named, whenever it did so
AddCall(src, dst) ==
    LET db == upsert_edges(Database, {<<src, dst, "calls">>})
    IN  /\ Live(src) /\ Live(dst) /\ <<nodes[src].kind, nodes[dst].kind>> \in Calls
        /\ MaterializedSoFar(db) <= MaxCalls
        /\ edges' = db.edges
        /\ UNCHANGED <<nodes, callees, nextId, synced>>

\* invalidate_outgoing_calls
InvalidateOutgoingCalls(id) ==
    /\ Live(id)
    /\ edges' = [e \in DOMAIN edges |->
          IF e[1] = id /\ e[3] = "calls" THEN Invalid ELSE edges[e]]
    /\ UNCHANGED <<nodes, callees, nextId, synced>>

\* set_callees_cache_hash (the hash itself is left out: one value per row)
SetCalleesCacheHash(id) ==
    /\ Live(id) /\ \E kind \in {c[2] : c \in Calls} : <<nodes[id].kind, kind>> \in Calls
    /\ MaterializedSoFar([Database EXCEPT !.callees = @ \cup {id}]) <= MaxCalls
    /\ callees' = callees \cup {id}
    /\ UNCHANGED <<nodes, edges, nextId, synced>>

Next ==
    \/ \E u \in Uris : \E t \in Texts[u] : Reconcile(u, t)
    \/ \E u \in Uris : \E t \in Texts[u] : \E cut \in 1..Len(t) : Index(u, t, cut)
    \/ \E src, dst \in DOMAIN nodes : AddCall(src, dst)
    \/ \E id \in DOMAIN nodes : InvalidateOutgoingCalls(id)
    \/ \E id \in DOMAIN nodes : SetCalleesCacheHash(id)

Spec == Init /\ [][Next]_vars

-----------------------------------------------------------------------------
(***************************************************************************)
(* What the graph owes its readers                                         *)
(***************************************************************************)
\* The tables are well formed: no row is left on its parking line, every id a
\* foreign key names exists, and a row is valid exactly if it is no orphan.
TypeOK ==
    /\ DOMAIN nodes \subseteq 1..(nextId - 1) /\ nextId <= MaxId + 1
    /\ Unique(nodes)
    /\ \A id \in DOMAIN nodes : LET r == nodes[id] IN
         /\ r.uri \in Uris /\ r.line \in Nat
         /\ r.valid \in BOOLEAN /\ r.orphan = ~r.valid
         /\ r.container \in DOMAIN nodes \cup {Nothing}
    /\ \A e \in DOMAIN edges :
         {e[1], e[2]} \subseteq DOMAIN nodes /\ edges[e].valid \in BOOLEAN
    /\ callees \subseteq DOMAIN nodes
    /\ \A u \in Uris : synced[u] \in Texts[u] \cup {Nothing}

Shows(id, s) ==
    /\ nodes[id].fqn = s.fqn
    /\ signature_fingerprint(nodes[id]) = signature_fingerprint(s)

\* After a committed reconcile the live rows of a file are the symbols of its
\* text, each with its kind, place and body: no row lost to the passes, none
\* left over, whatever chain of edits, renames, strikes and revivals led here.
\* symbol.rs:120, "same-name overloads collapse onto one row": the last of them.
GraphMatchesText ==
    \A u \in Uris : synced[u] # Nothing =>
        LET shown == {i \in DOMAIN synced[u] : IsLast(synced[u], i)} IN
        /\ \A i \in shown : \E id \in RowsOf(u) : Live(id) /\ Shows(id, synced[u][i])
        /\ \A id \in RowsOf(u) : Live(id) => \E i \in shown : Shows(id, synced[u][i])

\* The two records of containment agree: a live row's container_id is the row
\* of its FQN's prefix, and the valid contains edges between live rows are
\* those pairs (upsert_edge must revive what a rename just invalidated).
ContainmentAgrees ==
    \A id \in DOMAIN nodes : (Live(id) /\ synced[nodes[id].uri] # Nothing) =>
        /\ nodes[id].container # Nothing =>
             /\ Live(nodes[id].container)
             /\ nodes[nodes[id].container].fqn = container_prefix(nodes[id].fqn)
        /\ {e[1] : e \in {x \in DOMAIN edges : x[2] = id /\ x[3] = "contains"
                                  /\ edges[x].valid /\ Live(x[1])}}
             = {nodes[id].container} \ {Nothing}

\* graph-model.md, dirty lifecycle: a call edge that is valid before and after a step has
\* ends that the step left as they were in name, kind, place and detail; what changes,
\* moves or is renamed, orphaned meanwhile or not, has its calls switched off with it.
\* (The row of an overloaded name is written more than once, and compared once.  A body
\* edit that moves nothing changes no row: the callees cache is for that, db.rs:1201.)
ChangesOutdateCalls ==
    [][\A e \in DOMAIN edges \cap DOMAIN edges' :
         (e[3] = "calls" /\ edges[e].valid /\ edges'[e].valid) =>
           \A id \in {e[1], e[2]} : LET r == nodes'[id] IN
             \/ signature_fingerprint(r) = signature_fingerprint(nodes[id]) /\ r.fqn = nodes[id].fqn
             \/ synced'[r.uri] # Nothing /\ Overloaded(synced'[r.uri], r.fqn)]_vars

\* Two strikes: a row disappears only if it was already an orphan, missing from
\* the text before this one as well as from this one.
DeletedOnSecondStrike ==
    [][\A id \in DOMAIN nodes \ DOMAIN nodes' : LET r == nodes[id] IN
         /\ r.orphan
         /\ synced[r.uri] # Nothing => r.fqn \notin Fqns(synced[r.uri])
         /\ r.fqn \notin Fqns(synced'[r.uri])]_vars

\* A name stays with its row: no reconcile gives an FQN the graph already knows
\* (a grace-period orphan included) to another row, whose edges are another
\* symbol's.
NamesStayWithTheirRows ==
    [][\A id \in DOMAIN nodes : \A id2 \in DOMAIN nodes' :
         nodes[id].fqn = nodes'[id2].fqn => id = id2]_vars

\* Reconciling a text again is a no-op: no row of the graph changes, and of the edges
\* queries have added since none is invented, and only those of an overloaded name are
\* switched off (its row shows the last of the overloads and is compared with the first).
Settled(u) == synced[u] # Nothing /\ \A id \in RowsOf(u) : Live(id)
ShowsOverloads(u, id) == id \in RowsOf(u) /\ Overloaded(synced[u], nodes[id].fqn)
NothingElseChanges(u) ==
    /\ nodes' = nodes /\ DOMAIN edges' = DOMAIN edges
    /\ \A e \in DOMAIN edges :
         edges'[e] = edges[e] \/ ShowsOverloads(u, e[1]) \/ ShowsOverloads(u, e[2])
ReconcilingAgainChangesNothing ==
    [][(synced' = synced /\ <<nodes', edges'>> # <<nodes, edges>>) =>
         \A u \in Uris : (Settled(u) /\ Reconcile(u, synced[u])) => NothingElseChanges(u)]_vars

\* "Pass 3/4 below give every parked row a real final value (or restore its
\* original one) before commit", db.rs:1225: a reconcile never runs into a
\* unique index, so every text the server reports reaches the graph.
EveryReconcileCommits ==
    \A u \in Uris : \A t \in Texts[u] : \A assigned \in Assignments(u, t) :
        reconcile_file_symbols_tx(u, t, assigned).ok
=============================================================================
