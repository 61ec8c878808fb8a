----------------------------- MODULE GraphTables -----------------------------
(***************************************************************************)
(* The tables of the graph and the commands of the db actor on them        *)
(* (src/graph/db.rs), each as a function of the tables: what they are      *)
(* afterwards and what is answered.  How reconcile_file_symbols pairs rows *)
(* with symbols is the subject of GraphReconcile; here it finds each       *)
(* symbol by its fqn.  Values answered are sets: of ids, hashes, values.   *)
(***************************************************************************)
EXTENDS Naturals, FiniteSets, Functions

CONSTANTS Parent,    \* the symbols of a file, each with its container or NoParent
          NoParent,
          Sited,     \* edge types with an occurrence; "contains" has none
          Values     \* content hashes, and what index_meta holds

Symbols == DOMAIN Parent
EdgeTypes == Sited \cup {"contains"}

ASSUME TablesAssumption ==
    /\ Values \subseteq Nat /\ "contains" \notin Sited
    /\ IsFiniteSet(Symbols) /\ NoParent \notin Symbols
    /\ \A s \in Symbols : Parent[s] \in Symbols \cup {NoParent}

-----------------------------------------------------------------------------
\* No row at all.  `edges` has the keys of edges that have a row, `on` those with a valid
\* one.
NoRows == [nodes |-> <<>>, edges |-> {}, on |-> {}, hashes |-> <<>>, warm |-> {},
           meta |-> {}, next |-> 1]

Ids(d) == DOMAIN d.nodes
IdOf(d, s) == {id \in Ids(d) : d.nodes[id].symbol = s}

Done(d, values) == [tables |-> d, answer |-> [ok |-> TRUE, values |-> values]]
Failed(d) == [tables |-> d, answer |-> [ok |-> FALSE, values |-> {}]]

\* ON DELETE CASCADE
Without(d, ids) ==
    LET Stays(e) == e[1] \notin ids /\ e[2] \notin ids IN
    [d EXCEPT !.nodes = Restrict(@, DOMAIN @ \ ids),
              !.edges = {e \in @ : Stays(e)}, !.on = {e \in @ : Stays(e)},
              !.hashes = Restrict(@, DOMAIN @ \ ids), !.warm = {w \in @ : w[1] \notin ids}]

\* New rows, each of a symbol.
Inserted(d, ids, symbolOf) ==
    [d EXCEPT !.nodes = [id \in Ids(d) \cup ids |->
                  IF id \notin ids THEN d.nodes[id]
                  ELSE [symbol |-> symbolOf[id], valid |-> TRUE, orphan |-> FALSE, signature |-> FALSE]],
              !.next = @ + Cardinality(ids)]

SwitchedOn(d, e) == [d EXCEPT !.edges = @ \cup {e}, !.on = @ \cup {e}]

\* UPSERT_SQL: the row of that fqn is overwritten, hover results included.  The container
\* must exist.
upsert_node(d, c) ==
    LET ids == IdOf(d, c.symbol)
        new == IF ids = {} THEN Inserted(d, {d.next}, [id \in {d.next} |-> c.symbol])
               ELSE [d EXCEPT !.nodes = [id \in Ids(d) |->
                        IF id \in ids THEN [d.nodes[id] EXCEPT !.valid = TRUE, !.orphan = FALSE, !.signature = FALSE]
                        ELSE d.nodes[id]]]
    IN IF c.container # {} /\ ~(c.container \subseteq Ids(d)) THEN Failed(d)
       ELSE Done(new, IdOf(new, c.symbol))

\* The whole of upsert_edge, as if nobody came in between.
upsert_edge(d, c) ==
    IF {c.edge[1], c.edge[2]} \subseteq Ids(d) THEN Done(SwitchedOn(d, c.edge), {}) ELSE Failed(d)

\* reconcile_file_symbols, in one transaction: recorded hashes go, changed symbols lose
\* their edges, missing ones take a strike or go, new ones come, containment is restored.
reconcile_file_symbols(d, c) ==
    LET struck   == {id \in Ids(d) : d.nodes[id].symbol \notin c.symbols}
        changed  == {id \in Ids(d) : d.nodes[id].symbol \in c.changed}
        updated  == [d EXCEPT
            !.hashes = <<>>,
            !.on     = {e \in @ : {e[1], e[2]} \cap changed = {}},
            !.nodes  = [id \in Ids(d) |-> [d.nodes[id] EXCEPT !.valid = id \notin struck,
                                                          !.orphan = id \in struck]]]
        kept     == Without(updated, {id \in struck : d.nodes[id].orphan})
        missing  == {s \in c.symbols : IdOf(d, s) = {}}
        ids      == d.next..(d.next + Cardinality(missing) - 1)
        new      == CHOOSE f \in [ids -> missing] :
                        /\ \A s \in missing : \E i \in ids : f[i] = s
                        /\ \A i, j \in ids : Parent[f[i]] = f[j] => j < i
        full     == IF missing = {} THEN kept ELSE Inserted(kept, ids, new)
        contains == {<<i, j, "contains">> : i \in Ids(full), j \in Ids(full)}
        restored == {e \in contains : full.nodes[e[2]].symbol \in c.symbols
                                        /\ Parent[full.nodes[e[2]].symbol] = full.nodes[e[1]].symbol}
    IN Done([full EXCEPT !.edges = @ \cup restored, !.on = @ \cup restored], {})

\* update_node_construct, update_node_signature: no row, no error
update_node_signature(d, c) ==
    Done([d EXCEPT !.nodes = [id \in Ids(d) |->
            IF id = c.id THEN [d.nodes[id] EXCEPT !.signature = TRUE] ELSE d.nodes[id]]], {})

set_callees_cache_hash(d, c) ==
    LET hashes == [id \in DOMAIN d.hashes \cup {c.id} |-> IF id = c.id THEN c.value ELSE d.hashes[id]] IN
    IF c.id \in Ids(d) THEN Done([d EXCEPT !.hashes = hashes], {}) ELSE Failed(d)

\* OR IGNORE does not forgive a missing node.
mark_materialized(d, c) ==
    IF c.id \in Ids(d) THEN Done([d EXCEPT !.warm = @ \cup {<<c.id, c.type>>}], {}) ELSE Failed(d)

invalidate_outgoing_calls(d, c) ==
    Done([d EXCEPT !.on = {e \in @ : ~(e[1] = c.id /\ e[3] = "calls")}], {})

set_meta(d, c) == Done([d EXCEPT !.meta = {c.value}], {})

\* The reads.
get_node_by_fqn(d, c) == Done(d, IdOf(d, c.symbol))
list_nodes(d) == Done(d, {id \in Ids(d) : d.nodes[id].valid})
get_callees_cache_hash(d, c) == Done(d, IF c.id \in DOMAIN d.hashes THEN {d.hashes[c.id]} ELSE {})
is_materialized(d, c) == Done(d, {c.id} \cap {w[1] : w \in {v \in d.warm : v[2] = c.type}})
get_meta(d) == Done(d, d.meta)
get_neighbors(d, c) ==
    LET far == IF c.direction = "Outgoing" THEN 2 ELSE 1 IN
    Done(d, {e[far] : e \in {f \in d.on : f[3 - far] = c.id /\ f[3] = c.type /\ d.nodes[f[far]].valid}})

-----------------------------------------------------------------------------
\* DbCommand, about the rows that were ever there.
QueryCommands(ids) ==
    [op : {"GetNodeByFqn"}, symbol : Symbols] \cup [op : {"ListNodes", "GetMeta"}]
    \cup [op : {"GetNeighbors"}, id : ids, type : Sited, direction : {"Incoming", "Outgoing"}]
    \cup [op : {"UpsertEdge"}, edge : {e \in ids \X ids \X Sited : e[1] # e[2]}]
    \cup [op : {"GetCalleesCacheHash", "UpdateNodeSignature", "InvalidateOutgoingCalls"}, id : ids]
    \cup [op : {"SetCalleesCacheHash"}, id : ids, value : Values]
    \cup [op : {"IsMaterialized", "MarkMaterialized"}, id : ids, type : Sited]

SyncCommands ==
    {c \in [op : {"ReconcileFileSymbols"}, changed : SUBSET Symbols, symbols : SUBSET Symbols] :
        c.changed \subseteq c.symbols /\ \A s \in c.symbols : Parent[s] \in c.symbols \cup {NoParent}}
    \cup [op : {"SetMeta"}, value : Values]

IndexCommands(ids) ==
    [op : {"UpsertNode"}, symbol : Symbols, container : {{}} \cup {{id} : id \in ids}]
    \cup [op : {"UpsertEdge"}, edge : {e \in ids \X ids \X {"contains"} : e[1] # e[2]}]
    \cup [op : {"SetMeta"}, value : Values]

Commands(d) == LET ids == 1..(d.next - 1) IN QueryCommands(ids) \cup SyncCommands \cup IndexCommands(ids)

\* An edge, one of whose ends is gone.
Overtaken(d, c) == c.op = "UpsertEdge" /\ ~({c.edge[1], c.edge[2]} \subseteq Ids(d))

\* run: one command.
Execute(d, c) ==
    CASE c.op = "UpsertNode" -> upsert_node(d, c)
      [] c.op = "GetNodeByFqn" -> get_node_by_fqn(d, c)
      [] c.op = "ListNodes" -> list_nodes(d)
      [] c.op = "GetNeighbors" -> get_neighbors(d, c)
      [] c.op = "UpsertEdge" -> upsert_edge(d, c)
      [] c.op = "SetMeta" -> set_meta(d, c)
      [] c.op = "GetMeta" -> get_meta(d)
      [] c.op = "ReconcileFileSymbols" -> reconcile_file_symbols(d, c)
      [] c.op = "UpdateNodeSignature" -> update_node_signature(d, c)
      [] c.op = "GetCalleesCacheHash" -> get_callees_cache_hash(d, c)
      [] c.op = "SetCalleesCacheHash" -> set_callees_cache_hash(d, c)
      [] c.op = "IsMaterialized" -> is_materialized(d, c)
      [] c.op = "MarkMaterialized" -> mark_materialized(d, c)
      [] c.op = "InvalidateOutgoingCalls" -> invalidate_outgoing_calls(d, c)
=============================================================================
