----------------------------- MODULE ResultPages -----------------------------
(***************************************************************************)
(* Listings in pages: find_symbol, find_references, find_callers and       *)
(* find_callees answer with a page and a cursor, the key of the last item  *)
(* returned.  The next page is computed from the graph as it is by then:   *)
(* symbols appear and vanish, move to other lines, gain occurrences, and a *)
(* hover may change their kind, between any two pages.                     *)
(***************************************************************************)
EXTENDS Naturals, FiniteSets, Sequences

CONSTANTS Last,            \* symbols, numbered in the order of their fqns (which are unique)
          Lines,        \* where one may start
          Sites,        \* where one may refer to the anchor
          Limits,       \* page sizes a client may ask for
          MaxPageLimit, \* MAX_PAGE_LIMIT
          Nothing,
          MaxChanges    \* bound: changes of the graph during a listing

Symbols == 1..Last

ASSUME PagesAssumption ==
    /\ Last \in Nat /\ MaxChanges \in Nat /\ MaxPageLimit \in Nat \ {0}
    /\ Lines \subseteq Nat /\ Limits \subseteq Nat /\ Sites \subseteq Nat
    /\ Nothing \notin Symbols \X Lines

VARIABLES
    row,      \* each symbol's row: valid, where it starts, whether it is known to be a type alias, its edges to the anchor
    listing,  \* the request, its cursor and what was returned so far
    touched,  \* history: symbols changed since the listing began
    changes   \* counter for the bound

pagesVars == <<row, listing, touched, changes>>

Row == [valid : BOOLEAN, line : Lines, alias : BOOLEAN, sites : SUBSET Sites]
Request == [of : {"symbols", "neighbours"}, aliases : BOOLEAN, limit : Limits]

PagesInit ==
    /\ row \in [Symbols -> {r \in Row : ~r.alias /\ (r.sites # {} => r.valid)}]
    /\ \A s, t \in Symbols : row[s].line = row[t].line
    /\ listing = Nothing /\ touched = {} /\ changes = 0

-----------------------------------------------------------------------------
SortKey(s) == <<s, row[s].line>>
Before(k, l) == k[1] < l[1] \/ (k[1] = l[1] /\ k[2] < l[2])

\* What the database returns: list_nodes a row per symbol, get_neighbors one per edge.
Rows(of) ==
    IF of = "symbols" THEN {<<s, 0>> : s \in {t \in Symbols : row[t].valid}}
    ELSE {r \in Symbols \X Sites : row[r[1]].valid /\ r[2] \in row[r[1]].sites}

\* group_by_node: one item for each symbol, with all its occurrences.
GroupByNode(rows) ==
    {[node |-> s, sites |-> {r[2] : r \in {q \in rows : q[1] = s}}] : s \in {r[1] : r \in rows}}

Sorted(items) ==
    [i \in 1..Cardinality(items) |-> CHOOSE item \in items :
        Cardinality({other \in items : Before(SortKey(other.node), SortKey(item.node))}) = i - 1]

\* Filter::matches, kind_label: everything, or what is known to be a type alias.
Matches(request, s) == request.aliases => row[s].alias

PageLimit(limit) == IF limit < 1 THEN 1 ELSE IF limit > MaxPageLimit THEN MaxPageLimit ELSE limit

\* Mutant: the cursor is the first item that is left out.
PaginatePast(items, limit, cursor) ==
    LET rest == Sorted({i \in items : cursor = Nothing \/ Before(cursor, SortKey(i.node))})
        most == PageLimit(limit)
    IN IF Len(rest) > most
       THEN [items |-> SubSeq(rest, 1, most), next |-> SortKey(rest[most + 1].node)]
       ELSE [items |-> rest, next |-> Nothing]

\* What comes after the cursor, and a new cursor if that is more than a page.
Paginate(items, limit, cursor) ==
    LET rest == Sorted({i \in items : cursor = Nothing \/ Before(cursor, SortKey(i.node))})
        most == PageLimit(limit)
    IN IF Len(rest) > most
       THEN [items |-> SubSeq(rest, 1, most), next |-> SortKey(rest[most].node)]
       ELSE [items |-> rest, next |-> Nothing]

\* read_calls_page and its like: group, filter, paginate.
Page(request, cursor) ==
    Paginate({i \in GroupByNode(Rows(request.of)) : Matches(request, i.node)}, request.limit, cursor)

-----------------------------------------------------------------------------
\* One query: the first page, or the one after a cursor.
FirstPage(request) ==
    LET page == Page(request, Nothing) IN
    /\ listing = Nothing
    /\ listing' = [request |-> request, returned |-> page.items, cursor |-> page.next]
    /\ UNCHANGED <<row, touched, changes>>

NextPage ==
    /\ listing # Nothing /\ listing.cursor # Nothing
    /\ LET page == Page(listing.request, listing.cursor) IN
       listing' = [listing EXCEPT !.returned = @ \o page.items, !.cursor = page.next]
    /\ UNCHANGED <<row, touched, changes>>

Change(s, new) ==
    /\ listing # Nothing /\ listing.cursor # Nothing /\ changes < MaxChanges
    /\ row' = [row EXCEPT ![s] = new]
    /\ touched' = touched \cup {s} /\ changes' = changes + 1
    /\ UNCHANGED listing

\* A reconcile: the symbol's declaration has moved, is gone, or is there (again).
Move(s, line) == row[s].line # line /\ Change(s, [row[s] EXCEPT !.line = line])
Invalidate(s) == row[s].valid /\ Change(s, [row[s] EXCEPT !.valid = FALSE, !.sites = {}])
Insert(s) == ~row[s].valid /\ Change(s, [row[s] EXCEPT !.valid = TRUE])

\* A background refresh adds an edge.
Refresh(s, site) ==
    row[s].valid /\ site \notin row[s].sites /\ Change(s, [row[s] EXCEPT !.sites = @ \cup {site}])

\* The anchor's calls are invalidated before they are asked for again, or the anchor was
\* reconciled: an edge is gone from a row that stays valid.
Outdate(s, site) ==
    row[s].valid /\ site \in row[s].sites /\ Change(s, [row[s] EXCEPT !.sites = @ \ {site}])

\* find_definition records a construct that a hover has shown.
FindDefinition(s) == row[s].valid /\ ~row[s].alias /\ Change(s, [row[s] EXCEPT !.alias = TRUE])

PagesNext ==
    \/ \E request \in Request : FirstPage(request)
    \/ NextPage
    \/ \E s \in Symbols :
          \/ Invalidate(s) \/ Insert(s) \/ FindDefinition(s)
          \/ \E line \in Lines : Move(s, line)
          \/ \E site \in Sites : Refresh(s, site) \/ Outdate(s, site)

PagesSpec == PagesInit /\ [][PagesNext]_pagesVars

-----------------------------------------------------------------------------
(* Promises.                                                               *)

PagesTypeOK ==
    /\ row \in [Symbols -> Row] /\ touched \subseteq Symbols /\ changes \in 0..MaxChanges
    /\ listing # Nothing => listing.request \in Request /\ \A i \in DOMAIN listing.returned :
                             listing.returned[i].node \in Symbols

Ended == listing # Nothing /\ listing.cursor = Nothing
Times(s) == {i \in DOMAIN listing.returned : listing.returned[i].node = s}
Listed(s) == IF listing.request.of = "symbols" THEN {0} ELSE row[s].sites

\* mcp-tools.md Page, "stable sort key": whatever happens to other symbols between the
\* pages, a symbol that nothing happened to is in the listing once, with all its
\* occurrences, if it belongs there, and not at all otherwise.
EachRowOnce ==
    Ended => \A s \in Symbols \ touched :
        IF row[s].valid /\ Listed(s) # {} /\ Matches(listing.request, s)
        THEN \E i \in Times(s) : Times(s) = {i} /\ listing.returned[i].sites = Listed(s)
        ELSE Times(s) = {}

=============================================================================
