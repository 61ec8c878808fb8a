------------------------------ MODULE IndexSync ------------------------------
(***************************************************************************)
(* How the graph follows the files: the daemon's file watcher              *)
(* (src/indexer/watcher.rs) and its startup-drift pass                     *)
(* (src/indexer/reconcile.rs), two tasks that fetch a file's symbols from  *)
(* the same language server and commit them to the same graph, each one    *)
(* file at a time and with an await between every two steps.               *)
(*                                                                         *)
(* A text stands for its symbols: what the graph shows of a file is the    *)
(* text they came from. Blank is a text without symbols. A server that has *)
(* just started may report no symbols for any text (it is "cold").         *)
(***************************************************************************)
EXTENDS Naturals, FiniteSets

CONSTANTS
    Files,
    Texts,        \* what a file may contain
    Blank,        \* the text without symbols
    Missing,      \* no file; as a recorded hash: the empty string
    None,         \* nothing recorded, nothing open
    MaxRetries,   \* SUSPICIOUS_RETRY_ATTEMPTS
    StartsCold,   \* whether a server may answer before it has warmed up
    MaxEdits,     \* bound: edits of each file, the mishaps counted with them
    MaxStarts,    \* bound: starts of the daemon
    MaxChanges,   \* bound: edits of a file and starts, together
    MaxMishaps    \* bound: server crashes, failed requests and failed reads

ASSUME SyncAssumption ==
    /\ Blank \in Texts /\ Missing \notin Texts
    /\ None \notin Texts \cup Files \cup {Missing}
    /\ {MaxEdits, MaxStarts, MaxChanges, MaxMishaps} \subseteq Nat /\ MaxRetries \in Nat \ {0}
    /\ StartsCold \in BOOLEAN

Workers == {"watcher", "drift"}

VARIABLES
    disk,     \* [Files -> content]
    version,  \* history: [Files -> number of edits so far]
    graph,    \* [Files -> what the graph shows of it, the rows it has left]
    stored,   \* [Files -> startup_drift_content_hash in index_meta]
    up,       \* the daemon runs
    starts,   \* times it was started
    watching, \* its watcher started, too
    server,   \* the language server
    mishaps,  \* crashes and failures so far
    doc,      \* [Files -> text the server has open]
    raised,   \* files changed since, with an event on its way to the watcher if
              \* there is one
    pending,  \* the watcher's debounced files
    todo,     \* [Workers -> files still to be visited in this round]
    held,     \* the drift pass's suspicious files
    tries,    \* retries made for the one in hand
    work,     \* [Workers -> what each is doing]
    missed,   \* history: files whose last visit failed, was given up, was wrongly
              \* spared, or was misled by a failed read or a cold server
    mixed     \* history: files last committed while both workers were at it

vars == <<disk, version, graph, stored, up, starts, watching, server, mishaps, doc, raised,
          pending, todo, held, tries, work, missed, mixed>>

Idle == [stage |-> "idle", file |-> None, hash |-> None, hashVersion |-> 0,
         text |-> None, textVersion |-> 0, misled |-> FALSE, mixed |-> FALSE]
Content == Texts \cup {Missing}
HasSymbols(c) == c \notin {Blank, Missing}

\* a missing file is read as the empty text
TextOf(c) == IF c = Missing THEN Blank ELSE c

-----------------------------------------------------------------------------
(***************************************************************************)
(* Steps of a worker                                                       *)
(***************************************************************************)
At(w, stage) == up /\ work[w].stage = stage
Goto(w, stage) == work' = [work EXCEPT ![w].stage = stage]
OtherOn(w, f) == \E o \in Workers \ {w} : work[o].file = f

\* a worker begins with a file: from now on the two disturb each other if both
\* are at the same one
Begin(w, f, stage) ==
    work' = [o \in Workers |->
        IF o = w THEN [Idle EXCEPT !.stage = stage, !.file = f, !.mixed = OtherOn(w, f)]
        ELSE [work[o] EXCEPT !.mixed = @ \/ work[o].file = f]]

\* a worker is through with its file, having committed it or not
Finish(w) == work' = [work EXCEPT ![w] = Idle]

\* Mutant: a file whose server is down is let go instead of held.
DriftLeaves_mutant2(f) ==
    IF server = "down" /\ f \notin held THEN UNCHANGED <<held, tries, missed>>
    ELSE IF f \in held /\ tries = MaxRetries
    THEN held' = held \ {f} /\ tries' = 0 /\ missed' = missed \cup {f}
    ELSE held' = held \cup {f} /\ UNCHANGED <<tries, missed>>

\* a file the drift pass cannot settle this time is held for the retries, or
\* has had them all and is given up
DriftLeaves(f) ==
    IF f \in held /\ tries = MaxRetries
    THEN held' = held \ {f} /\ tries' = 0 /\ missed' = missed \cup {f}
    ELSE held' = held \cup {f} /\ UNCHANGED <<tries, missed>>

\* a retried file is resolved by a commit, a skip or an error
DriftSettles(f) ==
    /\ held' = held \ {f}
    /\ tries' = IF f \in held THEN 0 ELSE tries

around == <<disk, version, up, starts, watching, server, raised, pending>>
outside == <<around, mishaps>>

\* the bound on what goes wrong
Mishap == /\ mishaps < MaxMishaps /\ \A f \in Files : version[f] + mishaps < MaxEdits
          /\ mishaps' = mishaps + 1

\* uri: first pass, or the next retry of the suspicious file in hand
TakeWatched(f) ==
    /\ At("watcher", "idle") /\ f \in todo["watcher"]
    /\ todo' = [todo EXCEPT !["watcher"] = @ \ {f}]
    /\ Begin("watcher", f, "read")
    /\ UNCHANGED <<outside, graph, stored, doc, held, tries, missed, mixed>>

TakeDrifted(f) ==
    /\ At("drift", "idle") /\ f \in todo["drift"]
    /\ todo' = [todo EXCEPT !["drift"] = @ \ {f}]
    /\ Begin("drift", f, "hash")
    /\ UNCHANGED <<outside, graph, stored, doc, held, tries, missed, mixed>>

\* the suspicious files are retried one after the other, each until it is
\* resolved or out of retries
Retry(f) ==
    /\ At("drift", "idle") /\ todo["drift"] = {} /\ f \in held
    /\ f = CHOOSE g \in held : TRUE
    /\ tries < MaxRetries
    /\ tries' = tries + 1
    /\ Begin("drift", f, "hash")
    /\ UNCHANGED <<outside, graph, stored, doc, todo, held, missed, mixed>>

\* A read of a file finds c.  One that fails (permissions, text that is not UTF-8) is
\* taken for a missing file.
Found(f, c) ==
    \/ c = disk[f] /\ UNCHANGED mishaps
    \/ c = Missing /\ c # disk[f] /\ Mishap

\* current_content_hash and the comparison that spares the file its fetch
Spared(f, c) == c # Missing /\ stored[f].hash = c
Hash(c) ==
    LET f == work["drift"].file IN
    /\ At("drift", "hash") /\ Found(f, c)
    /\ IF Spared(f, c)
       THEN /\ Finish("drift") /\ DriftSettles(f)
            /\ missed' = IF graph[f].shown = disk[f] THEN missed ELSE missed \cup {f}
       ELSE /\ work' = [work EXCEPT !["drift"].stage = "read",
                            !["drift"].hash = c, !["drift"].hashVersion = version[f]]
            /\ UNCHANGED <<held, tries, missed>>
    /\ UNCHANGED <<around, graph, stored, doc, todo, mixed>>

\* acquire_for_watcher finds no server: the watcher lets the event go, the
\* drift pass keeps the file for its retries
Unavailable(w) ==
    LET f == work[w].file IN
    /\ At(w, "read") /\ server = "down"
    /\ Finish(w)
    /\ IF w = "drift" THEN DriftLeaves(f)
       ELSE missed' = missed \cup {f} /\ UNCHANGED <<held, tries>>
    /\ UNCHANGED <<outside, graph, stored, doc, todo, mixed>>

\* read_to_string
Read(w, c) ==
    LET f == work[w].file IN
    /\ At(w, "read") /\ server # "down" /\ Found(f, c)
    /\ work' = [work EXCEPT ![w].stage = "open", ![w].misled = c # disk[f],
                    ![w].text = c, ![w].textVersion = version[f]]
    /\ UNCHANGED <<around, graph, stored, doc, todo, held, tries, missed, mixed>>

\* ensure_document: the server now has this worker's text, whoever asks next
Open(w) ==
    /\ At(w, "open")
    /\ doc' = [doc EXCEPT ![work[w].file] =
                 [text |-> TextOf(work[w].text), version |-> work[w].textVersion]]
    /\ Goto(w, "ask")
    /\ UNCHANGED <<outside, graph, stored, todo, held, tries, missed, mixed>>

\* documentSymbol: of the open text, or of nothing while the server is cold.
\* Whether the file exists is still what the read said.
Answer(w, c, v) ==
    work' = [work EXCEPT ![w].stage = IF w = "drift" THEN "judge" ELSE "commit",
                 ![w].text = IF work[w].text = Missing /\ ~HasSymbols(c) THEN Missing ELSE c,
                 ![w].textVersion = v, ![w].misled = @ \/ server = "cold"]
Ask(w) ==
    LET d == doc[work[w].file] IN
    /\ At(w, "ask")
    /\ \/ Answer(w, d.text, d.version)
       \/ server = "cold" /\ Answer(w, Blank, d.version)
    /\ UNCHANGED <<outside, graph, stored, doc, todo, held, tries, missed, mixed>>

\* the suspicious-empty guard: rows counted whether or not they are orphans
HasRows_mutant(f) == graph[f].rows = 2
HasRows(f) == graph[f].rows > 0
Judge ==
    LET f == work["drift"].file IN
    /\ At("drift", "judge")
    /\ IF work["drift"].text = Blank /\ HasRows(f)
       THEN Finish("drift") /\ DriftLeaves(f)
       ELSE Goto("drift", "commit") /\ UNCHANGED <<held, tries, missed>>
    /\ UNCHANGED <<outside, graph, stored, doc, todo, mixed>>

\* reconcile_file_symbols, as far as it is seen from here: symbols leave their
\* rows live (2); without any, live rows become orphans (1) and orphans go (0)
RowsAfter(rows, c) == IF HasSymbols(c) THEN 2 ELSE IF rows = 0 THEN 0 ELSE rows - 1
Commit(w) ==
    LET f == work[w].file
        c == work[w].text
    IN  /\ At(w, "commit")
        /\ graph' = [graph EXCEPT ![f] = [shown |-> c, rows |-> RowsAfter(@.rows, c),
                                          version |-> work[w].textVersion]]
        /\ missed' = IF work[w].misled THEN missed \cup {f} ELSE missed \ {f}
        /\ mixed' = IF work[w].mixed THEN mixed \cup {f} ELSE mixed \ {f}
        /\ IF w = "drift" THEN Goto(w, "store") ELSE Finish(w)
        /\ UNCHANGED <<outside, stored, doc, todo, held, tries>>

\* set_meta: the hash taken before the fetch
Recorded_mutant(f) ==
    [hash |-> disk[f], version |-> version[f], clean |-> ~work["drift"].mixed]
Recorded(f) ==
    [hash |-> work["drift"].hash, version |-> work["drift"].hashVersion,
     clean |-> ~work["drift"].mixed]
Store ==
    LET f == work["drift"].file IN
    /\ At("drift", "store")
    /\ stored' = [stored EXCEPT ![f] = Recorded(f)]
    /\ Finish("drift")
    /\ DriftSettles(f)
    /\ UNCHANGED <<outside, graph, doc, todo, missed, mixed>>

\* a request or a database call that times out or fails, a server that died
\* under it ("lost"), a commit that rolls back: logged, and not tried again by either worker
Fails(w) ==
    LET f == work[w].file IN
    /\ up /\ \/ work[w].stage \in {"hash", "ask", "judge", "commit", "store"} /\ Mishap
             \/ work[w].stage = "lost" /\ UNCHANGED mishaps
    /\ missed' = missed \cup {f}
    /\ Finish(w)
    /\ IF w = "drift" THEN DriftSettles(f) ELSE UNCHANGED <<held, tries>>
    /\ UNCHANGED <<around, graph, stored, doc, todo, mixed>>

-----------------------------------------------------------------------------
(***************************************************************************)
(* The watcher's select loop: it takes events and fires its debounce timer *)
(* only between two rounds of visits.                                      *)
(***************************************************************************)
Selecting == At("watcher", "idle") /\ todo["watcher"] = {}

Receive(f) ==
    /\ Selecting /\ watching /\ f \in raised
    /\ raised' = raised \ {f}
    /\ pending' = pending \cup {f}
    /\ UNCHANGED <<disk, version, up, starts, watching, server, mishaps, graph, stored, doc,
                   todo, held, tries, work, missed, mixed>>

\* the debounced files become the round of visits that follows
Round == pending
Fire ==
    /\ Selecting /\ pending # {}
    /\ todo' = [todo EXCEPT !["watcher"] = Round]
    /\ pending' = {}
    /\ UNCHANGED <<disk, version, up, starts, watching, server, mishaps, raised, graph, stored,
                   doc, held, tries, work, missed, mixed>>

-----------------------------------------------------------------------------
(***************************************************************************)
(* The daemon, the server, the editor                                      *)
(***************************************************************************)
NoDoc == [f \in Files |-> [text |-> None, version |-> 0]]

\* The files start out indexed (semnav index), or not there at all.
Init ==
    /\ disk \in [Files -> Content]
    /\ version = [f \in Files |-> 0]
    /\ graph = [f \in Files |-> [shown |-> disk[f], version |-> 0,
                                 rows |-> IF HasSymbols(disk[f]) THEN 2 ELSE 0]]
    /\ stored = [f \in Files |-> [hash |-> None, version |-> 0, clean |-> TRUE]]
    /\ up = FALSE /\ starts = 0 /\ watching = FALSE
    /\ server = "down" /\ mishaps = 0
    /\ doc = NoDoc
    /\ raised = {} /\ pending = {}
    /\ todo = [w \in Workers |-> {}]
    /\ held = {} /\ tries = 0
    /\ work = [w \in Workers |-> Idle]
    /\ missed = {} /\ mixed = {}

\* run_daemon: the watcher is subscribed, or it fails to start and the daemon goes on
\* without; the drift pass is spawned beside it
Start ==
    /\ ~up /\ starts < MaxStarts /\ \A f \in Files : version[f] + starts < MaxChanges
    /\ up' = TRUE /\ starts' = starts + 1
    /\ watching' \in BOOLEAN
    /\ work' = [work EXCEPT !["drift"].stage = "scan"]
    /\ UNCHANGED <<disk, version, graph, stored, server, mishaps, doc, raised, pending,
                   todo, held, tries, missed, mixed>>

\* drift_candidates: the files there are and those the graph has live rows of
Candidates == {f \in Files : disk[f] # Missing \/ graph[f].shown # Missing}
Scan ==
    /\ At("drift", "scan")
    /\ todo' = [todo EXCEPT !["drift"] = Candidates]
    /\ Finish("drift")
    /\ UNCHANGED <<outside, graph, stored, doc, held, tries, missed, mixed>>

\* It stops or dies, at any point: nothing waits for the drift pass, and the
\* events the watcher holds are dropped.
Exit ==
    /\ up /\ up' = FALSE /\ watching' = FALSE
    /\ server' = "down" /\ doc' = NoDoc
    /\ raised' = {} /\ pending' = {}
    /\ todo' = [w \in Workers |-> {}]
    /\ held' = {} /\ tries' = 0
    /\ work' = [w \in Workers |-> Idle]
    /\ UNCHANGED <<disk, version, graph, stored, starts, mishaps, missed, mixed>>

ServerStarts ==
    /\ up /\ server = "down"
    /\ server' = IF StartsCold THEN "cold" ELSE "warm"
    /\ UNCHANGED <<disk, version, graph, stored, up, starts, watching, mishaps, doc, raised, pending,
                   todo, held, tries, work, missed, mixed>>

ServerWarmsUp ==
    /\ server = "cold" /\ server' = "warm"
    /\ UNCHANGED <<disk, version, graph, stored, up, starts, watching, mishaps, doc, raised, pending,
                   todo, held, tries, work, missed, mixed>>

ServerCrashes ==
    /\ server # "down" /\ Mishap
    /\ server' = "down"
    /\ doc' = NoDoc
    /\ work' = [w \in Workers |-> IF work[w].stage \in {"open", "ask"}
                                  THEN [work[w] EXCEPT !.stage = "lost"] ELSE work[w]]
    /\ UNCHANGED <<disk, version, graph, stored, up, starts, watching, raised, pending, todo,
                   held, tries, missed, mixed>>

\* A file is written, created or removed; a daemon that watches gets an event.
Edit(f, c) ==
    /\ version[f] + mishaps < MaxEdits /\ version[f] + starts < MaxChanges
    /\ c # disk[f]
    /\ disk' = [disk EXCEPT ![f] = c]
    /\ version' = [version EXCEPT ![f] = @ + 1]
    /\ raised' = IF up THEN raised \cup {f} ELSE raised
    /\ UNCHANGED <<graph, stored, up, starts, watching, server, mishaps, doc, pending, todo,
                   held, tries, work, missed, mixed>>

DriftStep ==
    \/ Scan \/ Judge \/ Store
    \/ \E c \in Content : Hash(c)
    \/ \E f \in Files : TakeDrifted(f) \/ Retry(f)
WatcherStep == Fire \/ \E f \in Files : Receive(f) \/ TakeWatched(f)
FetchStep(w) ==
    Unavailable(w) \/ (\E c \in Content : Read(w, c)) \/ Open(w) \/ Ask(w) \/ Commit(w)

Next ==
    \/ Start \/ Exit
    \/ ServerStarts \/ ServerWarmsUp \/ ServerCrashes
    \/ \E f \in Files : \E c \in Content : Edit(f, c)
    \/ WatcherStep \/ DriftStep
    \/ \E w \in Workers : FetchStep(w) \/ Fails(w)

Spec == Init /\ [][Next]_vars

(***************************************************************************)
(* The tasks run on as long as the daemon does: documentSymbol has a       *)
(* deadline, the retries are timed. A worker waits between two files while *)
(* a query is live (wait_until_query_idle): that it gets its turn takes    *)
(* moments without one, which the daemon cannot promise and this assumes.  *)
(***************************************************************************)
Fairness ==
    /\ WF_vars(WatcherStep) /\ WF_vars(DriftStep)
    /\ \A w \in Workers : WF_vars(FetchStep(w)) /\ WF_vars(Fails(w) /\ work[w].stage = "lost")
FairSpec == Spec /\ Fairness

-----------------------------------------------------------------------------
(***************************************************************************)
(* Properties                                                              *)
(***************************************************************************)
Stages == {"idle", "scan", "hash", "read", "open", "ask", "judge", "commit", "store", "lost"}

\* The variables stay in their ranges; a worker has a file exactly while it is
\* visiting one, and nothing of a daemon outlives it.
TypeOK ==
    /\ disk \in [Files -> Content] /\ version \in [Files -> 0..MaxEdits]
    /\ graph \in [Files -> [shown : Content, rows : 0..2, version : 0..MaxEdits]]
    /\ stored \in [Files -> [hash : Content \cup {None}, version : 0..MaxEdits, clean : BOOLEAN]]
    /\ up \in BOOLEAN /\ watching \in BOOLEAN /\ starts \in 0..MaxStarts /\ mishaps \in 0..MaxMishaps
    /\ server \in {"down", "cold", "warm"}
    /\ doc \in [Files -> [text : Texts \cup {None}, version : 0..MaxEdits]]
    /\ raised \in SUBSET Files /\ pending \in SUBSET Files /\ held \in SUBSET Files
    /\ todo \in [Workers -> SUBSET Files]
    /\ tries \in 0..MaxRetries
    /\ missed \in SUBSET Files /\ mixed \in SUBSET Files
    /\ \A w \in Workers :
         /\ work[w].stage \in Stages
         /\ work[w].file \in Files <=> work[w].stage \notin {"idle", "scan"}
    /\ ~up => work = [w \in Workers |-> Idle] /\ raised \cup pending \cup held = {}

\* A recorded hash is never of a younger text than the graph was made from:
\* otherwise an edit between the two reads would be skipped at every later
\* start. Said of hashes whose visit the watcher did not get into.
HashIsNotAhead ==
    \A f \in Files : (stored[f].clean /\ stored[f].hash # None) =>
        stored[f].version <= graph[f].version

\* The drift pass never empties a file that still has rows, be they a strike
\* from deletion, on account of a server that is warming up: over however many
\* restarts. Said of visits the watcher did not get into, and of a file that could be
\* read (one that could not counts as removed).
DriftNeverErases ==
    [][\A f \in Files :
        (/\ work["drift"].stage = "commit" /\ work'["drift"].stage = "store"
         /\ work["drift"].file = f /\ ~work["drift"].mixed
         /\ graph[f].rows > 0)
        => graph'[f].shown # Blank]_vars

\* Once a daemon stays up with a warm server, the graph comes to show every
\* file as it is, through an event, one that came in the middle of a round included,
\* or, for what changed while no daemon ran, through the drift pass and its
\* retries: unless the last visit to the file failed, was given up or misled, or
\* was one the two workers made at once, or the file changed since the start of a
\* daemon whose watcher could not be started.
EditsReachTheGraph ==
    \A f \in Files : <>[](up /\ server = "warm") =>
        <>[](\/ graph[f].shown = disk[f] \/ f \in missed \cup mixed
             \/ ~watching /\ f \in raised)

\* "A match means the file provably hasn't changed since then, so it's reported
\* as a no-op", docs/design/daemon-lifecycle.md:100: a file is skipped only if
\* the graph shows it as it is.
SkipIsSafe ==
    [][\A f \in Files :
        (work["drift"].stage = "hash" /\ work["drift"].file = f /\ work'["drift"].stage = "idle" /\ up')
        => graph[f].shown = disk[f]]_vars
=============================================================================
