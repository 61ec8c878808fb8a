------------------------------- MODULE DbActor -------------------------------
(***************************************************************************)
(* src/graph/db.rs, DbActor: a process has one thread that owns the        *)
(* connection and takes commands from a bounded channel; any task that     *)
(* holds a handle sends its command there and waits for the answer on a    *)
(* channel of its own.  The file may be open in two processes: `semnav     *)
(* index` is run while the daemon lives, and there every statement is a    *)
(* transaction of its own.  A process may be killed, and be started again, *)
(* and a daemon that stops drops its tasks and waits for the thread; a     *)
(* statement may fail.                                                     *)
(***************************************************************************)
EXTENDS GraphTables, SequencesExt

CONSTANTS Queriers,   \* tasks of the daemon that answer queries
          Syncer,     \* the daemon's watcher or drift pass
          Indexer,    \* the task of `semnav index`
          Capacity,   \* of the channel
          MaxCalls,   \* bound: calls
          MaxMishaps  \* bound: times a process is killed or stopped, or a statement fails

Tasks == Queriers \cup {Syncer, Indexer}
Processes == {"daemon", "index"}
Owner(t) == IF t = Indexer THEN "index" ELSE "daemon"
TasksOf(p) == {t \in Tasks : Owner(t) = p}

ASSUME ActorAssumption ==
    /\ Syncer # Indexer /\ {Syncer, Indexer} \cap Queriers = {}
    /\ Capacity \in Nat \ {0} /\ MaxCalls \in Nat /\ MaxMishaps \in Nat

VARIABLES
    db,      \* the database file
    twice,   \* edges that have two rows in it
    channel,   \* each process's channel, and who waits for room in it: [task, command] in order
    thread,  \* each process's thread: at "recv", "run", "insert", "update" or "reply", with its command
    task,    \* each task: at "idle", "wait", "done" or "dropped"
    process, \* "up", "stopping" or "down"
    calls, mishaps,  \* counters for the bounds
    losses   \* processes killed and statements failed

actorVars == <<db, twice, channel, thread, task, process, calls, mishaps, losses>>
counts == <<calls, mishaps, losses>>

\* A new file, one whose indexing was cut short, and an indexed one, with all its symbols
\* and with some that the last reconcile missed.
Initial ==
    LET Synced(d, symbols) ==
            Execute(d, [op |-> "ReconcileFileSymbols", changed |-> {}, symbols |-> symbols]).tables
        rows == Synced(NoRows, Symbols)
    IN  {NoRows, [rows EXCEPT !.edges = {}, !.on = {}], rows}
        \cup {Synced(rows, {s}) : s \in {r \in Symbols : Parent[r] = NoParent}}

Receiving == [at |-> "recv"]

ActorInit ==
    /\ db \in Initial /\ twice = {}
    /\ channel = [p \in Processes |-> <<>>] /\ thread = [p \in Processes |-> Receiving]
    /\ task = [t \in Tasks |-> [at |-> "idle"]] /\ process = [p \in Processes |-> "up"]
    /\ calls = 0 /\ mishaps = 0 /\ losses = 0

-----------------------------------------------------------------------------
(* A task.                                                                 *)

IsAt(t, at) == task[t].at = at
Goes(t, to) == task' = [task EXCEPT ![t] = to]

CommandsOf(t) ==
    LET ids == 1..(db.next - 1) IN
    CASE t = Indexer -> IndexCommands(ids)
      [] t = Syncer -> SyncCommands
      [] OTHER -> QueryCommands(ids)

\* tx.send, rx.await: in line for the thread.  The first Capacity commands are in the
\* channel, the tasks of the others wait for room, in order.
Call(t, c) ==
    /\ process[Owner(t)] = "up" /\ IsAt(t, "idle") /\ calls < MaxCalls
    /\ channel' = [channel EXCEPT ![Owner(t)] = Append(@, [task |-> t, command |-> c])]
    /\ Goes(t, [at |-> "wait", command |-> c]) /\ calls' = calls + 1
    /\ UNCHANGED <<db, twice, thread, process, mishaps, losses>>

Resume(t) ==
    /\ IsAt(t, "done") /\ Goes(t, [at |-> "idle"])
    /\ UNCHANGED <<db, twice, channel, thread, process, calls, mishaps, losses>>

-----------------------------------------------------------------------------
(* The thread.                                                             *)

Sets(p, to) == thread' = [thread EXCEPT ![p] = to]

Receive(p) ==
    /\ thread[p].at = "recv" /\ channel[p] # <<>>
    /\ Sets(p, [at |-> "run", task |-> Head(channel[p]).task, command |-> Head(channel[p]).command])
    /\ channel' = [channel EXCEPT ![p] = Tail(@)]
    /\ UNCHANGED <<db, twice, task, process, calls, mishaps, losses>>

\* The rows of an edge go together, with one of its ends.
Answers(p, done, again) ==
    /\ db' = done.tables /\ twice' = (twice \cup again) \cap db'.edges
    /\ Sets(p, [at |-> "reply", task |-> thread[p].task, command |-> thread[p].command,
                answer |-> done.answer])
    /\ UNCHANGED <<channel, task, process>>

\* Mutant: a command nobody waits for any more is not run.
RunIfAwaited(p) ==
    /\ thread[p].at = "run" /\ thread[p].command.op # "UpsertEdge"
    /\ Answers(p, IF IsAt(thread[p].task, "wait") THEN Execute(db, thread[p].command) ELSE Done(db, {}), {})
    /\ UNCHANGED counts

\* One command, one transaction.
Run(p) ==
    /\ thread[p].at = "run" /\ thread[p].command.op # "UpsertEdge"
    /\ Answers(p, Execute(db, thread[p].command), {}) /\ UNCHANGED counts

\* upsert_edge: two statements.
SelectEdge(p) ==
    /\ thread[p].at = "run" /\ thread[p].command.op = "UpsertEdge"
    /\ Sets(p, [thread[p] EXCEPT !.at = IF thread[p].command.edge \in db.edges THEN "update" ELSE "insert"])
    /\ UNCHANGED <<db, twice, channel, task, process, calls, mishaps, losses>>

ReactivateEdge(p) ==
    LET e == thread[p].command.edge IN
    /\ thread[p].at = "update"
    /\ Answers(p, Done([db EXCEPT !.on = @ \cup ({e} \cap db.edges)], {}), {}) /\ UNCHANGED counts

\* The foreign keys hold; the unique index takes two rows without a site for two edges.
InsertEdge(p) ==
    LET e == thread[p].command.edge
        refused == (e \in db.edges /\ e[3] \in Sited) \/ ~({e[1], e[2]} \subseteq Ids(db))
    IN  /\ thread[p].at = "insert"
        /\ IF refused THEN Answers(p, Failed(db), {})
           ELSE Answers(p, Done(SwitchedOn(db, e), {}), {e} \cap db.edges)
        /\ UNCHANGED counts

\* A statement fails, after five seconds behind the other process's transaction or
\* because the file cannot be read or written: a transaction is rolled back.
StatementFails(p) ==
    /\ thread[p].at \in {"run", "insert", "update"} /\ mishaps < MaxMishaps
    /\ Answers(p, Failed(db), {})
    /\ mishaps' = mishaps + 1 /\ losses' = losses + 1
    /\ UNCHANGED calls

\* reply.send: nobody may be waiting.
Reply(p) ==
    /\ thread[p].at = "reply" /\ Sets(p, Receiving)
    /\ IF IsAt(thread[p].task, "wait")
       THEN Goes(thread[p].task, [at |-> "done", answer |-> thread[p].answer])
       ELSE UNCHANGED task
    /\ UNCHANGED <<db, twice, channel, process, calls, mishaps, losses>>

-----------------------------------------------------------------------------
(* Processes.                                                              *)

\* The daemon mishaps, or the index is complete: the runtime drops the tasks.
Stop(p) ==
    /\ process[p] = "up" /\ mishaps < MaxMishaps
    /\ process' = [process EXCEPT ![p] = "stopping"] /\ mishaps' = mishaps + 1
    /\ UNCHANGED <<db, twice, channel, thread, task, calls, losses>>

\* A command in the channel stays there, one that waited for room goes with its task.
Drop(t) ==
    LET line == channel[Owner(t)]
        waits == {i \in DOMAIN line : i > Capacity /\ line[i].task = t}
    IN  /\ process[Owner(t)] = "stopping" /\ ~IsAt(t, "dropped") /\ Goes(t, [at |-> "dropped"])
        /\ channel' = IF waits = {} THEN channel
                    ELSE [channel EXCEPT ![Owner(t)] = RemoveAt(line, CHOOSE i \in waits : TRUE)]
        /\ UNCHANGED <<db, twice, thread, process, calls, mishaps, losses>>

\* Mutant: the thread keeps a handle of its own.
HandlesToo(p) == {t \in TasksOf(p) : ~IsAt(t, "dropped")} \cup {p}

\* Who holds a sender.
Handles(p) == {t \in TasksOf(p) : ~IsAt(t, "dropped")}

\* blocking_recv has nothing more to come; the runtime waited for that.
Exit(p) ==
    /\ process[p] = "stopping" /\ Handles(p) = {} /\ channel[p] = <<>> /\ thread[p].at = "recv"
    /\ process' = [process EXCEPT ![p] = "down"]
    /\ UNCHANGED <<db, twice, channel, thread, task, calls, mishaps, losses>>

\* What is committed is in the file, and nothing else is.
Kill(p) ==
    /\ process[p] # "down" /\ mishaps < MaxMishaps
    /\ process' = [process EXCEPT ![p] = "down"]
    /\ channel' = [channel EXCEPT ![p] = <<>>] /\ Sets(p, Receiving)
    /\ task' = [t \in Tasks |-> IF Owner(t) = p THEN [at |-> "dropped"] ELSE task[t]]
    /\ mishaps' = mishaps + 1 /\ losses' = losses + 1
    /\ UNCHANGED <<db, twice, calls>>

Spawn(p) ==
    /\ process[p] = "down" /\ calls < MaxCalls
    /\ process' = [process EXCEPT ![p] = "up"]
    /\ task' = [t \in Tasks |-> IF Owner(t) = p THEN [at |-> "idle"] ELSE task[t]]
    /\ UNCHANGED <<db, twice, channel, thread, calls, mishaps, losses>>

-----------------------------------------------------------------------------
TaskStep(t) == (\E c \in CommandsOf(t) : Call(t, c)) \/ Resume(t) \/ Drop(t)

ThreadStep(p) ==
    \/ Receive(p) \/ Run(p) \/ SelectEdge(p) \/ ReactivateEdge(p) \/ InsertEdge(p) \/ StatementFails(p)
    \/ Reply(p) \/ Exit(p)

ActorNext ==
    \/ \E t \in Tasks : TaskStep(t)
    \/ \E p \in Processes : ThreadStep(p) \/ Stop(p) \/ Kill(p) \/ Spawn(p)

ActorSpec == ActorInit /\ [][ActorNext]_actorVars

\* The thread runs, and a runtime that goes drops every task.
FairActorSpec ==
    /\ ActorSpec
    /\ \A p \in Processes : WF_actorVars(ThreadStep(p))
    /\ \A t \in Tasks : WF_actorVars(Drop(t))

-----------------------------------------------------------------------------
(* Promises.                                                               *)

Underway(t) ==
    \/ thread[Owner(t)].at \in {"run", "update", "insert"} /\ thread[Owner(t)].task = t
    \/ \E i \in DOMAIN channel[Owner(t)] : channel[Owner(t)][i].task = t

CommandUnderway(t) ==
    LET p == Owner(t) IN
    IF thread[p].at # "recv" /\ thread[p].task = t THEN thread[p].command
    ELSE channel[p][CHOOSE i \in DOMAIN channel[p] : channel[p][i].task = t].command

\* What a task sees of its call.
Seen ==
    [t \in Tasks |->
        CASE task[t].at = "done" -> [at |-> "done", answer |-> task[t].answer]
          [] task[t].at = "wait" /\ Underway(t) -> [at |-> "pending", command |-> task[t].command]
          [] task[t].at = "wait" /\ ~Underway(t) -> [at |-> "done", answer |-> thread[Owner(t)].answer]
          [] task[t].at = "dropped" /\ Underway(t) -> [at |-> "stray", command |-> CommandUnderway(t)]
          [] OTHER -> [at |-> "idle"]]

Store == INSTANCE GraphStore WITH tables <- db, losses <- losses, call <- Seen

\* db.rs:1-3, "All reads/writes are serialized on one blocking thread": with a second
\* process on the file, callers that go away, processes that are killed and statements
\* that fail, the actor is still a store that takes one command after the other, each
\* wholly or, with an error, not at all, between its call and its answer, and forgets
\* nothing it has answered.
ImplementsStore == Store!StoreSpec

\* while let Some(cmd): the thread ends with the last handle, after what is still queued,
\* and with it the process, once the runtime drops its tasks.
ProcessEnds == \A p \in Processes : process[p] = "stopping" ~> process[p] = "down"

\* upsert_edge, "Idempotent edge upsert": no edge has two rows.
NoEdgeTwice == twice = {}
=============================================================================
