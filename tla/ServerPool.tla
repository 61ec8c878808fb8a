----------------------------- MODULE ServerPool -----------------------------
(***************************************************************************)
(* The query runtime (query/pool.rs): one supervisor per language, created *)
(* by the first task that needs it, taken out and shut down by             *)
(* restart_lsp, all of them shut down with the daemon; and the count of    *)
(* live queries for which the watcher and the drift pass wait before every *)
(* file.                                                                   *)
(*                                                                         *)
(* A supervisor does here what ServerHealth says it promises: after a      *)
(* failure it tries again by itself, and only a shutdown ends it.  While it *)
(* starts a server or shuts one down it answers nobody, and neither has a  *)
(* deadline of its own.                                                    *)
(***************************************************************************)
EXTENDS Naturals, FiniteSets

CONSTANTS Languages,
          Queries,     \* connection handlers answering tool calls
          Background,  \* tasks that yield to queries: the watcher and the drift pass
          Watcher,     \* the one of them that is shut down before the pool
          Restarters,  \* connection handlers in restart_lsp
          None,
          MaxQueries,  \* bound: queries asked
          MaxRestarts, \* bound
          MaxSupervisors \* bound: supervisors ever spawned

Tasks == Queries \cup Background
Supervisors == 1..MaxSupervisors

ASSUME PoolAssumption ==
    /\ Queries \cap Background = {} /\ Watcher \in Background
    /\ None \notin Languages \cup Nat
    /\ {MaxQueries, MaxRestarts, MaxSupervisors} \subseteq Nat

VARIABLES
    pool,      \* supervisors: of each language, or None
    status,    \* of each supervisor: unborn, new, starting, up, failing, stopping, closed
    speaks,    \* its language
    task,      \* where each task is
    active,    \* query_active
    woken,     \* background tasks whose Notified has been notified
    taken,     \* what each restart_language still has to shut down
    daemon,    \* serving, closing (shutdown_all), down
    closing,   \* shutdown_all's snapshot, less what is done
    count      \* counters for the bounds

poolVars == <<pool, status, speaks, task, active, woken, taken, daemon, closing, count>>
supervisors == <<pool, status, speaks, taken, closing>>
gate == <<active, woken>>

Resting == [pc |-> "idle", gated |-> FALSE, sup |-> None]

PoolInit ==
    /\ pool = [l \in Languages |-> None]
    /\ status = [s \in Supervisors |-> "unborn"] /\ speaks = [s \in Supervisors |-> None]
    /\ task = [t \in Tasks |-> Resting]
    /\ active = 0 /\ woken = {}
    /\ taken = [r \in Restarters |-> {}]
    /\ daemon = "serving" /\ closing = {}
    /\ count = [queries |-> 0, restarts |-> 0]

Running == daemon # "down"
TaskAt(t, pc) == Running /\ task[t].pc = pc
TaskGoes(t, pc) == task' = [task EXCEPT ![t].pc = pc]

-----------------------------------------------------------------------------
(* The gate.                                                               *)

\* A query takes the guard; find_symbol's signatures are fetched without it.
Enter(q, gated) ==
    /\ TaskAt(q, "idle") /\ count.queries < MaxQueries
    /\ count' = [count EXCEPT !.queries = @ + 1]
    /\ task' = [task EXCEPT ![q] = [Resting EXCEPT !.pc = "ready", !.gated = gated]]
    /\ active' = IF gated THEN active + 1 ELSE active
    /\ UNCHANGED <<supervisors, woken, daemon>>

\* The guard is dropped: the last query out wakes whoever waits.
Leave(q) ==
    /\ TaskAt(q, "served") /\ q \in Queries
    /\ active' = IF task[q].gated THEN active - 1 ELSE active
    /\ task' = [task EXCEPT ![q] = IF @.gated /\ active = 1 THEN [@ EXCEPT !.pc = "notify"] ELSE Resting]
    /\ UNCHANGED <<supervisors, woken, daemon, count>>

\* Mutant: a waiter is registered when it first awaits, not when notified() is called.
NotifySleepers(q) ==
    /\ TaskAt(q, "notify")
    /\ woken' = woken \cup {w \in Background : task[w].pc = "asleep"}
    /\ task' = [task EXCEPT ![q] = Resting]
    /\ UNCHANGED <<supervisors, active, daemon, count>>

\* notify_waiters reaches every Notified that exists.
Notify(q) ==
    /\ TaskAt(q, "notify")
    /\ woken' = woken \cup {w \in Background : task[w].pc \in {"check", "busy", "asleep"}}
    /\ task' = [task EXCEPT ![q] = Resting]
    /\ UNCHANGED <<supervisors, active, daemon, count>>

\* wait_until_query_idle: notified() first, then the count; the await is a third step.
Wait(w) ==
    /\ TaskAt(w, "idle")
    /\ task' = [task EXCEPT ![w] = [Resting EXCEPT !.pc = "check"]]
    /\ woken' = woken \ {w}
    /\ UNCHANGED <<supervisors, active, daemon, count>>

CheckIdle(w) ==
    /\ TaskAt(w, "check")
    /\ TaskGoes(w, IF active = 0 THEN "ready" ELSE "busy")
    /\ woken' = IF active = 0 THEN woken \ {w} ELSE woken
    /\ UNCHANGED <<supervisors, active, daemon, count>>

Sleep(w) ==
    /\ TaskAt(w, "busy")
    /\ TaskGoes(w, "asleep")
    /\ UNCHANGED <<supervisors, gate, daemon, count>>

Wake(w) ==
    /\ TaskAt(w, "asleep") /\ w \in woken
    /\ TaskGoes(w, "check") /\ woken' = woken \ {w}
    /\ UNCHANGED <<supervisors, active, daemon, count>>

-----------------------------------------------------------------------------
(* The pool.                                                               *)

Gets(t, s) == task' = [task EXCEPT ![t].pc = "acquire", ![t].sup = s]
Unborn == {s \in Supervisors : status[s] = "unborn"}
NewSupervisor == CHOOSE s \in Unborn : TRUE

\* Mutant: a supervisor whose server is not up is replaced.
SupervisorForHealthy(t, l) ==
    /\ TaskAt(t, "ready")
    /\ IF pool[l] # None /\ status[pool[l]] = "up"
       THEN /\ Gets(t, pool[l])
            /\ UNCHANGED supervisors
       ELSE /\ Unborn # {}
            /\ LET s == NewSupervisor IN
               /\ pool' = [pool EXCEPT ![l] = s]
               /\ status' = [status EXCEPT ![s] = "new"] /\ speaks' = [speaks EXCEPT ![s] = l]
               /\ Gets(t, s)
            /\ UNCHANGED <<taken, closing>>
    /\ UNCHANGED <<gate, daemon, count>>

\* supervisor_for: looked up and, if need be, spawned under the map's lock.
SupervisorFor(t, l) ==
    /\ TaskAt(t, "ready")
    /\ IF pool[l] # None
       THEN /\ Gets(t, pool[l])
            /\ UNCHANGED supervisors
       ELSE /\ Unborn # {}
            /\ LET s == NewSupervisor IN
               /\ pool' = [pool EXCEPT ![l] = s]
               /\ status' = [status EXCEPT ![s] = "new"] /\ speaks' = [speaks EXCEPT ![s] = l]
               /\ Gets(t, s)
            /\ UNCHANGED <<taken, closing>>
    /\ UNCHANGED <<gate, daemon, count>>

\* The symbol has no known language: the graph as it is.
NoLanguage(t) ==
    /\ TaskAt(t, "ready") /\ t \in Queries
    /\ TaskGoes(t, "served")
    /\ UNCHANGED <<supervisors, gate, daemon, count>>

Changes(s, now) ==
    /\ status' = [status EXCEPT ![s] = now]
    /\ UNCHANGED <<pool, speaks, taken, closing, task, gate, daemon, count>>

\* The first acquire makes the actor start the server; its answer waits for the start.
AcquireStarts(t) ==
    /\ TaskAt(t, "acquire") /\ status[task[t].sup] = "new"
    /\ Changes(task[t].sup, "starting")

\* The supervisor's answer: a client, for requests to whatever becomes of the server,
\* or an error that degrades the query and makes the watcher skip the file.  An actor
\* that starts or stops a server does not get to it.
AcquireAnswered(t) ==
    LET now == status[task[t].sup] IN
    /\ TaskAt(t, "acquire") /\ now \in {"up", "failing", "closed"}
    /\ task' = [task EXCEPT ![t].pc = IF now = "up" THEN "open" ELSE "served", ![t].sup = None]
    /\ UNCHANGED <<supervisors, gate, daemon, count>>

\* didOpen or didChange got its place in the connection's channel, whatever became of
\* the requests after it.
Opened(t) ==
    /\ TaskAt(t, "open")
    /\ TaskGoes(t, "served")
    /\ UNCHANGED <<supervisors, gate, daemon, count>>

NextFile(w) ==
    /\ TaskAt(w, "served") /\ w \in Background
    /\ task' = [task EXCEPT ![w] = Resting]
    /\ UNCHANGED <<supervisors, gate, daemon, count>>

Fails(s) == Running /\ status[s] = "up" /\ Changes(s, "failing")

\* The retry timer.
StartsAgain(s) == Running /\ status[s] = "failing" /\ Changes(s, "starting")

\* start() returned: provisioning before it may take any time.
StartEnds(s) == Running /\ status[s] = "starting" /\ \E now \in {"up", "failing"} : Changes(s, now)

-----------------------------------------------------------------------------
(* restart_lsp and the end of the daemon.                                  *)

Provisioned(langs) == {pool[l] : l \in langs} \ {None}

\* Mutant: as in shutdown_all, the map keeps what is shut down.
TakeOutSnapshot(r, langs) ==
    /\ Running /\ taken[r] = {} /\ Provisioned(langs) # {} /\ count.restarts < MaxRestarts
    /\ taken' = [taken EXCEPT ![r] = Provisioned(langs)]
    /\ count' = [count EXCEPT !.restarts = @ + 1]
    /\ UNCHANGED <<pool, status, speaks, closing, task, gate, daemon>>

\* One language or all: removed from the map under its lock.
TakeOut(r, langs) ==
    /\ Running /\ taken[r] = {} /\ Provisioned(langs) # {} /\ count.restarts < MaxRestarts
    /\ taken' = [taken EXCEPT ![r] = Provisioned(langs)]
    /\ pool' = [l \in Languages |-> IF l \in langs THEN None ELSE pool[l]]
    /\ count' = [count EXCEPT !.restarts = @ + 1]
    /\ UNCHANGED <<status, speaks, closing, task, gate, daemon>>

\* The actor takes the command when it is not starting a server; without a server it
\* ends at once.
Stop(s) ==
    /\ status[s] \in {"new", "up", "failing"}
    /\ Changes(s, IF status[s] = "up" THEN "stopping" ELSE "closed")

\* The escalation is over, the actor ends.
StopEnds(s) == Running /\ status[s] = "stopping" /\ Changes(s, "closed")

\* restart_language shuts down one after the other.
ShutDownTaken(r, s) ==
    /\ Running /\ s \in taken[r] /\ \A u \in taken[r] : status[u] # "stopping"
    /\ Stop(s)

TakenIsDown(r, s) ==
    /\ Running /\ s \in taken[r] /\ status[s] = "closed"
    /\ taken' = [taken EXCEPT ![r] = @ \ {s}]
    /\ UNCHANGED <<pool, status, speaks, closing, task, gate, daemon, count>>

\* The accept loop has ended and the watcher, between two batches, has acknowledged
\* its shutdown; connection handlers and the drift pass go on.
ShutdownAll ==
    /\ daemon = "serving" /\ task[Watcher].pc = "idle"
    /\ daemon' = "closing" /\ closing' = Provisioned(Languages)
    /\ task' = [task EXCEPT ![Watcher].pc = "stopped"]
    /\ UNCHANGED <<pool, status, speaks, taken, gate, count>>

ShutDownNext(s) ==
    /\ daemon = "closing" /\ s \in closing /\ \A u \in closing : status[u] # "stopping"
    /\ Stop(s)

NextIsDown(s) ==
    /\ daemon = "closing" /\ s \in closing /\ status[s] = "closed"
    /\ closing' = closing \ {s}
    /\ UNCHANGED <<pool, status, speaks, taken, task, gate, daemon, count>>

Teardown ==
    /\ daemon = "closing" /\ closing = {}
    /\ daemon' = "down"
    /\ task' = [t \in Tasks |-> Resting] /\ active' = 0 /\ woken' = {}
    /\ UNCHANGED <<supervisors, count>>

-----------------------------------------------------------------------------
QueryStep(q) == Leave(q) \/ Notify(q)
GateStep(w) == CheckIdle(w) \/ Sleep(w) \/ Wake(w) \/ NextFile(w)
PoolStep(t) == (\E l \in Languages : SupervisorFor(t, l)) \/ NoLanguage(t) \/ AcquireStarts(t)
ServerStep(s) == Fails(s) \/ StartsAgain(s) \/ StartEnds(s) \/ StopEnds(s)

PoolNext ==
    \/ \E q \in Queries, gated \in BOOLEAN : Enter(q, gated)
    \/ \E q \in Queries : QueryStep(q)
    \/ \E w \in Background : Wait(w) \/ GateStep(w)
    \/ \E t \in Tasks : PoolStep(t) \/ AcquireAnswered(t) \/ Opened(t)
    \/ \E s \in Supervisors : ServerStep(s) \/ ShutDownNext(s) \/ NextIsDown(s)
    \/ \E r \in Restarters, langs \in {{l} : l \in Languages} \cup {Languages} : TakeOut(r, langs)
    \/ \E r \in Restarters, s \in Supervisors : ShutDownTaken(r, s) \/ TakenIsDown(r, s)
    \/ ShutdownAll \/ Teardown

PoolSpec == PoolInit /\ [][PoolNext]_poolVars

\* Tasks are scheduled, and an actor that keeps coming back to its mailbox answers what
\* is in it: its timer is never due twice in a row.  Nothing says that a start or a
\* shutdown ends, or that a notification finds room.
FairSpec ==
    /\ PoolSpec
    /\ \A q \in Queries : WF_poolVars(QueryStep(q) \/ PoolStep(q)) /\ SF_poolVars(AcquireAnswered(q))
    /\ \A w \in Background : WF_poolVars(GateStep(w))

-----------------------------------------------------------------------------
(* Promises.                                                               *)

PoolTypeOK ==
    /\ pool \in [Languages -> Supervisors \cup {None}]
    /\ status \in [Supervisors -> {"unborn", "new", "starting", "up", "failing", "stopping", "closed"}]
    /\ active \in 0..Cardinality(Queries) /\ woken \subseteq Background
    /\ closing \subseteq Supervisors /\ taken \in [Restarters -> SUBSET Supervisors]

\* supervisor_for under the map's lock: every supervisor that has a server, or will
\* have one again, is the one its language's queries get or is about to be shut down.
\* In particular, only a restart gives a language two servers.
NoServerIsLost ==
    \A s \in Supervisors : status[s] \notin {"unborn", "closed"} =>
        pool[speaks[s]] = s \/ s \in closing \/ \E r \in Restarters : s \in taken[r]

\* restart_language, "the next `acquire` lazily respawns it": what the map offers is
\* never a supervisor that is being or was shut down, before the daemon's own shutdown.
PoolOffersLiveOnes ==
    daemon = "serving" => \A l \in Languages : pool[l] # None => status[pool[l]] \notin {"stopping", "closed"}

\* A query that never gets its answer or its place in the channel: it holds its guard.
Stuck(q) == task[q].pc = "open" \/ (task[q].pc = "acquire" /\ status[task[q].sup] \in {"starting", "stopping"})

\* wait_until_query_idle, "Race-free against a concurrent guard drop": when no more
\* queries come and none is stuck in its server for ever, whoever waits for the gate gets
\* through (or the daemon ends).
GateOpens ==
    \/ \E q \in Queries : <>[]Stuck(q)
    \/ \A w \in Background : task[w].pc \in {"check", "busy", "asleep"} ~> (~Running \/ task[w].pc = "ready")

\* shutdown_all, for "callers that must guarantee the children are reaped before
\* runtime teardown": none is left when the daemon tears its runtime down.
ReapedBeforeTeardown == daemon = "down" => \A s \in Supervisors : status[s] # "up"
=============================================================================
