--------------------------- MODULE DaemonLifecycle ---------------------------
(***************************************************************************)
(* The processes that share one root's cache directory, and the two files  *)
(* they meet on: daemon.sock and daemon.lock.                              *)
(*                                                                         *)
(*   serve    `semnav serve`: makes sure a daemon runs, then attaches      *)
(*   daemon   `semnav daemon`: takes the lock, binds the socket, serves    *)
(*   stop     `semnav daemon stop`: sends Shutdown and polls the socket    *)
(*                                                                         *)
(* A socket inode is named by the daemon that bound it, so `sock` says     *)
(* whose inode the path daemon.sock leads to.  The inode outlives its      *)
(* process: a crash leaves a stale one behind.                             *)
(***************************************************************************)
EXTENDS Naturals, FiniteSets

CONSTANTS Serve,        (* serve processes (each may run again after it ends) *)
          Daemon,       (* slots for daemon processes                         *)
          Stop,         (* `daemon stop` processes                            *)
          None,
          MaxCrashes,   (* bound: how many processes are killed               *)
          DbMayFail,    (* whether opening graph.db may fail                  *)
          ConnectMayTimeOut (* whether connecting to a live socket may hang   *)

Client == Serve \union Stop
Proc   == Client \union Daemon

ASSUME ProcAssumption ==
    /\ Serve \intersect Daemon = {}
    /\ Serve \intersect Stop = {}
    /\ Stop \intersect Daemon = {}
    /\ None \notin Proc

ASSUME BoundAssumption ==
    /\ MaxCrashes \in Nat
    /\ DbMayFail \in BOOLEAN
    /\ ConnectMayTimeOut \in BOOLEAN

VARIABLES
    pc,        (* where each process stands                                   *)
    polling,   (* processes past their first probe, in the 100ms poll loop    *)
    lock,      (* the process holding the flock on daemon.lock                *)
    sock,      (* whose inode daemon.sock names                               *)
    conn,      (* the daemon at the other end of a client's open connection   *)
    handlers,  (* connections each daemon has accepted and not yet finished   *)
    active,    (* IdleTracker.active of each daemon                           *)
    stopReq,   (* daemons with a message in their stop channel                *)
    asked,     (* history: the daemon a stop process sent Shutdown to         *)
    crashes

vars == <<pc, polling, lock, sock, conn, handlers, active, stopReq, asked, crashes>>
net  == <<conn, handlers, active, stopReq, asked>>

(***************************************************************************)
(* The places of a daemon, from its spawn to the end of its runtime.       *)
(***************************************************************************)
Probing   == {"probe", "connect", "unlink"}
Listening == {"opendb", "serving", "abort"}
Bound     == Listening \union {"listen", "teardown", "remove"}
Holding   == Bound \union {"clear", "bind", "release"}
Running   == Holding \union Probing \union {"trylock", "drain"}

IsListening(d) == d \in Daemon /\ pc[d] \in Listening

Goto(p, from, to) == pc[p] = from /\ pc' = [pc EXCEPT ![p] = to]

(* What closing daemon d's process, or its listener, does to the clients.  *)
Reset(closed) == conn' = [c \in Client |-> IF c \in closed THEN None ELSE conn[c]]
PeersOf(d)    == {c \in Client : conn[c] = d}
Backlog(d)    == PeersOf(d) \ handlers[d]

-----------------------------------------------------------------------------
(***************************************************************************)
(* probe_liveness: exists, connect and remove_file are three system calls. *)
(***************************************************************************)
FoundLive(p) ==
    IF p \in Serve THEN "attach"
    ELSE IF p \in Daemon THEN "off"
    ELSE IF p \in polling THEN "sleep" ELSE "dial"

FoundNone(p) ==
    IF p \in Stop THEN "stopped"
    ELSE IF p \in polling THEN "sleep" ELSE "trylock"

ProbeExists(p) ==
    /\ Goto(p, "probe", IF sock = None THEN FoundNone(p) ELSE "connect")
    /\ UNCHANGED <<polling, lock, sock, net, crashes>>

ProbeConnect(p) ==
    /\ Goto(p, "connect", IF IsListening(sock) THEN FoundLive(p) ELSE "unlink")
    /\ UNCHANGED <<polling, lock, sock, net, crashes>>

ProbeTimeoutUnlinks(p) ==
    /\ ConnectMayTimeOut
    /\ IsListening(sock)
    /\ Goto(p, "connect", "unlink")
    /\ UNCHANGED <<polling, lock, sock, net, crashes>>

(* Two seconds without an answer: not live, but the socket stays. *)
ProbeTimeout(p) ==
    /\ ConnectMayTimeOut
    /\ IsListening(sock)
    /\ Goto(p, "connect", FoundNone(p))
    /\ UNCHANGED <<polling, lock, sock, net, crashes>>

PollAgain(c) ==
    /\ Goto(c, "sleep", "probe")
    /\ UNCHANGED <<polling, lock, sock, net, crashes>>

(* DAEMON_STARTUP_TIMEOUT has passed (serve), or the fifty polls (stop). *)
GiveUpNever(c) ==
    /\ pc[c] = "sleep" /\ c \notin polling
    /\ pc' = [pc EXCEPT ![c] = "failed"]
    /\ UNCHANGED <<polling, lock, sock, net, crashes>>

GiveUp(c) ==
    /\ Goto(c, "sleep", "failed")
    /\ UNCHANGED <<polling, lock, sock, net, crashes>>

(* remove_file names the path, not the inode that refused the connection. *)
ProbeUnlink(p) ==
    /\ Goto(p, "unlink", FoundNone(p))
    /\ sock' = None
    /\ UNCHANGED <<polling, lock, net, crashes>>

-----------------------------------------------------------------------------
(***************************************************************************)
(* serve: ensure_daemon_running, then DaemonClient::connect.               *)
(***************************************************************************)
ServeStart(s) ==
    /\ \/ Goto(s, "idle", "probe")
       \/ Goto(s, "failed", "probe")
    /\ polling' = polling \ {s}
    /\ UNCHANGED <<lock, sock, net, crashes>>

ServeTryLock(s) ==
    \/ /\ lock = None
       /\ Goto(s, "trylock", "spawn")
       /\ lock' = s
       /\ UNCHANGED <<polling, sock, net, crashes>>
    \/ /\ lock # None
       /\ Goto(s, "trylock", "probe")
       /\ polling' = polling \union {s}
       /\ UNCHANGED <<lock, sock, net, crashes>>

ServeDropLock(s) ==
    /\ Goto(s, "spawn", "launch")
    /\ lock' = None
    /\ UNCHANGED <<polling, sock, net, crashes>>

(* A slot can be used again once nothing of its last process remains. *)
FreeSlot(d) == pc[d] = "off" /\ sock # d

ServeSpawn(s) ==
    /\ pc[s] = "launch"
    /\ \E d \in Daemon :
          /\ FreeSlot(d)
          /\ pc' = [pc EXCEPT ![s] = "probe", ![d] = "probe"]
    /\ polling' = polling \union {s}
    /\ UNCHANGED <<lock, sock, net, crashes>>

ServeSpawnFails(s) ==
    /\ Goto(s, "launch", "failed")
    /\ UNCHANGED <<polling, lock, sock, net, crashes>>

(* Bound: a client has one connection to a daemon at a time, so it dials   *)
(* again only when the daemon has noticed the end of the previous one.     *)
Connect(c, ok, err) ==
    IF IsListening(sock)
    THEN /\ c \notin handlers[sock]
         /\ pc' = [pc EXCEPT ![c] = ok]
         /\ conn' = [conn EXCEPT ![c] = sock]
    ELSE /\ pc' = [pc EXCEPT ![c] = err]
         /\ UNCHANGED conn

ServeAttach(s) ==
    /\ pc[s] = "attach"
    /\ Connect(s, "attached", "failed")
    /\ UNCHANGED <<polling, lock, sock, handlers, active, stopReq, asked, crashes>>

(* ReconnectingDaemonClient::reconnect, once the connection is closed. *)
ServeReconnect(s) ==
    /\ conn[s] = None
    /\ Goto(s, "attached", "probe")
    /\ polling' = polling \ {s}
    /\ UNCHANGED <<lock, sock, net, crashes>>

(* The MCP client closes stdio. *)
ServeExit(s) ==
    /\ Goto(s, "attached", "idle")
    /\ Reset({s})
    /\ UNCHANGED <<polling, lock, sock, handlers, active, stopReq, asked, crashes>>

-----------------------------------------------------------------------------
(***************************************************************************)
(* daemon: run_daemon and server::run.                                     *)
(***************************************************************************)
(* `semnav daemon <root>` run by hand; serve's own spawn is ServeSpawn. *)
DaemonStart(d) ==
    /\ FreeSlot(d)
    /\ Goto(d, "off", "probe")
    /\ UNCHANGED <<polling, lock, sock, net, crashes>>

DaemonIgnoresLock(d) ==
    /\ Goto(d, "trylock", "clear")
    /\ lock' = d
    /\ UNCHANGED <<polling, sock, net, crashes>>

DaemonTryLock(d) ==
    IF lock = None
    THEN /\ Goto(d, "trylock", "clear")
         /\ lock' = d
         /\ UNCHANGED <<polling, sock, net, crashes>>
    ELSE /\ Goto(d, "trylock", "off")
         /\ UNCHANGED <<polling, lock, sock, net, crashes>>

DaemonClear(d) ==
    /\ Goto(d, "clear", "bind")
    /\ sock' = None
    /\ UNCHANGED <<polling, lock, net, crashes>>

(* UnixListener::bind is bind(2), which creates the inode, then listen(2). *)
DaemonBind(d) ==
    IF sock = None
    THEN /\ Goto(d, "bind", "listen")
         /\ sock' = d
         /\ UNCHANGED <<polling, lock, net, crashes>>
    ELSE /\ Goto(d, "bind", "off")
         /\ lock' = None
         /\ UNCHANGED <<polling, sock, net, crashes>>

DaemonListen(d) ==
    /\ Goto(d, "listen", "opendb")
    /\ UNCHANGED <<polling, lock, sock, net, crashes>>

DaemonOpenDb(d) ==
    /\ \/ Goto(d, "opendb", "serving")
       \/ DbMayFail /\ Goto(d, "opendb", "abort")
    /\ UNCHANGED <<polling, lock, sock, net, crashes>>

DaemonAbort(d) ==
    /\ Goto(d, "abort", "release")
    /\ sock' = None
    /\ Reset(Backlog(d))
    /\ UNCHANGED <<polling, lock, handlers, active, stopReq, asked, crashes>>

(* IdleTracker::on_connect happens with the accept, before the handler. *)
DaemonAccept(d, c) ==
    /\ pc[d] = "serving"
    /\ c \in Backlog(d)
    /\ handlers' = [handlers EXCEPT ![d] = @ \union {c}]
    /\ active' = [active EXCEPT ![d] = @ + 1]
    /\ UNCHANGED <<pc, polling, lock, sock, conn, stopReq, asked, crashes>>

(* Leaving the accept loop drops the listener: the backlog is reset, while *)
(* accepted connections go on being served until the runtime ends.         *)
LeaveLoopUnlocked(d) ==
    /\ Goto(d, "serving", "teardown")
    /\ lock' = None
    /\ Reset(Backlog(d))
    /\ UNCHANGED <<polling, sock, handlers, active, stopReq, asked, crashes>>

LeaveLoop(d) ==
    /\ Goto(d, "serving", "teardown")
    /\ Reset(Backlog(d))
    /\ UNCHANGED <<polling, lock, sock, handlers, active, stopReq, asked, crashes>>

ShouldShutDown(d) == active[d] = 0

DaemonSignalled(d)   == LeaveLoop(d)
StopOnlyWhenIdle(d)  == d \in stopReq /\ ShouldShutDown(d) /\ LeaveLoop(d)
DaemonToldToStop(d)  == d \in stopReq /\ LeaveLoop(d)
DaemonIdle(d)        == ShouldShutDown(d) /\ LeaveLoop(d)

(* watcher.shutdown and query_runtime.shutdown_all, which awaits servers    *)
(* that may never take their exit notification.                             *)
DaemonTeardown(d) ==
    /\ Goto(d, "teardown", "remove")
    /\ UNCHANGED <<polling, lock, sock, net, crashes>>

DaemonRemove(d) ==
    /\ Goto(d, "remove", "release")
    /\ sock' = None
    /\ UNCHANGED <<polling, lock, net, crashes>>

(* _lock drops as run_daemon returns; the runtime, and the tasks it still  *)
(* runs, only afterwards.                                                  *)
DaemonRelease(d) ==
    /\ Goto(d, "release", "drain")
    /\ lock' = None
    /\ UNCHANGED <<polling, sock, net, crashes>>

ProcessEnds(d) ==
    /\ Reset(PeersOf(d))
    /\ handlers' = [handlers EXCEPT ![d] = {}]
    /\ active' = [active EXCEPT ![d] = 0]
    /\ stopReq' = stopReq \ {d}
    /\ asked' = [t \in Stop |-> IF asked[t] = d THEN None ELSE asked[t]]

DaemonExit(d) ==
    /\ Goto(d, "drain", "off")
    /\ ProcessEnds(d)
    /\ UNCHANGED <<polling, lock, sock, crashes>>

(* handle_connection: on_disconnect runs once the handler has returned. *)
Disconnect(d, c) ==
    /\ handlers' = [handlers EXCEPT ![d] = @ \ {c}]
    /\ active' = [active EXCEPT ![d] = IF @ = 0 THEN 0 ELSE @ - 1]

HandleEof(d, c) ==
    /\ c \in handlers[d]
    /\ conn[c] # d
    /\ Disconnect(d, c)
    /\ UNCHANGED <<pc, polling, lock, sock, conn, stopReq, asked, crashes>>

HandleShutdown(d, c) ==
    /\ c \in handlers[d]
    /\ conn[c] = d
    /\ Goto(c, "await", "probe")
    /\ polling' = polling \union {c}
    /\ stopReq' = IF pc[d] = "serving" THEN stopReq \union {d} ELSE stopReq
    /\ Reset({c})
    /\ Disconnect(d, c)
    /\ UNCHANGED <<lock, sock, asked, crashes>>

-----------------------------------------------------------------------------
(***************************************************************************)
(* daemon stop: run_daemon_stop.                                           *)
(***************************************************************************)
StopStart(t) ==
    /\ \/ Goto(t, "idle", "probe")
       \/ Goto(t, "failed", "probe")
       \/ Goto(t, "stopped", "probe")
    /\ polling' = polling \ {t}
    /\ asked' = [asked EXCEPT ![t] = None]
    /\ UNCHANGED <<lock, sock, conn, handlers, active, stopReq, crashes>>

StopDial(t) ==
    /\ pc[t] = "dial"
    /\ Connect(t, "send", "failed")
    /\ UNCHANGED <<polling, lock, sock, handlers, active, stopReq, asked, crashes>>

StopSend(t) ==
    IF conn[t] # None
    THEN /\ Goto(t, "send", "await")
         /\ asked' = [asked EXCEPT ![t] = conn[t]]
         /\ UNCHANGED <<polling, lock, sock, conn, handlers, active, stopReq, crashes>>
    ELSE /\ Goto(t, "send", "failed")
         /\ UNCHANGED <<polling, lock, sock, net, crashes>>

(* read_line(..).unwrap_or(None): a closed connection is as good as a reply *)
StopReadsEof(t) ==
    /\ conn[t] = None
    /\ Goto(t, "await", "probe")
    /\ polling' = polling \union {t}
    /\ UNCHANGED <<lock, sock, net, crashes>>

-----------------------------------------------------------------------------
(* SIGKILL: the kernel drops the flock and the connections, not the inode. *)
Crash(p) ==
    /\ crashes < MaxCrashes
    /\ crashes' = crashes + 1
    /\ lock' = IF lock = p THEN None ELSE lock
    /\ polling' = polling \ {p}
    /\ UNCHANGED sock
    /\ \/ /\ p \in Daemon
          /\ pc[p] # "off"
          /\ pc' = [pc EXCEPT ![p] = "off"]
          /\ ProcessEnds(p)
       \/ /\ p \in Client
          /\ pc[p] \notin {"idle", "failed", "stopped"}
          /\ pc' = [pc EXCEPT ![p] = "failed"]
          /\ Reset({p})
          /\ UNCHANGED <<handlers, active, stopReq, asked>>

Init ==
    /\ pc = [p \in Proc |-> IF p \in Daemon THEN "off" ELSE "idle"]
    /\ polling = {}
    /\ lock = None
    /\ sock = None
    /\ conn = [c \in Client |-> None]
    /\ handlers = [d \in Daemon |-> {}]
    /\ active = [d \in Daemon |-> 0]
    /\ stopReq = {}
    /\ asked = [t \in Stop |-> None]
    /\ crashes = 0

Probe(p) == ProbeExists(p) \/ ProbeConnect(p) \/ ProbeUnlink(p)

ServeStep(s) ==
    \/ ServeTryLock(s) \/ ServeDropLock(s) \/ ServeSpawn(s) \/ ServeSpawnFails(s)
    \/ ServeAttach(s)

DaemonStep(d) ==
    \/ DaemonTryLock(d) \/ DaemonClear(d) \/ DaemonBind(d) \/ DaemonListen(d)
    \/ DaemonOpenDb(d) \/ DaemonAbort(d)
    \/ DaemonToldToStop(d)
    \/ DaemonRemove(d) \/ DaemonRelease(d) \/ DaemonExit(d)

Handle(d, c) == DaemonAccept(d, c) \/ HandleEof(d, c) \/ HandleShutdown(d, c)

StopStep(t) == StopDial(t) \/ StopSend(t) \/ StopReadsEof(t)

Next ==
    \/ \E p \in Proc : Probe(p) \/ ProbeTimeout(p) \/ Crash(p)
    \/ \E c \in Client : PollAgain(c) \/ GiveUp(c)
    \/ \E s \in Serve : ServeStart(s) \/ ServeStep(s) \/ ServeReconnect(s) \/ ServeExit(s)
    \/ \E d \in Daemon :
          DaemonStart(d) \/ DaemonStep(d) \/ DaemonSignalled(d) \/ DaemonIdle(d) \/ DaemonTeardown(d)
    \/ \E d \in Daemon, c \in Client : Handle(d, c)
    \/ \E t \in Stop : StopStart(t) \/ StopStep(t)

Spec == Init /\ [][Next]_vars

(***************************************************************************)
(* What the scheduler and the clock guarantee: a process that can run      *)
(* does; a poll loop's deadline passes however often it is polled; a       *)
(* daemon that stays idle reaches its idle timeout.  Nothing makes a user  *)
(* start, stop, signal or kill a process, or call a tool again; and nothing *)
(* makes a teardown end (lsp/server.rs:143 awaits without a deadline).     *)
(***************************************************************************)
Fairness ==
    /\ \A p \in Proc : WF_vars(Probe(p))
    /\ \A c \in Client : WF_vars(PollAgain(c)) /\ SF_vars(GiveUp(c))
    /\ \A s \in Serve : WF_vars(ServeStep(s))
    /\ \A t \in Stop : WF_vars(StopStep(t))
    /\ \A d \in Daemon : WF_vars(DaemonStep(d)) /\ WF_vars(DaemonIdle(d))
    /\ \A d \in Daemon, c \in Client : WF_vars(Handle(d, c))

FairSpec == Spec /\ Fairness

-----------------------------------------------------------------------------
ServePlaces  == {"idle", "failed", "sleep", "attach", "attached", "trylock", "spawn",
                 "launch"} \union Probing
StopPlaces   == {"idle", "failed", "sleep", "dial", "send", "await", "stopped"} \union Probing
DaemonPlaces == {"off"} \union Running

(* Every process is at one of its places and every variable in its range.   *)
TypeOK ==
    /\ pc \in [Proc -> ServePlaces \union StopPlaces \union DaemonPlaces]
    /\ \A s \in Serve : pc[s] \in ServePlaces
    /\ \A t \in Stop : pc[t] \in StopPlaces
    /\ \A d \in Daemon : pc[d] \in DaemonPlaces
    /\ polling \subseteq Client
    /\ lock \in Serve \union Daemon \union {None}
    /\ sock \in Daemon \union {None}
    /\ conn \in [Client -> Daemon \union {None}]
    /\ handlers \in [Daemon -> SUBSET Client]
    /\ active \in [Daemon -> Nat]
    /\ stopReq \subseteq Daemon
    /\ asked \in [Stop -> Daemon \union {None}]
    /\ crashes \in 0..MaxCrashes

(* The comment of daemon/lock.rs: two daemons never run against the same    *)
(* cache directory.  Of the daemons from the lock to the end of teardown    *)
(* there is at most one.                                                    *)
OneDaemon ==
    \A d1, d2 \in Daemon : pc[d1] \in Holding /\ pc[d2] \in Holding => d1 = d2

(* run_daemon removes daemon.sock by path when it aborts and when it tears  *)
(* down; the path then never leads to the socket of another daemon.         *)
RemovesOnlyItsOwn ==
    \A d \in Daemon : pc[d] \in {"abort", "remove"} => sock \in {d, None}

(* The defensive remove_file before bind is enough: bind never finds the    *)
(* address in use, whatever stale socket a crash left.                      *)
BindFindsNoSocket ==
    \A d \in Daemon : pc[d] = "bind" => sock = None

(* Two clients are never connected to two daemons at once, except to one    *)
(* that has already released the lock and is ending.                        *)
ClientsShareTheDaemon ==
    \A c1, c2 \in Client :
        LET d1 == conn[c1]
            d2 == conn[c2]
        IN  d1 # None /\ d2 # None /\ pc[d1] # "drain" /\ pc[d2] # "drain" => d1 = d2

(* The lock never outlives its purpose: whoever holds it is a daemon at     *)
(* work or a serve about to drop it.                                        *)
LockIsHeldByTheLiving ==
    lock # None => IF lock \in Daemon THEN pc[lock] \in Holding ELSE pc[lock] = "spawn"

(* The slot of the abstract specification, as lock and pc represent it.     *)
StageOf(place) ==
    IF place \in {"clear", "bind", "listen", "opendb"} THEN "starting"
    ELSE IF place = "serving" THEN "serving" ELSE "ending"

Slot == INSTANCE DaemonSlot WITH
            owner <- IF lock \in Daemon THEN lock ELSE None,
            stage <- IF lock \in Daemon THEN StageOf(pc[lock]) ELSE "free"

(* The processes, with their probes, crashes and races, implement the slot. *)
ImplementsSlot == Slot!SlotSpec

(* The 60s and 5s deadlines: a serve or a stop never hangs, whatever the    *)
(* daemon it waits for does.                                                *)
ClientsSettle ==
    \A c \in Client :
        pc[c] \notin {"idle", "attached", "stopped", "failed"}
            ~> pc[c] \in {"attached", "stopped", "failed"}

(* A Shutdown request that reached the daemon ends its process, whoever is  *)
(* connected and wherever the daemon stands when it comes, unless           *)
(* shutdown_all never returns.                                              *)
StopIsHonoured ==
    \A d \in Daemon : <>[](pc[d] = "teardown") \/ (d \in stopReq ~> pc[d] = "off")

(* What discovery.rs:60 can do to a daemon that lives.  A socket is settled *)
(* once its daemon listens and no probe is left between a refused connect   *)
(* and its remove_file; no later probe, not even one that times out, and no *)
(* other daemon's start or teardown takes it away while its daemon listens. *)
Settled(d) ==
    pc[d] \in Listening /\ sock = d /\ \A p \in Proc : pc[p] # "unlink"

SettledSocketStays ==
    [][\A d \in Daemon : Settled(d) /\ pc[d]' \in Listening => Settled(d)']_vars

-----------------------------------------------------------------------------
(* main.rs on run_daemon_stop: it waits for the daemon "to actually exit".  *)
(* `asked` is None once that daemon's process has gone.                     *)
StopMeansExited ==
    \A t \in Stop : pc[t] = "stopped" => asked[t] = None

(* probe_liveness on the socket it removes: "left behind by a daemon that   *)
(* died"; a daemon that is serving keeps the socket it bound.               *)
ServingMeansReachable ==
    \A d \in Daemon : pc[d] = "serving" => sock = d
=============================================================================
