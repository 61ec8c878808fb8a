----------------------- MODULE DaemonLifecycle_proofs -----------------------
(***************************************************************************)
(* Proofs about DaemonLifecycle, for any number of serves, daemons and     *)
(* stop processes and any number of crashes.                               *)
(***************************************************************************)
EXTENDS DaemonLifecycle, TLAPS

(* Whoever is past try_acquire and before the drop of its lock holds it. *)
HoldersHoldTheLock ==
    /\ \A d \in Daemon : pc[d] \in Holding => lock = d
    /\ \A s \in Serve : pc[s] = "spawn" => lock = s

(* From bind to the final remove_file the path is a daemon's own or empty. *)
OwnSocketOrNone ==
    \A d \in Daemon : pc[d] \in Bound => sock \in {d, None}

(* An inode at the path belongs to a daemon between bind and remove_file,  *)
(* or to one that died there.                                              *)
SocketHasItsDaemon ==
    sock # None => pc[sock] \in Bound \union {"off"}

(* A connection leads to a daemon that has listened and not yet ended.     *)
Connected == Listening \union {"teardown", "remove", "release", "drain"}

PeersAreRunning ==
    \A c \in Client : conn[c] # None => pc[conn[c]] \in Connected

IInv ==
    /\ TypeOK
    /\ HoldersHoldTheLock
    /\ OwnSocketOrNone
    /\ BindFindsNoSocket
    /\ SocketHasItsDaemon
    /\ PeersAreRunning
    /\ LockIsHeldByTheLiving

USE ProcAssumption, BoundAssumption
USE DEF Proc, Client, ServePlaces, StopPlaces, DaemonPlaces, Running, Holding, Bound,
        Listening, Probing, Connected

-----------------------------------------------------------------------------
(* The initial state has no daemon, no lock and no socket. *)
LEMMA InitInv == Init => IInv
  BY DEF Init, IInv, TypeOK, HoldersHoldTheLock, OwnSocketOrNone, BindFindsNoSocket,
         SocketHasItsDaemon, PeersAreRunning, LockIsHeldByTheLiving

(* A probe changes the path only by emptying it, and nobody's lock. *)
LEMMA ProbeInv ==
  ASSUME IInv, NEW p \in Proc, Probe(p) \/ ProbeTimeout(p)
  PROVE  IInv'
<1> USE DEF Goto, net, IsListening, FoundLive, FoundNone, IInv, TypeOK, HoldersHoldTheLock,
            OwnSocketOrNone, BindFindsNoSocket, SocketHasItsDaemon, PeersAreRunning,
            LockIsHeldByTheLiving
<1>1. CASE ProbeExists(p)   BY <1>1 DEF ProbeExists
<1>2. CASE ProbeConnect(p)  BY <1>2 DEF ProbeConnect
<1>3. CASE ProbeUnlink(p)   BY <1>3 DEF ProbeUnlink
<1>4. CASE ProbeTimeout(p)  BY <1>4 DEF ProbeTimeout
<1> QED  BY <1>1, <1>2, <1>3, <1>4 DEF Probe

(* The poll loops touch nothing that is shared. *)
LEMMA PollInv ==
  ASSUME IInv, NEW c \in Client, PollAgain(c) \/ GiveUp(c)
  PROVE  IInv'
  BY DEF PollAgain, GiveUp, Goto, net, IInv, TypeOK, HoldersHoldTheLock, OwnSocketOrNone,
         BindFindsNoSocket, SocketHasItsDaemon, PeersAreRunning, LockIsHeldByTheLiving

(* A serve holds the lock only between ServeTryLock and ServeDropLock. *)
LEMMA ServeInv ==
  ASSUME IInv, NEW s \in Serve,
         ServeStart(s) \/ ServeStep(s) \/ ServeReconnect(s) \/ ServeExit(s)
  PROVE  IInv'
<1> USE DEF Goto, net, IInv, TypeOK, HoldersHoldTheLock, OwnSocketOrNone, BindFindsNoSocket,
            SocketHasItsDaemon, PeersAreRunning, LockIsHeldByTheLiving
<1>1. CASE ServeStart(s)       BY <1>1 DEF ServeStart
<1>2. CASE ServeTryLock(s)     BY <1>2 DEF ServeTryLock
<1>3. CASE ServeDropLock(s)    BY <1>3 DEF ServeDropLock
<1>4. CASE ServeSpawn(s)       BY <1>4 DEF ServeSpawn, FreeSlot
<1>5. CASE ServeSpawnFails(s)  BY <1>5 DEF ServeSpawnFails
<1>6. CASE ServeAttach(s)      BY <1>6 DEF ServeAttach, Connect, IsListening
<1>7. CASE ServeReconnect(s)   BY <1>7 DEF ServeReconnect
<1>8. CASE ServeExit(s)        BY <1>8 DEF ServeExit, Reset
<1> QED  BY <1>1, <1>2, <1>3, <1>4, <1>5, <1>6, <1>7, <1>8 DEF ServeStep

(* Each step of a daemon leaves the path empty or its own. *)
LEMMA DaemonInv ==
  ASSUME IInv, NEW d \in Daemon,
         DaemonStart(d) \/ DaemonStep(d) \/ DaemonSignalled(d) \/ DaemonIdle(d)
            \/ DaemonTeardown(d)
  PROVE  IInv'
<1> USE DEF Goto, net, IInv, TypeOK, HoldersHoldTheLock, OwnSocketOrNone, BindFindsNoSocket,
            SocketHasItsDaemon, PeersAreRunning, LockIsHeldByTheLiving
<1>1. CASE DaemonStart(d)     BY <1>1 DEF DaemonStart, FreeSlot
<1>2. CASE DaemonTryLock(d)   BY <1>2 DEF DaemonTryLock
<1>3. CASE DaemonClear(d)     BY <1>3 DEF DaemonClear
<1>4. CASE DaemonBind(d)      BY <1>4 DEF DaemonBind
<1>5. CASE DaemonListen(d)    BY <1>5 DEF DaemonListen
<1>6. CASE DaemonOpenDb(d)    BY <1>6 DEF DaemonOpenDb
<1>7. CASE DaemonAbort(d)     BY <1>7 DEF DaemonAbort, Reset
<1>8. CASE LeaveLoop(d)       BY <1>8 DEF LeaveLoop, Reset
<1>9. CASE DaemonTeardown(d)  BY <1>9 DEF DaemonTeardown
<1>10. CASE DaemonRemove(d)   BY <1>10 DEF DaemonRemove
<1>11. CASE DaemonRelease(d)  BY <1>11 DEF DaemonRelease
<1>12. CASE DaemonExit(d)     BY <1>12 DEF DaemonExit, ProcessEnds, Reset, PeersOf
<1> QED  BY <1>1, <1>2, <1>3, <1>4, <1>5, <1>6, <1>7, <1>8, <1>9, <1>10, <1>11, <1>12
         DEF DaemonStep, DaemonToldToStop, DaemonSignalled, DaemonIdle

(* Handling a connection moves no process but the stop that is answered. *)
LEMMA HandleInv ==
  ASSUME IInv, NEW d \in Daemon, NEW c \in Client, Handle(d, c)
  PROVE  IInv'
<1> USE DEF Goto, net, Disconnect, Reset, IInv, TypeOK, HoldersHoldTheLock, OwnSocketOrNone,
            BindFindsNoSocket, SocketHasItsDaemon, PeersAreRunning, LockIsHeldByTheLiving
<1>1. CASE DaemonAccept(d, c)    BY <1>1 DEF DaemonAccept
<1>2. CASE HandleEof(d, c)       BY <1>2 DEF HandleEof
<1>3. CASE HandleShutdown(d, c)  BY <1>3 DEF HandleShutdown
<1> QED  BY <1>1, <1>2, <1>3 DEF Handle

(* A stop process takes no lock and removes no socket but through a probe. *)
LEMMA StopInv ==
  ASSUME IInv, NEW t \in Stop, StopStart(t) \/ StopStep(t)
  PROVE  IInv'
<1> USE DEF Goto, net, IInv, TypeOK, HoldersHoldTheLock, OwnSocketOrNone, BindFindsNoSocket,
            SocketHasItsDaemon, PeersAreRunning, LockIsHeldByTheLiving
<1>1. CASE StopStart(t)     BY <1>1 DEF StopStart
<1>2. CASE StopDial(t)      BY <1>2 DEF StopDial, Connect, IsListening
<1>3. CASE StopSend(t)      BY <1>3 DEF StopSend
<1>4. CASE StopReadsEof(t)  BY <1>4 DEF StopReadsEof
<1> QED  BY <1>1, <1>2, <1>3, <1>4 DEF StopStep

(* The kernel gives back what a killed process held, except the inode. *)
LEMMA CrashInv ==
  ASSUME IInv, NEW p \in Proc, Crash(p)
  PROVE  IInv'
<1> USE DEF Crash, IInv, TypeOK, HoldersHoldTheLock, OwnSocketOrNone, BindFindsNoSocket,
            SocketHasItsDaemon, PeersAreRunning, LockIsHeldByTheLiving
<1>1. CASE p \in Daemon  BY <1>1 DEF ProcessEnds, Reset, PeersOf
<1>2. CASE p \in Client  BY <1>2 DEF Reset
<1> QED  BY <1>1, <1>2

(* No step of any process breaks the invariant. *)
LEMMA NextInv == IInv /\ [Next]_vars => IInv'
<1> SUFFICES ASSUME IInv, [Next]_vars PROVE IInv'
  OBVIOUS
<1>1. ASSUME NEW p \in Proc, Probe(p) \/ ProbeTimeout(p) \/ Crash(p) PROVE IInv'
  BY <1>1, ProbeInv, CrashInv
<1>2. ASSUME NEW c \in Client, PollAgain(c) \/ GiveUp(c) PROVE IInv'
  BY <1>2, PollInv
<1>3. ASSUME NEW s \in Serve,
             ServeStart(s) \/ ServeStep(s) \/ ServeReconnect(s) \/ ServeExit(s)
      PROVE  IInv'
  BY <1>3, ServeInv
<1>4. ASSUME NEW d \in Daemon,
             DaemonStart(d) \/ DaemonStep(d) \/ DaemonSignalled(d) \/ DaemonIdle(d)
                \/ DaemonTeardown(d)
      PROVE  IInv'
  BY <1>4, DaemonInv
<1>5. ASSUME NEW d \in Daemon, NEW c \in Client, Handle(d, c) PROVE IInv'
  BY <1>5, HandleInv
<1>6. ASSUME NEW t \in Stop, StopStart(t) \/ StopStep(t) PROVE IInv'
  BY <1>6, StopInv
<1>7. CASE UNCHANGED vars
  BY <1>7 DEF vars, IInv, TypeOK, HoldersHoldTheLock, OwnSocketOrNone, BindFindsNoSocket,
              SocketHasItsDaemon, PeersAreRunning, LockIsHeldByTheLiving
<1> QED  BY <1>1, <1>2, <1>3, <1>4, <1>5, <1>6, <1>7 DEF Next

(* The inductive invariant: who holds the lock, and whose socket is there. *)
THEOREM Invariance == Spec => []IInv
  BY InitInv, NextInv, PTL DEF Spec

-----------------------------------------------------------------------------
(* Every process of run_daemon, run_serve and run_daemon_stop stays in its *)
(* places, and every shared variable in its range.                         *)
THEOREM TypeCorrect == Spec => []TypeOK
<1>1. IInv => TypeOK  BY DEF IInv
<1> QED  BY <1>1, Invariance, PTL

(* The flock lets one daemon at a time past try_acquire: of two daemons    *)
(* between the lock and the end of teardown both would hold it.            *)
THEOREM AtMostOneDaemon == Spec => []OneDaemon
<1>1. IInv => OneDaemon  BY DEF IInv, HoldersHoldTheLock, OneDaemon
<1> QED  BY <1>1, Invariance, PTL

(* run_daemon's remove_file calls never remove another daemon's socket:    *)
(* nobody else can have bound while the remover holds the lock.            *)
THEOREM RemovalIsSafe == Spec => []RemovesOnlyItsOwn
<1>1. IInv => RemovesOnlyItsOwn  BY DEF IInv, OwnSocketOrNone, RemovesOnlyItsOwn
<1> QED  BY <1>1, Invariance, PTL

(* Between the defensive remove_file and bind nobody else binds, so bind   *)
(* cannot fail with the address in use.                                    *)
THEOREM BindSucceeds == Spec => []BindFindsNoSocket
<1>1. IInv => BindFindsNoSocket  BY DEF IInv
<1> QED  BY <1>1, Invariance, PTL

(* A lock is never left behind: its holder is at work and will drop it.    *)
THEOREM LockNotLeaked == Spec => []LockIsHeldByTheLiving
<1>1. IInv => LockIsHeldByTheLiving  BY DEF IInv
<1> QED  BY <1>1, Invariance, PTL

(* All clients of a root are connected to the same daemon, because every   *)
(* daemon they can be connected to, the ending one apart, holds the lock.  *)
THEOREM OneDaemonForAllClients == Spec => []ClientsShareTheDaemon
<1>1. IInv => ClientsShareTheDaemon
  BY DEF IInv, TypeOK, HoldersHoldTheLock, PeersAreRunning, ClientsShareTheDaemon
<1> QED  BY <1>1, Invariance, PTL

-----------------------------------------------------------------------------
(* A step leads to remove_file only from a refused connect, which a socket *)
(* with a listener behind it does not give; and the path changes hands     *)
(* only through its own daemon, or one that would need its lock.           *)
LEMMA SettledStep ==
  ASSUME IInv, [Next]_vars, NEW d \in Daemon, Settled(d), pc'[d] \in Listening
  PROVE  Settled(d)'
<1> USE DEF Goto, net, IsListening, Settled, IInv, TypeOK, HoldersHoldTheLock
<1>1. ASSUME NEW p \in Proc, Probe(p) \/ ProbeTimeout(p) PROVE Settled(d)'
  BY <1>1 DEF Probe, ProbeExists, ProbeConnect, ProbeUnlink, ProbeTimeout, FoundLive, FoundNone
<1>2. ASSUME NEW p \in Proc, Crash(p) PROVE Settled(d)'
  BY <1>2 DEF Crash, ProcessEnds
<1>3. ASSUME NEW c \in Client, PollAgain(c) \/ GiveUp(c) PROVE Settled(d)'
  BY <1>3 DEF PollAgain, GiveUp
<1>4. ASSUME NEW s \in Serve,
             ServeStart(s) \/ ServeStep(s) \/ ServeReconnect(s) \/ ServeExit(s)
      PROVE  Settled(d)'
  BY <1>4 DEF ServeStart, ServeStep, ServeTryLock, ServeDropLock, ServeSpawn, ServeSpawnFails,
              ServeAttach, Connect, ServeReconnect, ServeExit, FreeSlot
<1>5. ASSUME NEW e \in Daemon,
             DaemonStart(e) \/ DaemonStep(e) \/ DaemonSignalled(e) \/ DaemonIdle(e)
                \/ DaemonTeardown(e)
      PROVE  Settled(d)'
  <2>1. CASE e = d
    BY <1>5, <2>1 DEF DaemonStart, DaemonStep, DaemonTryLock, DaemonClear, DaemonBind,
       DaemonListen, DaemonOpenDb, DaemonAbort, LeaveLoop, DaemonToldToStop, DaemonSignalled,
       DaemonIdle, DaemonTeardown, DaemonRemove, DaemonRelease, DaemonExit
  <2>2. CASE e # d
    <3>1. pc[e] \notin Holding  BY <2>2
    <3> QED
      BY <1>5, <2>2, <3>1 DEF DaemonStart, DaemonStep, DaemonTryLock, DaemonClear, DaemonBind,
         DaemonListen, DaemonOpenDb, DaemonAbort, LeaveLoop, DaemonToldToStop, DaemonSignalled,
         DaemonIdle, DaemonTeardown, DaemonRemove, DaemonRelease, DaemonExit
  <2> QED  BY <2>1, <2>2
<1>6. ASSUME NEW e \in Daemon, NEW c \in Client, Handle(e, c) PROVE Settled(d)'
  BY <1>6 DEF Handle, DaemonAccept, HandleEof, HandleShutdown
<1>7. ASSUME NEW t \in Stop, StopStart(t) \/ StopStep(t) PROVE Settled(d)'
  BY <1>7 DEF StopStart, StopStep, StopDial, Connect, StopSend, StopReadsEof
<1>8. CASE UNCHANGED vars  BY <1>8 DEF vars
<1> QED  BY <1>1, <1>2, <1>3, <1>4, <1>5, <1>6, <1>7, <1>8 DEF Next

(* probe_liveness can unlink a live daemon's socket only if it was already *)
(* past its refused connect when that daemon came to listen.               *)
THEOREM OnlyEarlyProbesUnlink == Spec => SettledSocketStays
<1> DEFINE Stays == \A d \in Daemon : Settled(d) /\ pc[d]' \in Listening => Settled(d)'
<1>1. IInv /\ [Next]_vars => [Stays]_vars  BY SettledStep
<1> QED  BY <1>1, Invariance, PTL DEF Spec, SettledSocketStays

-----------------------------------------------------------------------------
(* The processes implement the abstract slot: what probes, clients and     *)
(* other daemons do leaves owner and stage alone.                          *)
LEMMA SlotStarts == Init => Slot!SlotInit
  BY DEF Init, Slot!SlotInit

LEMMA SlotSteps ==
  ASSUME IInv, [Next]_vars
  PROVE  [Slot!SlotNext]_(Slot!slotVars)
<1> DEFINE Same == UNCHANGED lock /\ (lock \in Daemon => StageOf(pc'[lock]) = StageOf(pc[lock]))
<1>0. Same => UNCHANGED Slot!slotVars
  BY DEF Slot!slotVars
<1> USE DEF Goto, net, IInv, TypeOK, HoldersHoldTheLock, LockIsHeldByTheLiving, StageOf
<1>1. ASSUME NEW p \in Proc, Probe(p) \/ ProbeTimeout(p) PROVE Same
  BY <1>1 DEF Probe, ProbeExists, ProbeConnect, ProbeUnlink, ProbeTimeout
<1>2. ASSUME NEW p \in Proc, Crash(p) 
      PROVE  UNCHANGED Slot!slotVars \/ Slot!Free
  <2>1. CASE lock # p             BY <1>0, <1>2, <2>1 DEF Crash
  <2>2. CASE lock = p /\ p \in Daemon     BY <1>2, <2>2 DEF Crash, Slot!Free
  <2>3. CASE lock = p /\ p \notin Daemon  BY <1>2, <2>3 DEF Crash, Slot!slotVars
  <2> QED  BY <2>1, <2>2, <2>3
<1>3. ASSUME NEW c \in Client, PollAgain(c) \/ GiveUp(c) PROVE Same
  BY <1>3 DEF PollAgain, GiveUp
<1>4. ASSUME NEW s \in Serve,
             ServeStart(s) \/ ServeStep(s) \/ ServeReconnect(s) \/ ServeExit(s)
      PROVE  UNCHANGED Slot!slotVars
  <2> USE <1>0, <1>4
  <2>1. CASE ServeTryLock(s)   BY <2>1 DEF ServeTryLock, Slot!slotVars
  <2>2. CASE ServeDropLock(s)  BY <2>2 DEF ServeDropLock, Slot!slotVars
  <2>3. CASE ServeSpawn(s)     BY <2>3 DEF ServeSpawn, FreeSlot
  <2>4. CASE ServeStart(s) \/ ServeSpawnFails(s) \/ ServeReconnect(s) \/ ServeExit(s)
    BY <2>4 DEF ServeStart, ServeSpawnFails, ServeReconnect, ServeExit
  <2>5. CASE ServeAttach(s)    BY <2>5 DEF ServeAttach, Connect
  <2> QED  BY <2>1, <2>2, <2>3, <2>4, <2>5 DEF ServeStep
<1>5. ASSUME NEW d \in Daemon,
             DaemonStart(d) \/ DaemonStep(d) \/ DaemonSignalled(d) \/ DaemonIdle(d)
                \/ DaemonTeardown(d)
      PROVE  Slot!SlotNext \/ UNCHANGED Slot!slotVars
  <2> USE <1>0, <1>5
  <2>1. CASE DaemonStart(d)     BY <2>1 DEF DaemonStart, FreeSlot
  <2>2. CASE DaemonTryLock(d)
    <3>1. Slot!Take(d) \/ Same  BY <2>2 DEF DaemonTryLock, Slot!Take
    <3> QED  BY <3>1 DEF Slot!SlotNext
  <2>3. CASE DaemonClear(d) \/ DaemonListen(d) \/ DaemonTeardown(d) \/ DaemonRemove(d)
    BY <2>3 DEF DaemonClear, DaemonListen, DaemonTeardown, DaemonRemove
  <2>4. CASE DaemonBind(d)
    <3>1. Slot!Free \/ Same  BY <2>4 DEF DaemonBind, Slot!Free
    <3> QED  BY <3>1 DEF Slot!SlotNext
  <2>5. CASE DaemonOpenDb(d)
    <3>1. Slot!Serves \/ Slot!Ends  BY <2>5 DEF DaemonOpenDb, Slot!Serves, Slot!Ends
    <3> QED  BY <3>1 DEF Slot!SlotNext
  <2>6. CASE DaemonAbort(d)     BY <2>6 DEF DaemonAbort
  <2>7. CASE LeaveLoop(d)
    <3>1. Slot!Ends  BY <2>7 DEF LeaveLoop, Slot!Ends
    <3> QED  BY <3>1 DEF Slot!SlotNext
  <2>8. CASE DaemonRelease(d)
    <3>1. Slot!Free  BY <2>8 DEF DaemonRelease, Slot!Free
    <3> QED  BY <3>1 DEF Slot!SlotNext
  <2>9. CASE DaemonExit(d)      BY <2>9 DEF DaemonExit
  <2> QED  BY <2>1, <2>2, <2>3, <2>4, <2>5, <2>6, <2>7, <2>8, <2>9
           DEF DaemonStep, DaemonToldToStop, DaemonSignalled, DaemonIdle
<1>6. ASSUME NEW d \in Daemon, NEW c \in Client, Handle(d, c) PROVE Same
  BY <1>6 DEF Handle, DaemonAccept, HandleEof, HandleShutdown
<1>7. ASSUME NEW t \in Stop, StopStart(t) \/ StopStep(t) PROVE Same
  BY <1>7 DEF StopStart, StopStep, StopDial, Connect, StopSend, StopReadsEof
<1>8. CASE UNCHANGED vars  BY <1>0, <1>8 DEF vars
<1> QED  BY <1>0, <1>1, <1>2, <1>3, <1>4, <1>5, <1>6, <1>7, <1>8 DEF Next, Slot!SlotNext

(* Ownership of the root passes between daemons only through a free slot,  *)
(* and a daemon that is ending never serves again.                         *)
THEOREM SlotRefinement == Spec => ImplementsSlot
<1>1. Init => Slot!SlotInit  BY SlotStarts
<1>2. IInv /\ [Next]_vars => [Slot!SlotNext]_(Slot!slotVars)  BY SlotSteps
<1> QED  BY <1>1, <1>2, Invariance, PTL DEF Spec, ImplementsSlot, Slot!SlotSpec
=============================================================================
