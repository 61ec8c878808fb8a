------------------------- MODULE LspSupervisor_proofs -------------------------
(***************************************************************************)
(* What LspSupervisor keeps true for every number of callers and servers,  *)
(* every failure threshold and every bound.  The invariant is IInv: the    *)
(* checked safety properties, and where the actor can be in each state.    *)
(***************************************************************************)
EXTENDS LspSupervisor, TLAPS

(* A start runs only from a state that is mending, with the timer disarmed  *)
(* and no server held; only then is a server being shaken hands with.       *)
PhaseAgrees ==
    /\ phase \in {"provision", "handshake"} =>
          /\ state \in {"starting", "restarting", "down"}
          /\ timer = 0
          /\ lastStart # "provision"
    /\ state = "starting" =>
          phase \in {"provision", "handshake"} \/ (phase = "record" /\ due = "start")
    /\ phase = "record" =>
          /\ due = "start" => state = "starting" /\ lastStart # "provision"
          /\ due = "start_failed" => state = "restarting"
          /\ due # "restarting"
          /\ due = "ack" /\ serving # None => call[serving] = "report"
    /\ phase = "handshake" => starting \in Server /\ proc[starting] \in {"spawned", "none"}
    /\ phase # "handshake" => starting = None
    /\ phase = "select" => serving = None
    /\ phase = "stopping" /\ serving # None => call[serving] = "shutdown"

(* A missing runtime leaves the language down. *)
MissingIsDown ==
    /\ lastStart = "provision" => state = "down"
    /\ state = "not_started" => failures = 0

IInv ==
    /\ TypeOK
    /\ ServersAreOwned
    /\ TimerIffRetrying
    /\ FailuresAgree
    /\ PhaseAgrees
    /\ MissingIsDown

USE NameAssumption, PolicyAssumption

(* nth_backoff stays inside the table, whatever the failure count.          *)
LEMMA NthBackoffInTable == \A n \in Nat : NthBackoff(n) \in {1, 2, 4, 8, 16}
  BY DEF NthBackoff, Backoff

(* The timer is armed with a wait of the policy, never with zero.           *)
LEMMA NextWaitArms ==
  \A n \in Nat \ {0} : NextWait(n) \in Wait \ {0}
  <1>1. {1, 2, 4, 8, 16} \subseteq Wait \ {0}
    BY DEF Wait, Backoff
  <1>2. DownRetry \in Wait \ {0}
    BY DEF Wait, DownRetry
  <1> QED
    BY <1>1, <1>2, NthBackoffInTable DEF NextWait

(* The counter of consecutive failures grows, and stops at its last value.  *)
LEMMA SaturatingAddBounds ==
  \A n \in 0..MaxCount :
     /\ SaturatingAdd1(n) \in 1..MaxCount
     /\ n >= MaxFailures => SaturatingAdd1(n) >= MaxFailures
     /\ n < MaxFailures => SaturatingAdd1(n) = n + 1
  BY DEF SaturatingAdd1

-----------------------------------------------------------------------------
(* A fresh supervisor has nothing armed, held or under way.                 *)
LEMMA InitInv == Init => IInv
  BY DEF Init, IInv, TypeOK, ServersAreOwned, TimerIffRetrying, FailuresAgree,
         PhaseAgrees, MissingIsDown, State, Request, Outcome, Wait

(* An anomaly, from any state: the server held is retired, the counter,     *)
(* and the timer follow the new state.                                      *)
LEMMA AnomalyAgrees ==
  ASSUME IInv, NEW p \in [Server -> {"none", "spawned", "live", "leaving", "orphan"}],
         TransitionAfterAnomaly(p),
         \A s \in Server : p[s] = "live" => s = current
  PROVE  /\ current' = None
         /\ failures' \in 1..MaxCount
         /\ state' \in {"restarting", "down"}
         /\ state' = "restarting" => failures' < MaxFailures /\ timer' = NthBackoff(failures' - 1)
         /\ state' = "down" => failures' >= MaxFailures /\ timer' = DownRetry
         /\ timer' \in Wait \ {0}
         /\ proc' \in [Server -> {"none", "spawned", "live", "leaving", "orphan"}]
         /\ \A s \in Server : proc'[s] # "live"
         /\ \A s \in Server : proc'[s] = "spawned" => p[s] = "spawned"
  <1>0. failures \in 0..MaxCount /\ failures' = SaturatingAdd1(failures)
    BY DEF IInv, TypeOK, TransitionAfterAnomaly
  <1>1. failures' \in 1..MaxCount /\ failures' \in Nat \ {0}
    <2>1. failures' \in 1..MaxCount
      BY <1>0, SaturatingAddBounds
    <2> QED
      BY <2>1
  <1>2. timer' = NextWait(failures') /\ timer' \in Wait \ {0}
    BY <1>1, NextWaitArms DEF TransitionAfterAnomaly
  <1>3. proc' = Retired(p, "leaving") /\ current' = None
    BY DEF TransitionAfterAnomaly
  <1>4. /\ proc' \in [Server -> {"none", "spawned", "live", "leaving", "orphan"}]
        /\ \A s \in Server : proc'[s] # "live"
        /\ \A s \in Server : proc'[s] = "spawned" => p[s] = "spawned"
    BY <1>3 DEF Retired
  <1>5. /\ state' \in {"restarting", "down"}
        /\ state' = "restarting" => failures' < MaxFailures /\ timer' = NthBackoff(failures' - 1)
        /\ state' = "down" => failures' >= MaxFailures /\ timer' = DownRetry
    BY <1>1, <1>2 DEF TransitionAfterAnomaly, GivesUp, NextWait
  <1> QED
    BY <1>1, <1>2, <1>3, <1>4, <1>5

-----------------------------------------------------------------------------
USE DEF ServersAreOwned, TimerIffRetrying, FailuresAgree,
        PhaseAgrees, MissingIsDown

(* The anomaly of a start that failed: back to the select, one more failure.*)
LEMMA StartFailsInv ==
  ASSUME IInv, NEW p \in [Server -> {"none", "spawned", "live", "leaving", "orphan"}],
         phase \in {"provision", "handshake"},
         \A s \in Server : p[s] \notin {"live", "spawned"},
         StartFails(p)
  PROVE  IInv'
  <1>1. TransitionAfterAnomaly(p) /\ Settle(IF state' = "down" THEN "down" ELSE "start_failed")
        /\ lastStart' = "failed"
    BY DEF StartFails
  <1>2. /\ current' = None
        /\ failures' \in 1..MaxCount
        /\ state' \in {"restarting", "down"}
        /\ state' = "restarting" => failures' < MaxFailures /\ timer' = NthBackoff(failures' - 1)
        /\ state' = "down" => failures' >= MaxFailures /\ timer' = DownRetry
        /\ timer' \in Wait \ {0}
        /\ proc' \in [Server -> {"none", "spawned", "live", "leaving", "orphan"}]
        /\ \A s \in Server : proc'[s] # "live"
        /\ \A s \in Server : proc'[s] = "spawned" => p[s] = "spawned"
    BY <1>1, AnomalyAgrees
  <1>3. TypeOK'
    BY <1>1, <1>2 DEF IInv, TypeOK, State, Settle, Record, Outcome
  <1> QED
    BY <1>1, <1>2, <1>3 DEF IInv, TypeOK, Settle, Record, Outcome

(* An anomaly while the server is held: a child exit, or a report.          *)
LEMMA HealthyAnomalyInv ==
  ASSUME IInv, phase = "select", state = "healthy", TransitionAfterAnomaly(proc),
         Record("ack"), starting' = starting, lastStart' = lastStart,
         serving' \in Caller \union {None},
         serving' # None => call'[serving'] = "report",
         mailbox' \in Seq(Caller),
         call' \in [Caller -> Request \union {"idle", "closed"}],
         reply' = reply
  PROVE  IInv'
  <1>1. proc \in [Server -> {"none", "spawned", "live", "leaving", "orphan"}]
        /\ \A s \in Server : proc[s] = "live" => s = current
    BY DEF IInv, TypeOK
  <1>2. /\ current' = None
        /\ failures' \in 1..MaxCount
        /\ state' \in {"restarting", "down"}
        /\ state' = "restarting" => failures' < MaxFailures /\ timer' = NthBackoff(failures' - 1)
        /\ state' = "down" => failures' >= MaxFailures /\ timer' = DownRetry
        /\ timer' \in Wait \ {0}
        /\ proc' \in [Server -> {"none", "spawned", "live", "leaving", "orphan"}]
        /\ \A s \in Server : proc'[s] # "live"
        /\ \A s \in Server : proc'[s] = "spawned" => proc[s] = "spawned"
    BY <1>1, AnomalyAgrees
  <1>3. TypeOK'
    BY <1>2 DEF IInv, TypeOK, State, Record
  <1> QED
    BY <1>2, <1>3 DEF IInv, TypeOK, Record, Outcome

-----------------------------------------------------------------------------
USE DEF IInv, TypeOK, Request, Outcome, State

(* Every step keeps IInv: one step of the proof per action.                 *)
LEMMA NextInv == IInv /\ [Next]_vars => IInv'
  <1> SUFFICES ASSUME IInv, [Next]_vars PROVE IInv'
    OBVIOUS
  <1> USE DEF health, vars
  <1>1. CASE UNCHANGED vars
    BY <1>1
  <1>2. ASSUME NEW c \in Caller, NEW r \in Request, Send(c, r) PROVE IInv'
    BY <1>2 DEF Send
  <1>3. ASSUME NEW c \in Caller, Bounce(c) PROVE IInv'
    BY <1>3 DEF Bounce, Answer, Acknowledge
  <1>4. ASSUME NEW c \in Caller, DropHandle(c) PROVE IInv'
    BY <1>4 DEF DropHandle
  <1>5. ASSUME NEW s \in Server, Exit(s) PROVE IInv'
    BY <1>5 DEF Exit
  <1>6. CASE ChildExit
    <2>1. serving = None
      BY <1>6 DEF ChildExit
    <2> QED
      BY <1>6, <2>1, HealthyAnomalyInv DEF ChildExit
  <1>7. CASE RestartTimer
    BY <1>7 DEF RestartTimer, Wait
  <1>8. ASSUME NEW c \in Caller, AcquireStarts(c) PROVE IInv'
    BY <1>8 DEF AcquireStarts, Receive, Record
  <1>9. ASSUME NEW c \in Caller, AcquireAnswered(c) PROVE IInv'
    BY <1>9 DEF AcquireAnswered, Receive, Answer
  <1>10. ASSUME NEW c \in Caller, ReportFailure(c) PROVE IInv'
    <2>1. mailbox' \in Seq(Caller) /\ reply' = reply
          /\ call' \in [Caller -> Request \union {"idle", "closed"}]
          /\ starting' = starting /\ lastStart' = lastStart
      BY <1>10 DEF ReportFailure, Receive, Acknowledge
    <2>2. CASE state = "healthy"
      <3>1. TransitionAfterAnomaly(proc) /\ phase = "select" /\ Record("ack")
            /\ serving' = c /\ call' = call /\ call[c] = "report"
        BY <1>10, <2>2 DEF ReportFailure, Receive
      <3> QED
        BY <2>1, <2>2, <3>1, HealthyAnomalyInv
    <2>3. CASE state # "healthy"
      BY <1>10, <2>1, <2>3 DEF ReportFailure, Receive
    <2> QED
      BY <2>2, <2>3
  <1>11. ASSUME NEW c \in Caller, Shutdown(c) PROVE IInv'
    BY <1>11 DEF Shutdown, Receive, BeginShutdown, Retired
  <1>12. CASE HandlesDropped
    BY <1>12 DEF HandlesDropped, BeginShutdown, Retired
  <1>13. CASE ShutdownDone
    BY <1>13 DEF ShutdownDone, Acknowledge, Wait
  <1>14. CASE ProvisionFails
    BY <1>14 DEF ProvisionFails, StopTrying, Settle, Record, Retired, Wait
  <1>15. CASE SpawnFails
    BY <1>15, StartFailsInv DEF SpawnFails
  <1>16. ASSUME NEW s \in Server, Spawn(s) PROVE IInv'
    BY <1>16 DEF Spawn, Unused
  <1>17. CASE InitializeFails
    <2>1. CASE proc[starting] = "none" /\ StartFails(proc)
      BY <1>17, <2>1, StartFailsInv DEF InitializeFails
    <2>2. CASE proc[starting] = "spawned" /\ StartFails([proc EXCEPT ![starting] = "orphan"])
      <3> DEFINE p == [proc EXCEPT ![starting] = "orphan"]
      <3>1. /\ p \in [Server -> {"none", "spawned", "live", "leaving", "orphan"}]
            /\ \A s \in Server : p[s] \notin {"live", "spawned"}
        BY <1>17 DEF InitializeFails
      <3> HIDE DEF p
      <3>2. StartFails(p)
        BY <2>2 DEF p
      <3> QED
        BY <1>17, <3>1, <3>2, StartFailsInv DEF InitializeFails
    <2> QED
      BY <1>17, <2>1, <2>2 DEF InitializeFails
  <1>18. CASE InitializeSucceeds
    BY <1>18 DEF InitializeSucceeds, SetHealthy, Settle, Record
  <1>19. CASE RecordState
    BY <1>19 DEF RecordState, Answer, Acknowledge
  <1> QED
    BY <1>1, <1>2, <1>3, <1>4, <1>5, <1>6, <1>7, <1>8, <1>9, <1>10, <1>11,
       <1>12, <1>13, <1>14, <1>15, <1>16, <1>17, <1>18, <1>19 DEF Next, ActorNext

HIDE DEF IInv, TypeOK, Request, Outcome, State, ServersAreOwned, TimerIffRetrying,
         FailuresAgree, PhaseAgrees, MissingIsDown

(* IInv holds of every reachable state.                                     *)
THEOREM Invariance == Spec => []IInv
  BY InitInv, NextInv, PTL DEF Spec

(* Every variable keeps to its type: the counter saturates, the timer is    *)
(* always a wait of the policy.                                             *)
THEOREM TypeCorrect == Spec => []TypeOK
  BY Invariance, PTL DEF IInv

(* No restart, report or failed start ever loses a server.                  *)
THEOREM NoServerIsLost == Spec => []ServersAreOwned
  BY Invariance, PTL DEF IInv

(* The timer is armed exactly while something has to be retried.            *)
THEOREM RetriesAreArmed == Spec => []TimerIffRetrying
  BY Invariance, PTL DEF IInv

(* The failure counter agrees with the state.                               *)
THEOREM CounterAgrees == Spec => []FailuresAgree
  BY Invariance, PTL DEF IInv

-----------------------------------------------------------------------------
(* A caller told to retry is told so with the timer armed: while the state  *)
(* is restarting, or once the failed start that armed it has been recorded. *)
THEOREM RetriesAreScheduled == Spec => RetryIsScheduled
  <1> DEFINE Told(c) == /\ call[c] = "acquire" /\ call'[c] = "idle"
                        /\ reply'[c] \in {"restarting", "start_failed"}
  <1>1. ASSUME IInv, [Next]_vars, NEW c \in Caller, Told(c) PROVE timer' # 0
    <2> USE <1>1 DEF health, vars
    <2>0. NextWait(failures') # 0 \/ failures' \notin Nat \ {0}
      BY NextWaitArms
    <2>1. ~ UNCHANGED vars
      OBVIOUS
    <2>2. ASSUME NEW d \in Caller, NEW r \in Request, Send(d, r) PROVE FALSE
      BY <2>2 DEF Send, Request, IInv, TypeOK
    <2>3. ASSUME NEW d \in Caller, Bounce(d) PROVE FALSE
      BY <2>3 DEF Bounce, Answer, Acknowledge
    <2>4. ASSUME NEW d \in Caller, DropHandle(d) PROVE FALSE
      BY <2>4 DEF DropHandle, IInv, TypeOK
    <2>5. ASSUME NEW d \in Caller, AcquireAnswered(d) PROVE timer' # 0
      <3>1. state = "restarting" /\ phase = "select" /\ timer' = timer
        BY <2>5 DEF AcquireAnswered, Receive, Answer, IInv, TypeOK, State,
                    PhaseAgrees, ServersAreOwned, Outcome, NameAssumption
      <3>2. timer = NthBackoff(failures - 1) /\ failures - 1 \in Nat
        BY <3>1 DEF IInv, TypeOK, TimerIffRetrying, FailuresAgree
      <3> QED
        BY <3>1, <3>2, NthBackoffInTable
    <2>6. CASE RecordState
      <3>1. CASE due = "start_failed"
        <4>1. state = "restarting" /\ timer' = timer
          BY <2>6, <3>1 DEF RecordState, IInv, PhaseAgrees
        <4>2. timer = NthBackoff(failures - 1) /\ failures - 1 \in Nat
          BY <2>6, <4>1 DEF RecordState, IInv, TypeOK, TimerIffRetrying, FailuresAgree
        <4> QED
          BY <4>1, <4>2, NthBackoffInTable
      <3>2. CASE due \notin {"start_failed", "ack", "start"}
        <4>1. reply' = [d \in Caller |-> IF d = serving THEN due ELSE reply[d]]
              /\ call' = [d \in Caller |-> IF d = serving THEN "idle" ELSE call[d]]
          BY <2>6, <3>2 DEF RecordState, Answer
        <4> QED
          BY <2>6, <3>2, <4>1 DEF RecordState, IInv, PhaseAgrees
      <3>3. CASE due = "ack"
        <4>1. call' = [d \in Caller |-> IF d = serving THEN "idle" ELSE call[d]]
          BY <2>6, <3>3 DEF RecordState, Acknowledge
        <4>2. c = serving => call[c] = "report"
          BY <2>6, <3>3 DEF RecordState, IInv, PhaseAgrees, NameAssumption
        <4> QED
          BY <4>1, <4>2
      <3>4. CASE due = "start"
        BY <2>6, <3>4 DEF RecordState
      <3> QED
        BY <3>1, <3>2, <3>3, <3>4
    <2>7. ASSUME NEW d \in Caller, ReportFailure(d) \/ Shutdown(d) \/ AcquireStarts(d) PROVE FALSE
      BY <2>7 DEF ReportFailure, Shutdown, BeginShutdown, AcquireStarts, Receive, Acknowledge
    <2>8. CASE ChildExit \/ RestartTimer \/ HandlesDropped \/ (\E s \in Server : Spawn(s) \/ Exit(s))
      <3>1. call' = call
        BY <2>8 DEF ChildExit, RestartTimer, HandlesDropped, BeginShutdown, Spawn, Exit
      <3> QED
        BY <3>1
    <2>9. CASE ShutdownDone
      <3>1. call' = [d \in Caller |-> IF d = serving THEN "idle" ELSE call[d]]
        BY <2>9 DEF ShutdownDone, Acknowledge
      <3>2. c = serving => call[c] = "shutdown"
        BY <2>9 DEF ShutdownDone, IInv, PhaseAgrees, TypeOK, NameAssumption
      <3> QED
        BY <3>1, <3>2
    <2>10. CASE ProvisionFails \/ InitializeSucceeds \/ SpawnFails \/ InitializeFails
      <3>1. call' = call
        BY <2>10 DEF ProvisionFails, InitializeSucceeds, SpawnFails, InitializeFails, StartFails, Settle
      <3> QED
        BY <3>1
    <2> QED
      BY <2>1, <2>2, <2>3, <2>4, <2>5, <2>6, <2>7, <2>8, <2>9, <2>10 DEF Next, ActorNext
  <1>2. IInv /\ [Next]_vars =>
          [\A c \in Caller :
             call[c] = "acquire" /\ call'[c] = "idle" /\ reply'[c] \in {"restarting", "start_failed"}
             => timer' # 0]_vars
    BY <1>1
  <1> QED
    BY <1>2, Invariance, PTL DEF Spec, RetryIsScheduled

-----------------------------------------------------------------------------
(* The supervisor implements the health state machine: every step is one of *)
(* its steps, or changes nothing it can see.                                *)
THEOREM HealthRefinement == Spec => ImplementsServerHealth
  <1> USE DEF Health!hvars, Health!Mendable
  <1>1. Init => Health!Init
    BY DEF Init, Health!Init
  <1>2. ASSUME IInv, [Next]_vars PROVE [Health!Next]_(Health!hvars)
    <2> USE <1>2 DEF health, vars
    <2> DEFINE Seen == <<state, current, failures, lastStart, phase>>
    <2>1. CASE Seen' = Seen
      BY <2>1
    <2>2. ASSUME phase # "ended", phase' # "ended", TransitionAfterAnomaly(proc) \/ (\E p : StartFails(p)),
                 phase \in {"provision", "handshake"} \/ state = "healthy",
                 lastStart' \in {lastStart, "failed"}, lastStart # "provision"
          PROVE  Health!Fail
      <3>1. /\ current' = None /\ failures' = SaturatingAdd1(failures)
            /\ state' = IF failures' >= MaxFailures THEN "down" ELSE "restarting"
        BY <2>2 DEF StartFails, TransitionAfterAnomaly, GivesUp
      <3>2. state = "down" => state' = "down"
        BY <3>1, <2>2, SaturatingAddBounds DEF IInv, TypeOK, FailuresAgree
      <3> QED
        BY <2>2, <3>1, <3>2 DEF Health!Fail, SaturatingAdd1, IInv, PhaseAgrees
    <2>3. CASE ChildExit
      <3>1. Health!Fail
        BY <2>2, <2>3 DEF ChildExit, Record, IInv, MissingIsDown
      <3> QED
        BY <3>1 DEF Health!Next
    <2>4. ASSUME NEW c \in Caller, ReportFailure(c) PROVE Health!Fail \/ Seen' = Seen
      BY <2>2, <2>4 DEF ReportFailure, Receive, Record, IInv, MissingIsDown
    <2>5. CASE SpawnFails \/ InitializeFails
      <3>1. /\ phase \in {"provision", "handshake"} /\ phase' = "record"
            /\ lastStart' = "failed" /\ \E p : StartFails(p)
        BY <2>5 DEF SpawnFails, InitializeFails, StartFails, Settle, Record
      <3>2. Health!Fail
        BY <2>2, <3>1 DEF IInv, PhaseAgrees
      <3> QED
        BY <3>2 DEF Health!Next
    <2>6. CASE ProvisionFails
      <3>1. Health!Missing
        BY <2>6 DEF ProvisionFails, StopTrying, Settle, Record, Health!Missing, IInv, PhaseAgrees
      <3> QED
        BY <3>1 DEF Health!Next
    <2>7. CASE InitializeSucceeds
      <3>1. starting \in Server /\ Health!Up(starting)
        BY <2>7 DEF InitializeSucceeds, SetHealthy, Settle, Record, Health!Up, IInv, PhaseAgrees
      <3> QED
        BY <3>1 DEF Health!Next
    <2>8. CASE ShutdownDone
      <3>1. Health!Close
        BY <2>8 DEF ShutdownDone, Health!Close
      <3> QED
        BY <3>1 DEF Health!Next
    <2>9. ASSUME NEW c \in Caller, AcquireStarts(c) PROVE Health!Begin
      BY <2>9 DEF AcquireStarts, Receive, Record, Health!Begin
    <2>10. ASSUME NEW c \in Caller,
                  \/ (\E r \in Request : Send(c, r)) \/ Bounce(c) \/ DropHandle(c)
                  \/ AcquireAnswered(c) \/ Shutdown(c)
           PROVE Health!Begin \/ (UNCHANGED <<state, current, failures, lastStart>> /\ (phase = "ended" <=> phase' = "ended"))
      BY <2>10 DEF Send, Bounce, DropHandle, AcquireAnswered, Shutdown, BeginShutdown, Receive
    <2>11. CASE HandlesDropped \/ RestartTimer \/ RecordState \/ (\E s \in Server : Spawn(s) \/ Exit(s))
      <3>1. UNCHANGED <<state, current, failures, lastStart>> /\ (phase = "ended" <=> phase' = "ended")
        BY <2>11 DEF HandlesDropped, BeginShutdown, RestartTimer, RecordState, Spawn, Exit
      <3> QED
        BY <3>1
    <2> QED
      BY <2>1, <2>3, <2>4, <2>5, <2>6, <2>7, <2>8, <2>9, <2>10, <2>11
      DEF Next, ActorNext, Health!Next
  <1> QED
    BY <1>1, <1>2, Invariance, PTL DEF Spec, ImplementsServerHealth, Health!Spec
=============================================================================
