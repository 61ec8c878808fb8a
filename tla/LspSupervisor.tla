---------------------------- MODULE LspSupervisor ----------------------------
(***************************************************************************)
(* One language's supervisor: an actor that starts a language server on    *)
(* the first acquire, restarts it with backoff, gives up for a while after *)
(* MaxFailures failures in a row, and tears it down.                       *)
(*                                                                         *)
(* Callers send it messages and wait for the reply.  Everything else that  *)
(* happens to it is a child exit, a timer, and the outcome of a start.     *)
(* A server is a process; Exit is its end, published by its exit watch.    *)
(***************************************************************************)
EXTENDS Naturals, Sequences, FiniteSets

CONSTANTS Caller,       (* tasks holding a SupervisorHandle                    *)
          Server,       (* server processes; one may be spawned again once     *)
                        (* it is gone and nobody holds its client              *)
          None,
          MaxFailures,  (* RestartPolicy.max_failures                          *)
          MaxCount,     (* bound: where the failure counter saturates          *)
          MaxOrphans    (* bound: processes left behind by a failed handshake  *)

Outcome == {"none", "restarting", "down", "start_failed"}
State   == {"not_started", "starting", "healthy", "restarting", "down"}
Request == {"acquire", "report", "shutdown"}

ASSUME NameAssumption ==
    /\ None \notin Server \union Caller
    /\ Server \intersect (Outcome \union {"ack", "start"}) = {}

ASSUME PolicyAssumption ==
    /\ MaxFailures \in Nat \ {0}
    /\ MaxCount \in Nat /\ MaxCount >= MaxFailures
    /\ MaxOrphans \in Nat

VARIABLES
    state,     (* ServerState                                                *)
    failures,  (* consecutive failures                                       *)
    timer,     (* seconds the restart timer was armed with; 0 when disarmed  *)
    current,   (* the server whose client, exit watch and keep-alive are held*)
    phase,     (* where run() awaits: select, or inside one of its arms      *)
    due,       (* what follows the writes of record_state: an answer to the  *)
               (* caller, its acknowledgement, or the start                  *)
    starting,  (* the server factory.start() is shaking hands with           *)
    serving,   (* the caller whose message the arm answers, None for a timer *)
    mailbox,   (* callers in the order of their messages                     *)
    call,      (* what each caller is waiting for                            *)
    reply,     (* the last answer to its acquire: a server's client, or why  *)
    proc,      (* each server process                                        *)
    lastStart  (* history: how the last start ended                          *)

health == <<state, failures, timer, current, lastStart>>
vars   == <<health, phase, due, starting, serving, mailbox, call, reply, proc>>

Init ==
    /\ state = "not_started" /\ failures = 0 /\ timer = 0 /\ current = None
    /\ phase = "select" /\ due = "none" /\ starting = None /\ serving = None
    /\ mailbox = <<>>
    /\ call = [c \in Caller |-> "idle"]
    /\ reply = [c \in Caller |-> "none"]
    /\ proc = [s \in Server |-> "none"]
    /\ lastStart = "none"

-----------------------------------------------------------------------------
(* RestartPolicy::default_real. *)
Backoff   == <<1, 2, 4, 8, 16>>
DownRetry == 30
NthBackoff(n) == Backoff[IF n < 4 THEN n + 1 ELSE 5]

SaturatingAdd1(n) == IF n < MaxCount THEN n + 1 ELSE n

GivesUp(n) == n >= MaxFailures

NextWaitDownForGood(n) == IF GivesUp(n) THEN 0 ELSE NthBackoff(n - 1)
NextWait(n) == IF GivesUp(n) THEN DownRetry ELSE NthBackoff(n - 1)

(* record_state: three writes to index_meta, awaited inside the arm that    *)
(* changed the state.  Nobody reads them back and a failure is ignored, so  *)
(* what matters of them is the await: exits, messages and timers come       *)
(* meanwhile, and are handled after it.                                     *)
Record(next) == phase' = "record" /\ due' = next

RetiredUnescalated(p, how) == p

(* Processes once the held server's teardown runs, or its pipes are closed. *)
Retired(p, how) == [s \in Server |-> IF s = current /\ p[s] = "live" THEN how ELSE p[s]]

(* transition_after_anomaly; p is proc as the anomaly left it. *)
TransitionAfterAnomaly(p) ==
    /\ current' = None
    /\ proc' = Retired(p, "leaving")
    /\ failures' = SaturatingAdd1(failures)
    /\ state' = IF GivesUp(failures') THEN "down" ELSE "restarting"
    /\ timer' = NextWait(failures')

(* The reply to the message being handled, if a caller sent it. *)
Answer(c, answer) ==
    /\ call' = [d \in Caller |-> IF d = c THEN "idle" ELSE call[d]]
    /\ reply' = [d \in Caller |-> IF d = c THEN answer ELSE reply[d]]

Acknowledge(c) ==
    /\ call' = [d \in Caller |-> IF d = c THEN "idle" ELSE call[d]]
    /\ UNCHANGED reply

-----------------------------------------------------------------------------
(***************************************************************************)
(* Callers.                                                                *)
(***************************************************************************)
Send(c, request) ==
    /\ phase # "ended" /\ call[c] = "idle"
    /\ request = "report" => reply[c] \in Server
    /\ call' = [call EXCEPT ![c] = request]
    /\ mailbox' = Append(mailbox, c)
    /\ UNCHANGED <<health, phase, due, starting, serving, reply, proc>>

(* A message that finds the actor gone, or that the actor left behind. *)
Bounce(c) ==
    /\ phase = "ended" /\ call[c] # "closed"
    /\ IF call[c] \in {"report", "shutdown"} THEN Acknowledge(c) ELSE Answer(c, "down")
    /\ UNCHANGED <<health, phase, due, starting, serving, mailbox, proc>>

DropHandle(c) ==
    /\ call[c] = "idle"
    /\ call' = [call EXCEPT ![c] = "closed"]
    /\ reply' = [reply EXCEPT ![c] = "none"]
    /\ UNCHANGED <<health, phase, due, starting, serving, mailbox, proc>>

-----------------------------------------------------------------------------
(* The arm that recorded the new state goes on: the start, or the answer.   *)
RecordState ==
    /\ phase = "record" /\ due' = "none"
    /\ IF due = "start"
       THEN phase' = "provision" /\ UNCHANGED <<serving, call, reply>>
       ELSE /\ phase' = "select" /\ serving' = None
            /\ IF due = "ack" THEN Acknowledge(serving) ELSE Answer(serving, due)
    /\ UNCHANGED <<health, starting, mailbox, proc>>

(***************************************************************************)
(* The biased select of run(): child exit, then timer, then message.       *)
(***************************************************************************)
ExitReady == current # None /\ proc[current] = "none"

ChildExit ==
    /\ phase = "select" /\ ExitReady /\ state = "healthy"
    /\ TransitionAfterAnomaly(proc)
    /\ Record("ack")
    /\ UNCHANGED <<starting, serving, mailbox, call, reply, lastStart>>

RestartTimer ==
    /\ phase = "select" /\ ~ExitReady /\ timer # 0
    /\ timer' = 0
    /\ phase' = "provision"
    /\ UNCHANGED <<state, failures, current, lastStart, due,
                   starting, serving, mailbox, call, reply, proc>>

Receive(c, request) ==
    /\ phase = "select" /\ ~ExitReady
    /\ mailbox # <<>> /\ Head(mailbox) = c
    /\ call[c] = request
    /\ mailbox' = Tail(mailbox)

AcquireStarts(c) ==
    /\ Receive(c, "acquire") /\ state = "not_started"
    /\ state' = "starting" /\ serving' = c
    /\ Record("start")
    /\ UNCHANGED <<failures, timer, current, lastStart, starting, call, reply, proc>>

AcquireAnsweredDownRetries(c) ==
    /\ Receive(c, "acquire") /\ state # "not_started"
    /\ Answer(c, IF state = "healthy" THEN current ELSE "restarting")
    /\ UNCHANGED <<health, phase, due, starting, serving, proc>>

AcquireAnswered(c) ==
    /\ Receive(c, "acquire") /\ state # "not_started"
    /\ Answer(c, IF state = "healthy"
                 THEN IF current = None THEN "start_failed" ELSE current
                 ELSE IF state = "down" THEN "down" ELSE "restarting")
    /\ UNCHANGED <<health, phase, due, starting, serving, proc>>

ReportFailureUnanswered(c) ==
    /\ Receive(c, "report") /\ UNCHANGED <<starting, serving, call, reply, lastStart>>
    /\ IF state = "healthy" THEN TransitionAfterAnomaly(proc) /\ Record("ack")
       ELSE UNCHANGED <<state, failures, timer, current, proc, phase, due>>

(* A report does not say which server it is about. *)
ReportFailure(c) ==
    /\ Receive(c, "report")
    /\ IF state = "healthy"
       THEN /\ TransitionAfterAnomaly(proc) /\ Record("ack")
            /\ serving' = c
            /\ UNCHANGED <<call, reply>>
       ELSE /\ Acknowledge(c)
            /\ UNCHANGED <<state, failures, timer, current, proc, phase, due, serving>>
    /\ UNCHANGED <<starting, lastStart>>

(* shutdown_graceful, as far as its await. *)
BeginShutdown(c) ==
    /\ phase' = "stopping" /\ serving' = c
    /\ proc' = Retired(proc, "leaving")
    /\ UNCHANGED <<health, due, starting, call, reply>>

Shutdown(c) == Receive(c, "shutdown") /\ BeginShutdown(c)

HandlesDropped ==
    /\ phase = "select" /\ ~ExitReady
    /\ mailbox = <<>> /\ \A c \in Caller : call[c] = "closed"
    /\ BeginShutdown(None)
    /\ UNCHANGED mailbox

(* With a server held this waits for the escalation, which a server that    *)
(* does not take its exit notification keeps from ever ending.              *)
ShutdownDone ==
    /\ phase = "stopping"
    /\ current # None => proc[current] = "none"
    /\ current' = None /\ timer' = 0 /\ phase' = "ended" /\ mailbox' = <<>>
    /\ Acknowledge(serving)
    /\ serving' = None
    /\ UNCHANGED <<state, failures, due, lastStart, starting, proc>>

-----------------------------------------------------------------------------
(***************************************************************************)
(* attempt_start, awaited inside the arm that called it.                   *)
(***************************************************************************)
(* The start is over: its outcome is recorded, then answered. *)
Settle(answer) ==
    /\ Record(answer) /\ starting' = None
    /\ UNCHANGED <<serving, mailbox, call, reply>>

StopTryingRetried == state' = "down" /\ timer' = DownRetry
StopTrying == state' = "down" /\ timer' = 0

(* drop_current closes the pipes of the server, should there be one. *)
ProvisionFails ==
    /\ phase = "provision"
    /\ current' = None /\ proc' = Retired(proc, "orphan")
    /\ StopTrying
    /\ lastStart' = "provision"
    /\ Settle("down")
    /\ UNCHANGED failures

StartFails(p) ==
    /\ TransitionAfterAnomaly(p)
    /\ lastStart' = "failed"
    /\ Settle(IF state' = "down" THEN "down" ELSE "start_failed")

SpawnFails == phase = "provision" /\ StartFails(proc)

Unused(s) ==
    /\ proc[s] = "none" /\ s # current
    /\ \A c \in Caller : reply[c] # s

Spawn(s) ==
    /\ phase = "provision" /\ Unused(s)
    /\ proc' = [proc EXCEPT ![s] = "spawned"]
    /\ starting' = s /\ phase' = "handshake"
    /\ UNCHANGED <<health, due, serving, mailbox, call, reply>>

Orphans == {s \in Server : proc[s] = "orphan"}

(* The server died, or took too long: then start() drops it unkilled. *)
InitializeFails ==
    /\ phase = "handshake"
    /\ \/ /\ proc[starting] = "none"
          /\ StartFails(proc)
       \/ /\ proc[starting] = "spawned" /\ Cardinality(Orphans) < MaxOrphans
          /\ StartFails([proc EXCEPT ![starting] = "orphan"])

SetHealthy(s) == current' = s /\ state' = "healthy" /\ failures' = 0

(* The handshake may succeed just before the server dies. *)
InitializeSucceeds ==
    /\ phase = "handshake"
    /\ proc' = [proc EXCEPT ![starting] = IF @ = "spawned" THEN "live" ELSE @]
    /\ SetHealthy(starting)
    /\ lastStart' = "ok"
    /\ Settle(starting)
    /\ UNCHANGED timer

-----------------------------------------------------------------------------
(* A process ends by itself, or at the end of its shutdown escalation. *)
Exit(s) ==
    /\ proc[s] # "none"
    /\ proc' = [proc EXCEPT ![s] = "none"]
    /\ UNCHANGED <<health, phase, due, starting, serving, mailbox, call, reply>>

ActorNext ==
    \/ ChildExit \/ RestartTimer \/ HandlesDropped \/ ShutdownDone \/ RecordState
    \/ \E c \in Caller : AcquireStarts(c) \/ AcquireAnswered(c) \/ ReportFailure(c) \/ Shutdown(c)
    \/ ProvisionFails \/ SpawnFails \/ (\E s \in Server : Spawn(s))
    \/ InitializeFails \/ InitializeSucceeds

Next ==
    \/ ActorNext
    \/ \E c \in Caller : (\E r \in Request : Send(c, r)) \/ Bounce(c) \/ DropHandle(c)
    \/ \E s \in Server : Exit(s)

Spec == Init /\ [][Next]_vars

(***************************************************************************)
(* The actor is scheduled, timers elapse, the writes of record_state and   *)
(* the handshake (which has a deadline) end.  A message needs strong       *)
(* fairness: restarts interrupt the select, but every timer is armed for a *)
(* second or more, so a queued message is taken in between.                *)
(*                                                                         *)
(* Nothing is fair that has no deadline: provisioning (supervisor.rs:440), *)
(* and the escalation of a server, which awaits room for its `exit`        *)
(* notification for ever (lsp/server.rs:143).                              *)
(***************************************************************************)
Handled == \E c \in Caller : AcquireStarts(c) \/ AcquireAnswered(c) \/ ReportFailure(c) \/ Shutdown(c)

Fairness ==
    /\ WF_vars(ChildExit) /\ WF_vars(RestartTimer) /\ WF_vars(RecordState)
    /\ WF_vars(current = None /\ ShutdownDone)
    /\ SF_vars(Handled) /\ SF_vars(HandlesDropped)
    /\ WF_vars(InitializeFails \/ InitializeSucceeds)
    /\ \A c \in Caller : WF_vars(call[c] \in Request /\ Bounce(c))

FairSpec == Spec /\ Fairness

-----------------------------------------------------------------------------
(***************************************************************************)
(* Properties.                                                             *)
(***************************************************************************)
Wait == {0, DownRetry} \union {Backoff[i] : i \in DOMAIN Backoff}

TypeOK ==
    /\ state \in State
    /\ failures \in 0..MaxCount
    /\ timer \in Wait
    /\ current \in Server \union {None}
    /\ phase \in {"select", "provision", "handshake", "record", "stopping", "ended"}
    /\ due \in Server \union Outcome \union {"ack", "start"}
    /\ starting \in Server \union {None}
    /\ serving \in Caller \union {None}
    /\ mailbox \in Seq(Caller)
    /\ call \in [Caller -> Request \union {"idle", "closed"}]
    /\ reply \in [Caller -> Server \union Outcome]
    /\ proc \in [Server -> {"none", "spawned", "live", "leaving", "orphan"}]
    /\ lastStart \in {"none", "ok", "failed", "provision"}

(* Every server that finished its handshake is either the one the           *)
(* supervisor holds, which it holds exactly while healthy, or has its       *)
(* shutdown escalation running: a restart, a report or a failed provision   *)
(* never loses one (drop_current, drop_current_gracefully).                 *)
ServersAreOwned ==
    /\ phase # "ended" => ((current # None) <=> (state = "healthy"))
    /\ \A s \in Server : proc[s] = "live" => s = current
    /\ \A s \in Server : proc[s] = "spawned" => phase = "handshake" /\ s = starting

(* Outside a start and a shutdown the restart timer is armed exactly        *)
(* in the states something must end: restarting, and down unless the        *)
(* runtime is missing.  A healthy server is never restarted by a timer left *)
(* behind, and no retry is forgotten (run, attempt_start).                  *)
TimerIffRetrying ==
    phase \in {"select", "record"} =>
        /\ state = "restarting" => timer = NthBackoff(failures - 1)
        /\ (state = "down" /\ lastStart # "provision") => timer = DownRetry
        /\ (state \in {"not_started", "starting", "healthy"} \/ lastStart = "provision") => timer = 0

(* The counter is what the state says: reset by success, below the          *)
(* threshold while backing off, at or above it when down by failures.       *)
FailuresAgree ==
    /\ state = "healthy" => failures = 0
    /\ state = "restarting" => failures \in 1..MaxFailures - 1
    /\ state = "down" /\ lastStart # "provision" => failures >= MaxFailures

(* A caller told "restarting" or "start failed; may retry after the         *)
(* backoff" (AcquireError) is told so only while that retry is armed.       *)
RetryIsScheduled ==
    [][\A c \in Caller :
         call[c] = "acquire" /\ call'[c] = "idle" /\ reply'[c] \in {"restarting", "start_failed"}
         => timer' # 0]_vars

(* Every message is answered, whatever starts, crashes and shutdowns come   *)
(* in between: the reply is sent, or its sender is dropped with the actor.  *)
(* The two awaits without a deadline are the two ways out: a provisioning   *)
(* that hangs for ever, and the shutdown of a server that does.             *)
EveryCallReturns ==
    \/ <>[](phase = "provision")
    \/ <>[](phase = "stopping" /\ current # None)
    \/ \A c \in Caller : call[c] \in Request ~> call[c] \notin Request

(* Once started, a language becomes healthy again, from restarting and from *)
(* down, unless its runtime is missing or its supervisor is stopped; or all *)
(* its starts fail, and then they never cease; or one of them hangs.        *)
StartsFailForEver == []<>(phase = "provision") /\ <>[](state # "healthy")
Recovers ==
    \/ state \in {"starting", "restarting", "down"}
         ~> state = "healthy" \/ lastStart = "provision" \/ phase = "ended"
    \/ StartsFailForEver

(* The promise of the health state machine.                                 *)
Health == INSTANCE ServerHealth WITH
    health <- state, serving <- current, streak <- failures,
    missing <- (lastStart = "provision"), closed <- (phase = "ended")
ImplementsServerHealth == Health!Spec

(***************************************************************************)
(* What the comments say and the code does not do.                         *)
(***************************************************************************)
(* shutdown() returns only once the child it handed out is reaped.          *)
ShutdownReaps ==
    [][phase = "stopping" /\ phase' = "ended"
       => \A s \in Server : proc[s] \notin {"live", "leaving"}]_vars
=============================================================================
