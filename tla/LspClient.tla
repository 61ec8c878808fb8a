----------------------------- MODULE LspClient -----------------------------
(***************************************************************************)
(* One language server as its users see it (lsp/client.rs, lsp/server.rs): *)
(* the tasks that tell it about a document and ask it something, the actor *)
(* that owns its stdin and pairs answers with requests, the reader of its  *)
(* stdout, and the escalation that ends the process.                       *)
(*                                                                         *)
(* One document is enough: documents share nothing but the channels.  What *)
(* tasks hold of each other is the map open_docs, under a lock that is     *)
(* released before the notification it decided on is sent.  A new text     *)
(* always takes a new version, so the version stands for the text.         *)
(***************************************************************************)
EXTENDS Naturals, Sequences, FiniteSets

CONSTANTS None,
          QueueLen,   \* commands the actor's channel holds (64)
          PipeLen,    \* messages the server's stdin holds
          MaxTasks    \* bound: how often somebody uses the client

ASSUME ClientAssumption ==
    QueueLen \in Nat \ {0} /\ PipeLen \in Nat \ {0} /\ MaxTasks \in Nat

VARIABLES
    docs,     \* open_docs: the version last decided on, 0 before the first
    task,     \* each use: [pc, the version it made sure of]
    queue,    \* the commands before the actor
    actor,    \* [pc, the command it writes]
    pending,  \* <<id, whose>>: requests written and not yet answered
    nextId,
    pipe,     \* what the server has not read yet
    server,   \* the version it was told last, and the ids it is working on
    inbound,  \* what the reader has passed on: ids of answers, and the stream's end
    proc,     \* the process: running, exited, published by its exit watch
    stop,     \* ServerProcess::shutdown
    overtaken \* history: a notification was overtaken by a later one

user == <<docs, task, overtaken>>
link == <<queue, actor, pending, nextId>>
far  == <<pipe, server, inbound, proc>>
vars == <<user, link, far, stop>>

Tasks == 1..MaxTasks
Command(kind, version, by) == [kind |-> kind, version |-> version, by |-> by]
Stopper == 0       \* who asks for the shutdown, among the tasks
EndOfStream == 0   \* among the ids of answers, which start at 1
Closed == actor.pc = "gone"
Room == ~Closed /\ Len(queue) < QueueLen
Select == [pc |-> "select", cmd |-> None]

Init ==
    /\ docs = 0 /\ overtaken = FALSE
    /\ task = [c \in Tasks |-> [pc |-> "new", version |-> 0]]
    /\ queue = <<>> /\ actor = Select /\ pending = {} /\ nextId = 1
    /\ pipe = <<>> /\ inbound = <<>> /\ proc = "running"
    /\ server = [version |-> 0, todo |-> {}]
    /\ stop = "none"

-----------------------------------------------------------------------------
(* A task: make the server know the text, then ask.                        *)

Unsent == {c \in Tasks : task[c].pc = "notify"}
NewTask == {c \in Tasks : task[c].pc = "new" /\ \A d \in 1..c - 1 : task[d].pc # "new"}

\* Mutant: a change is not recorded.
EnsureUnstored(c, known) ==
    /\ c \in NewTask /\ (known => docs # 0)
    /\ docs' = IF docs = 0 THEN 1 ELSE docs
    /\ task' = [task EXCEPT ![c] = [pc |-> IF known THEN "ask" ELSE "notify",
                                    version |-> IF known THEN docs ELSE docs + 1]]
    /\ overtaken' = (overtaken \/ (known /\ Unsent # {}))
    /\ UNCHANGED <<link, far, stop>>

\* ensure_document, under the lock: skip a known text, else take the next version.
EnsureDocument(c, known) ==
    /\ c \in NewTask /\ (known => docs # 0)
    /\ docs' = IF known THEN docs ELSE docs + 1
    /\ task' = [task EXCEPT ![c] = [pc |-> IF known THEN "ask" ELSE "notify", version |-> docs']]
    /\ overtaken' = (overtaken \/ (known /\ Unsent # {}))
    /\ UNCHANGED <<link, far, stop>>

\* Mutant: a notification is sent only if there is room for it.
NotifyIfRoom(c) ==
    /\ task[c].pc = "notify"
    /\ queue' = IF ~Room THEN queue
                ELSE Append(queue, Command(IF task[c].version = 1 THEN "open" ELSE "change",
                                           task[c].version, Stopper))
    /\ task' = [task EXCEPT ![c].pc = "ask"]
    /\ overtaken' = (overtaken \/ \E d \in Unsent : task[d].version < task[c].version)
    /\ UNCHANGED <<docs, actor, pending, nextId, far, stop>>

\* Then didOpen or didChange.  Nothing bounds the wait for room; a closed channel is
\* ignored by queries.
Notify(c) ==
    /\ task[c].pc = "notify" /\ (Room \/ Closed)
    /\ queue' = IF Closed THEN queue
                ELSE Append(queue, Command(IF task[c].version = 1 THEN "open" ELSE "change",
                                           task[c].version, Stopper))
    /\ task' = [task EXCEPT ![c].pc = "ask"]
    /\ overtaken' = (overtaken \/ \E d \in Unsent : task[d].version < task[c].version)
    /\ UNCHANGED <<docs, actor, pending, nextId, far, stop>>

Ends(c) == task' = [task EXCEPT ![c] = [pc |-> "done", version |-> 0]]

Request(c) ==
    /\ task[c].pc = "ask" /\ Room
    /\ queue' = Append(queue, Command("request", task[c].version, c))
    /\ task' = [task EXCEPT ![c] = [pc |-> "wait", version |-> 0]]
    /\ UNCHANGED <<docs, overtaken, actor, pending, nextId, far, stop>>

RequestFails(c) ==
    /\ task[c].pc = "ask" /\ Closed /\ Ends(c)
    /\ UNCHANGED <<docs, overtaken, link, far, stop>>

\* The deadline covers the wait for room and the wait for the answer; a command in
\* the queue stays there.
TimedOut(c) ==
    /\ task[c].pc \in {"ask", "wait"} /\ Ends(c)
    /\ UNCHANGED <<docs, overtaken, link, far, stop>>

-----------------------------------------------------------------------------
(* The actor.  Replies go to those of these who still wait.                *)
Reply(whose) ==
    /\ task' = [c \in Tasks |-> IF task[c].pc = "wait" /\ c \in whose
                                THEN [pc |-> "done", version |-> 0] ELSE task[c]]
    /\ stop' = IF stop = "wait" /\ Stopper \in whose THEN "exit" ELSE stop

\* The select is biased: nothing is taken from the queue while something is inbound.
Takes == actor.pc = "select" /\ inbound = <<>> /\ queue # <<>>
InHand == IF actor.pc = "writing" THEN actor.cmd ELSE Head(queue)
TakesInHand ==
    /\ Takes \/ actor.pc = "writing"
    /\ queue' = IF Takes THEN Tail(queue) ELSE queue

IsRequest(cmd) == cmd.kind \in {"request", "shutdown"}

\* write_message waits while the pipe is full.
ActorBlocks ==
    /\ Takes /\ proc = "running" /\ Len(pipe) = PipeLen
    /\ TakesInHand
    /\ actor' = [pc |-> "writing", cmd |-> InHand]
    /\ UNCHANGED <<user, pending, nextId, far, stop>>

ActorWrites ==
    /\ proc = "running" /\ Len(pipe) < PipeLen
    /\ TakesInHand
    /\ pipe' = Append(pipe, [cmd |-> InHand, id |-> nextId])
    /\ IF IsRequest(InHand)
       THEN pending' = pending \cup {<<nextId, InHand.by>>} /\ nextId' = nextId + 1
       ELSE UNCHANGED <<pending, nextId>>
    /\ actor' = Select
    /\ UNCHANGED <<user, server, inbound, proc, stop>>

\* A failed request is answered, a failed notification forgotten, and the actor goes on.
ActorWriteFails ==
    /\ proc # "running"
    /\ TakesInHand
    /\ nextId' = IF IsRequest(InHand) THEN nextId + 1 ELSE nextId
    /\ Reply(IF IsRequest(InHand) THEN {InHand.by} ELSE {})
    /\ actor' = Select
    /\ UNCHANGED <<docs, overtaken, pending, far>>

\* dispatch_inbound.
ActorDispatches ==
    /\ actor.pc = "select" /\ inbound # <<>> /\ Head(inbound) # EndOfStream
    /\ LET hits == {p \in pending : p[1] = Head(inbound)} IN
       pending' = pending \ hits /\ Reply({p[2] : p \in hits})
    /\ inbound' = Tail(inbound)
    /\ UNCHANGED <<docs, overtaken, queue, actor, nextId, pipe, server, proc>>

\* Mutant: what was written and not answered is left waiting.
ActorEndsUndrained ==
    /\ actor.pc = "select"
    /\ \/ inbound # <<>> /\ Head(inbound) = EndOfStream
       \/ inbound = <<>> /\ queue = <<>> /\ stop = "done" /\ \A c \in Tasks : task[c].pc \in {"new", "done"}
    /\ Reply({queue[i].by : i \in DOMAIN queue})
    /\ actor' = [pc |-> "gone", cmd |-> None]
    /\ queue' = <<>> /\ pending' = {} /\ inbound' = <<>>
    /\ UNCHANGED <<docs, overtaken, nextId, pipe, server, proc>>

\* The stream has ended, or no handle is left: fail the pending, drop the queued.
ActorEnds ==
    /\ actor.pc = "select"
    /\ \/ inbound # <<>> /\ Head(inbound) = EndOfStream
       \/ inbound = <<>> /\ queue = <<>> /\ stop = "done" /\ \A c \in Tasks : task[c].pc \in {"new", "done"}
    /\ Reply({p[2] : p \in pending} \cup {queue[i].by : i \in DOMAIN queue})
    /\ actor' = [pc |-> "gone", cmd |-> None]
    /\ queue' = <<>> /\ pending' = {} /\ inbound' = <<>>
    /\ UNCHANGED <<docs, overtaken, nextId, pipe, server, proc>>

-----------------------------------------------------------------------------
(* The server and its reader, which ends with the stream.                  *)
Reading == \A i \in DOMAIN inbound : inbound[i] # EndOfStream
Inbound(item) == IF Reading /\ ~Closed THEN Append(inbound, item) ELSE inbound

\* The process is gone: its pipes close, what it had not read is lost.
Dies ==
    /\ proc' = "exited" /\ pipe' = <<>> /\ inbound' = Inbound(EndOfStream)
    /\ server' = [server EXCEPT !.todo = {}]

ServerReads ==
    LET m == Head(pipe) IN
    /\ proc = "running" /\ pipe # <<>>
    /\ IF m.cmd.kind = "exit" THEN Dies
       ELSE /\ pipe' = Tail(pipe)
            /\ server' = IF IsRequest(m.cmd) THEN [server EXCEPT !.todo = @ \cup {m.id}]
                         ELSE [server EXCEPT !.version = m.cmd.version]
            /\ UNCHANGED <<inbound, proc>>
    /\ UNCHANGED <<user, link, stop>>

\* Answers come in any order.
ServerAnswers ==
    /\ proc = "running"
    /\ \E id \in server.todo : inbound' = Inbound(id) /\ server' = [server EXCEPT !.todo = @ \ {id}]
    /\ UNCHANGED <<user, link, pipe, proc, stop>>

\* Something that is no message ends the reader, and with it the client, while the
\* process lives.
ServerGarbles ==
    /\ proc = "running" /\ Reading /\ ~Closed
    /\ inbound' = Inbound(EndOfStream)
    /\ UNCHANGED <<user, link, pipe, server, proc, stop>>

ServerCrashes == proc = "running" /\ Dies /\ UNCHANGED <<user, link, stop>>

\* wait_exit reaps the child and publishes that.
WaitExit ==
    /\ proc = "exited"
    /\ proc' = "published"
    /\ UNCHANGED <<user, link, pipe, server, inbound, stop>>

-----------------------------------------------------------------------------
(* ServerProcess::shutdown.                                                *)
ShutdownBegins ==
    /\ stop = "none"
    /\ stop' = IF proc = "published" THEN "done" ELSE "ask"
    /\ UNCHANGED <<user, link, far>>

\* The shutdown request, bounded by grace.
ShutdownAsks ==
    /\ stop = "ask"
    /\ \/ Room /\ queue' = Append(queue, Command("shutdown", 0, Stopper)) /\ stop' = "wait"
       \/ Closed /\ stop' = "exit" /\ UNCHANGED queue
    /\ UNCHANGED <<user, actor, pending, nextId, far>>

ShutdownTimesOut ==
    /\ stop \in {"ask", "wait"}
    /\ stop' = "exit"
    /\ UNCHANGED <<user, link, far>>

\* The exit notification, which nothing bounds.
ShutdownNotifies ==
    /\ stop = "exit" /\ (Room \/ Closed)
    /\ queue' = IF Closed THEN queue ELSE Append(queue, Command("exit", 0, Stopper))
    /\ stop' = "grace"
    /\ UNCHANGED <<user, actor, pending, nextId, far>>

\* Mutant: SIGTERM is the last resort.
EscalateToTermOnly ==
    /\ stop \in {"grace", "term", "kill"}
    /\ stop' = IF proc = "published" \/ stop # "grace" THEN "done" ELSE "term"
    /\ UNCHANGED <<user, link, far>>

\* wait_exit_bounded has ended, with the exit or with its time: the next signal, if
\* there is one.  SIGTERM may be ignored.
Escalate ==
    /\ stop \in {"grace", "term", "kill"}
    /\ stop' = IF proc = "published" THEN "done"
               ELSE CASE stop = "grace" -> "term" [] stop = "term" -> "kill" [] stop = "kill" -> "done"
    /\ \/ proc = "running" /\ stop # "kill" /\ Dies
       \/ (proc = "running" => stop # "term") /\ UNCHANGED far
    /\ UNCHANGED <<user, link>>

-----------------------------------------------------------------------------
TaskStep(c) == Notify(c) \/ Request(c) \/ RequestFails(c)
ActorStep == ActorBlocks \/ ActorWrites \/ ActorWriteFails \/ ActorDispatches \/ ActorEnds
ShutdownStep == ShutdownAsks \/ ShutdownTimesOut \/ ShutdownNotifies \/ Escalate

Next ==
    \/ \E c \in Tasks : TaskStep(c) \/ TimedOut(c) \/ \E known \in BOOLEAN : EnsureDocument(c, known)
    \/ ActorStep
    \/ ServerReads \/ ServerAnswers \/ ServerGarbles \/ ServerCrashes \/ WaitExit
    \/ ShutdownBegins \/ ShutdownStep

Spec == Init /\ [][Next]_vars

\* Everything of semnav's own runs on.  The server need not, and no deadline of a
\* request is needed but that of the shutdown.
FairSpec ==
    /\ Spec /\ WF_vars(ActorStep) /\ WF_vars(WaitExit) /\ WF_vars(ShutdownStep)
    /\ \A c \in Tasks : WF_vars(TaskStep(c))

\* Not semnav's to promise.
ServerResponds == WF_vars(ServerReads) /\ WF_vars(ServerAnswers)

-----------------------------------------------------------------------------
TypeOK ==
    /\ docs \in 0..MaxTasks
    /\ task \in [Tasks -> [pc : {"new", "notify", "ask", "wait", "done"}, version : 0..MaxTasks]]
    /\ Len(queue) <= QueueLen /\ Len(pipe) <= PipeLen
    /\ actor.pc \in {"select", "writing", "gone"}
    /\ proc \in {"running", "exited", "published"}
    /\ stop \in {"none", "ask", "wait", "exit", "grace", "term", "kill", "done"}

\* The commands between the lock and the server, oldest first: in the pipe, in the
\* actor's hand, in the channel.
Held == IF actor.pc = "writing" THEN 1 ELSE 0
Count == Len(pipe) + Held + Len(queue)
OnWay(i) ==
    IF i <= Len(pipe) THEN pipe[i].cmd
    ELSE IF i <= Len(pipe) + Held THEN actor.cmd ELSE queue[i - Len(pipe) - Held]
Line == [i \in 1..Count |-> OnWay(i)]

\* The notifications about the document among them.
IsNote(cmd) == cmd.kind \in {"open", "change"}
Notes == {i \in 1..Count : IsNote(Line[i])}

\* What ensure_document does guarantee with its lock: no two notifications ever carry
\* one version, and as long as none was overtaken between the lock and the channel, the
\* versions the server has not been told of yet are those on their way, in order, and
\* after them those about to be sent: none is lost, none is told twice, and the server
\* ends with the one every later caller takes it to have.
ServerFollowsDocs ==
    proc = "running" /\ actor.pc # "gone" =>
        /\ \A c, d \in Unsent : task[c].version = task[d].version => c = d
        /\ ~overtaken =>
             /\ \A i, j \in Notes : i < j => Line[i].version < Line[j].version
             /\ \A i \in Notes, c \in Unsent : Line[i].version < task[c].version
             /\ {Line[i].version : i \in Notes} \cup {task[c].version : c \in Unsent}
                  = (server.version + 1)..docs

\* No request is handled before the document its caller made sure of, unless a
\* notification was overtaken.
AsksAboutWhatItSent ==
    proc = "running" /\ pipe # <<>> /\ Head(pipe).cmd.kind = "request" /\ ~overtaken =>
        server.version >= Head(pipe).cmd.version

\* shutdown() never returns with the process still running (lsp-lifecycle.md, SIGKILL).
ShutdownEndsTheServer == stop = "done" => proc # "running"

\* A server that reads and answers, or dies, or breaks its stream, leaves no caller to
\* its deadline: each is answered, or failed by the actor.
RequestsSettle ==
    ServerResponds => \A c \in Tasks : task[c].pc = "wait" ~> task[c].pc # "wait"

\* client.rs: callers "never race each other into sending a redundant/version-regressed
\* `didOpen`".
OpenComesFirst ==
    [][\A i \in DOMAIN queue' :
         Len(queue') > Len(queue) /\ i = Len(queue') /\ queue'[i].kind = "open"
            => server.version = 0 /\ Notes = {}]_vars

\* server.rs: "Each stage is bounded by `grace`, so the worst case is ~3x`grace`".
ShutdownIsBounded == stop = "ask" ~> stop = "done"
=============================================================================
