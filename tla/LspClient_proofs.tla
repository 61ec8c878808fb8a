-------------------------- MODULE LspClient_proofs --------------------------
(***************************************************************************)
(* What the client of a language server keeps for any number of users, any *)
(* room in its channel and any size of the server's stdin: nobody's        *)
(* question overtakes the document it is about, and a shutdown that has    *)
(* returned leaves no process.  Between the lock of open_docs and the      *)
(* server a command is in the channel, in the actor's hand or in the pipe; *)
(* the argument is about these three as one line.                          *)
(***************************************************************************)
EXTENDS LspClient, SequenceTheorems, TLAPS

Commands == [kind : {"open", "change", "request", "shutdown", "exit"}, version : Nat, by : Nat]
Messages == [cmd : Commands, id : Nat]

Shape ==
    /\ docs \in Nat /\ overtaken \in BOOLEAN
    /\ task \in [Tasks -> [pc : {"new", "notify", "ask", "wait", "done"}, version : Nat]]
    /\ queue \in Seq(Commands) /\ pipe \in Seq(Messages)
    /\ actor \in [pc : {"select", "writing", "gone"}, cmd : Commands \cup {None}]
    /\ actor.pc = "writing" => actor.cmd \in Commands
    /\ server \in [version : Nat, todo : SUBSET Nat]
    /\ inbound \in Seq(Nat) /\ nextId \in Nat /\ pending \subseteq Nat \X Nat
    /\ proc \in {"running", "exited", "published"}
    /\ stop \in {"none", "ask", "wait", "exit", "grace", "term", "kill", "done"}

\* SIGKILL comes before the last wait.
KilledAtLast == stop \in {"kill", "done"} => proc # "running"

-----------------------------------------------------------------------------
NoteAt(i, version) == IsNote(Line[i]) /\ Line[i].version = version
Known(version) == version <= server.version \/ \E i \in 1..Count : NoteAt(i, version)

\* ensure_document never hands out a version twice.
VersionsAreNew ==
    /\ \A c \in Unsent : task[c].version <= docs
    /\ \A c, d \in Unsent : task[c].version = task[d].version => c = d

\* As long as nobody was overtaken: notifications are in the order of their versions,
\* and those not yet sent come after all that are.
InOrder ==
    /\ server.version <= docs
    /\ \A i \in 1..Count : IsNote(Line[i]) => server.version < Line[i].version /\ Line[i].version <= docs
    /\ \A i, j \in 1..Count : i < j /\ IsNote(Line[i]) /\ IsNote(Line[j]) => Line[i].version < Line[j].version
    /\ \A c \in Unsent : /\ server.version < task[c].version
                         /\ \A i \in 1..Count : IsNote(Line[i]) => Line[i].version < task[c].version

\* A version that was decided on is with the server, on its way or about to be sent.
NoneMissing ==
    ~Closed =>
        /\ \A c \in Tasks : task[c].pc = "ask" => Known(task[c].version)
        /\ \A v \in 1..docs : Known(v) \/ \E c \in Unsent : task[c].version = v

\* Every request on its way has its document before it.
RequestsFollow ==
    \A j \in 1..Count :
        Line[j].kind = "request" =>
            Line[j].version <= server.version \/ \E i \in 1..(j - 1) : NoteAt(i, Line[j].version)

Followed == proc = "running" /\ ~overtaken => InOrder /\ NoneMissing /\ RequestsFollow

IInv == Shape /\ KilledAtLast /\ VersionsAreNew /\ Followed

-----------------------------------------------------------------------------
(* Shape.                                                                  *)

\* Appending to a queue and taking its head, element by element.
LEMMA AppendElems ==
  ASSUME NEW S, NEW s \in Seq(S), NEW e \in S
  PROVE  /\ Append(s, e) \in Seq(S) /\ Len(Append(s, e)) = Len(s) + 1
         /\ \A i \in 1..Len(s) : Append(s, e)[i] = s[i]
         /\ Append(s, e)[Len(s) + 1] = e
  OBVIOUS

LEMMA TailElems ==
  ASSUME NEW S, NEW s \in Seq(S), s # <<>>
  PROVE  /\ Head(s) \in S /\ Tail(s) \in Seq(S) /\ Len(s) \in Nat /\ Len(s) >= 1 /\ Len(Tail(s)) = Len(s) - 1
         /\ Head(s) = s[1] /\ \A i \in 1..(Len(s) - 1) : Tail(s)[i] = s[i + 1]
  OBVIOUS

LEMMA TasksAreNaturals ==
  Tasks \subseteq Nat /\ Stopper \in Nat /\ EndOfStream \in Nat
  BY ClientAssumption DEF Tasks, Stopper, EndOfStream

LEMMA CommandsAreCommands ==
  ASSUME NEW kind \in {"open", "change", "request", "shutdown", "exit"}, NEW version \in Nat, NEW by \in Nat
  PROVE  /\ Command(kind, version, by) \in Commands
         /\ Command(kind, version, by).kind = kind /\ Command(kind, version, by).version = version
  BY DEF Command, Commands

LEMMA RepliesKeepShape ==
  ASSUME Shape, NEW whose, Reply(whose)
  PROVE  /\ task' \in [Tasks -> [pc : {"new", "notify", "ask", "wait", "done"}, version : Nat]]
         /\ stop' \in {"none", "ask", "wait", "exit", "grace", "term", "kill", "done"}
         /\ \A c \in Tasks : task'[c] = task[c] \/ (task[c].pc = "wait" /\ task'[c].pc = "done")
         /\ stop' \in {"kill", "done"} => stop \in {"kill", "done"}
  BY DEF Shape, Reply

\* What leaves the channel for the actor, or the actor for the pipe, is a command.
LEMMA InHandIsACommand ==
  ASSUME Shape, TakesInHand
  PROVE  InHand \in Commands /\ queue' \in Seq(Commands)
<1>1. CASE actor.pc = "writing"
  <2>1. ~Takes
    BY <1>1 DEF Takes
  <2> QED
    BY <1>1, <2>1 DEF Shape, TakesInHand, InHand
<1>2. CASE actor.pc # "writing"
  <2>1. queue # <<>> /\ queue' = Tail(queue) /\ InHand = Head(queue)
    BY <1>2 DEF TakesInHand, Takes, InHand
  <2> QED
    BY <2>1, TailElems DEF Shape
<1> QED
  BY <1>1, <1>2

LEMMA InboundsAreIds ==
  ASSUME Shape, NEW item \in Nat
  PROVE  Inbound(item) \in Seq(Nat)
  BY AppendElems DEF Shape, Inbound

LEMMA DyingKeepsShape ==
  ASSUME Shape, Dies
  PROVE  proc' = "exited" /\ pipe' \in Seq(Messages) /\ inbound' \in Seq(Nat)
         /\ server' \in [version : Nat, todo : SUBSET Nat]
<1>1. [server EXCEPT !.todo = {}] \in [version : Nat, todo : SUBSET Nat]
  BY DEF Shape
<1>2. Inbound(EndOfStream) \in Seq(Nat)
  BY InboundsAreIds, TasksAreNaturals
<1>3. <<>> \in Seq(Messages)
  OBVIOUS
<1> QED
  BY <1>1, <1>2, <1>3 DEF Dies

LEMMA InitShape ==
  ASSUME Init
  PROVE  Shape
<1>1. <<>> \in Seq(Commands) /\ <<>> \in Seq(Messages) /\ <<>> \in Seq(Nat)
  OBVIOUS
<1>2. task \in [Tasks -> [pc : {"new", "notify", "ask", "wait", "done"}, version : Nat]]
  BY DEF Init
<1>3. /\ actor \in [pc : {"select", "writing", "gone"}, cmd : Commands \cup {None}] /\ actor.pc = "select"
      /\ server \in [version : Nat, todo : SUBSET Nat]
  BY DEF Init, Select
<1> QED
  BY <1>1, <1>2, <1>3 DEF Init, Shape

LEMMA TaskKeepsShape ==
  ASSUME Shape, NEW c \in Tasks, NEW known \in BOOLEAN,
         TaskStep(c) \/ TimedOut(c) \/ EnsureDocument(c, known)
  PROVE  Shape'
<1>1. task[c] \in [pc : {"new", "notify", "ask", "wait", "done"}, version : Nat] /\ c \in Nat
  BY TasksAreNaturals DEF Shape
<1>2. CASE EnsureDocument(c, known)
  BY <1>1, <1>2 DEF EnsureDocument, Shape, link, far
<1>3. CASE Notify(c)
  <2>1. Command(IF task[c].version = 1 THEN "open" ELSE "change", task[c].version, Stopper) \in Commands
    BY <1>1, CommandsAreCommands, TasksAreNaturals
  <2>2. queue' \in Seq(Commands)
    BY <1>3, <2>1, AppendElems DEF Notify, Shape
  <2>3. overtaken' \in BOOLEAN
    BY <1>3 DEF Notify, Shape
  <2> QED
    BY <1>1, <1>3, <2>2, <2>3 DEF Notify, Shape, far
<1>4. CASE Request(c)
  <2>1. queue' \in Seq(Commands)
    BY <1>1, <1>4, CommandsAreCommands, AppendElems DEF Request, Shape
  <2> QED
    BY <1>1, <1>4, <2>1 DEF Request, Shape, far
<1>5. CASE RequestFails(c) \/ TimedOut(c)
  <2>1. task' = [task EXCEPT ![c] = [pc |-> "done", version |-> 0]] /\ UNCHANGED <<docs, overtaken, link, far, stop>>
    BY <1>5 DEF RequestFails, TimedOut, Ends
  <2>2. task' \in [Tasks -> [pc : {"new", "notify", "ask", "wait", "done"}, version : Nat]]
    BY <2>1 DEF Shape
  <2> QED
    BY <2>1, <2>2 DEF Shape, link, far
<1> QED
  BY <1>2, <1>3, <1>4, <1>5 DEF TaskStep

LEMMA ActorKeepsShape ==
  ASSUME Shape, ActorStep
  PROVE  Shape'
<1>1. CASE ActorBlocks
  BY <1>1, InHandIsACommand DEF ActorBlocks, Shape, user, far
<1>2. CASE ActorWrites
  <2>1. InHand \in Commands /\ queue' \in Seq(Commands)
    BY <1>2, InHandIsACommand DEF ActorWrites
  <2>2. [cmd |-> InHand, id |-> nextId] \in Messages /\ <<nextId, InHand.by>> \in Nat \X Nat
    BY <2>1 DEF Messages, Shape, Commands
  <2>3. pipe' \in Seq(Messages)
    BY <1>2, <2>2, AppendElems DEF ActorWrites, Shape
  <2>4. pending' \subseteq Nat \X Nat /\ nextId' \in Nat
    BY <1>2, <2>2 DEF ActorWrites, Shape
  <2> QED
    BY <1>2, <2>1, <2>3, <2>4 DEF ActorWrites, Shape, Select, user
<1>3. CASE ActorWriteFails
  <2>1. queue' \in Seq(Commands)
    BY <1>3, InHandIsACommand DEF ActorWriteFails
  <2>2. nextId' \in Nat
    BY <1>3 DEF ActorWriteFails, Shape
  <2>3. /\ task' \in [Tasks -> [pc : {"new", "notify", "ask", "wait", "done"}, version : Nat]]
        /\ stop' \in {"none", "ask", "wait", "exit", "grace", "term", "kill", "done"}
    BY <1>3, RepliesKeepShape DEF ActorWriteFails
  <2> QED
    BY <1>3, <2>1, <2>2, <2>3 DEF ActorWriteFails, Shape, Select, far
<1>4. CASE ActorDispatches
  <2>1. PICK whose : Reply(whose) /\ pending' \subseteq pending
    BY <1>4 DEF ActorDispatches
  <2>2. inbound' \in Seq(Nat)
    BY <1>4, TailElems DEF ActorDispatches, Shape
  <2>3. /\ task' \in [Tasks -> [pc : {"new", "notify", "ask", "wait", "done"}, version : Nat]]
        /\ stop' \in {"none", "ask", "wait", "exit", "grace", "term", "kill", "done"}
    BY <2>1, RepliesKeepShape
  <2>4. UNCHANGED <<docs, overtaken, queue, actor, nextId, pipe, server, proc>>
    BY <1>4 DEF ActorDispatches
  <2> QED
    BY <2>1, <2>2, <2>3, <2>4 DEF Shape
<1>5. CASE ActorEnds
  <2>1. PICK whose : Reply(whose)
    BY <1>5 DEF ActorEnds
  <2>2. /\ task' \in [Tasks -> [pc : {"new", "notify", "ask", "wait", "done"}, version : Nat]]
        /\ stop' \in {"none", "ask", "wait", "exit", "grace", "term", "kill", "done"}
    BY <2>1, RepliesKeepShape
  <2> QED
    BY <1>5, <2>2 DEF ActorEnds, Shape
<1> QED
  BY <1>1, <1>2, <1>3, <1>4, <1>5 DEF ActorStep

LEMMA ServerKeepsShape ==
  ASSUME Shape, ServerReads \/ ServerAnswers \/ ServerGarbles \/ ServerCrashes \/ WaitExit
  PROVE  Shape'
<1>1. CASE ServerReads
  <2>1. Head(pipe) \in Messages /\ Tail(pipe) \in Seq(Messages)
    BY <1>1, TailElems DEF ServerReads, Shape
  <2>2. CASE Head(pipe).cmd.kind = "exit"
    BY <1>1, <2>2, DyingKeepsShape DEF ServerReads, Shape, user, link
  <2>3. CASE Head(pipe).cmd.kind # "exit"
    <3>1. /\ pipe' = Tail(pipe) /\ UNCHANGED <<inbound, proc, user, link, stop>>
          /\ server' = IF IsRequest(Head(pipe).cmd) THEN [server EXCEPT !.todo = @ \cup {Head(pipe).id}]
                       ELSE [server EXCEPT !.version = Head(pipe).cmd.version]
      BY <1>1, <2>3 DEF ServerReads
    <3>2. Head(pipe).id \in Nat /\ Head(pipe).cmd.version \in Nat
      BY <2>1 DEF Messages, Commands
    <3>3. server' \in [version : Nat, todo : SUBSET Nat]
      <4> HIDE DEF IsRequest
      <4> QED
        BY <3>1, <3>2 DEF Shape
    <3> QED
      BY <2>1, <3>1, <3>3 DEF Shape, user, link
  <2> QED
    BY <2>2, <2>3
<1>2. CASE ServerAnswers
  <2>1. PICK id \in server.todo : inbound' = Inbound(id) /\ server' = [server EXCEPT !.todo = @ \ {id}]
    BY <1>2 DEF ServerAnswers
  <2>2. id \in Nat /\ server' \in [version : Nat, todo : SUBSET Nat]
    BY <2>1 DEF Shape
  <2>3. inbound' \in Seq(Nat)
    BY <2>1, <2>2, InboundsAreIds
  <2> QED
    BY <1>2, <2>2, <2>3 DEF ServerAnswers, Shape, user, link
<1>3. CASE ServerGarbles
  BY <1>3, InboundsAreIds, TasksAreNaturals DEF ServerGarbles, Shape, user, link
<1>4. CASE ServerCrashes
  BY <1>4, DyingKeepsShape DEF ServerCrashes, Shape, user, link
<1>5. CASE WaitExit
  BY <1>5 DEF WaitExit, Shape, user, link
<1> QED
  BY <1>1, <1>2, <1>3, <1>4, <1>5

LEMMA ShutdownKeepsShape ==
  ASSUME Shape, ShutdownBegins \/ ShutdownStep
  PROVE  Shape'
<1>1. CASE ShutdownBegins
  BY <1>1 DEF ShutdownBegins, Shape, user, link, far
<1>2. CASE ShutdownAsks
  <2>1. queue' \in Seq(Commands)
    <3>1. Command("shutdown", 0, Stopper) \in Commands
      BY CommandsAreCommands, TasksAreNaturals
    <3> QED
      <4>1. queue' = Append(queue, Command("shutdown", 0, Stopper)) \/ queue' = queue
        BY <1>2 DEF ShutdownAsks
      <4>2. queue \in Seq(Commands)
        BY DEF Shape
      <4> QED
        BY <3>1, <4>1, <4>2, AppendElems
  <2> QED
    BY <1>2, <2>1 DEF ShutdownAsks, Shape, user, far
<1>3. CASE ShutdownTimesOut
  BY <1>3 DEF ShutdownTimesOut, Shape, user, link, far
<1>4. CASE ShutdownNotifies
  <2>1. queue' \in Seq(Commands)
    BY <1>4, CommandsAreCommands, AppendElems, TasksAreNaturals DEF ShutdownNotifies, Shape
  <2> QED
    BY <1>4, <2>1 DEF ShutdownNotifies, Shape, user, far
<1>5. CASE Escalate
  <2>1. stop' \in {"term", "kill", "done"}
    BY <1>5 DEF Escalate
  <2>2. CASE Dies
    BY <1>5, <2>1, <2>2, DyingKeepsShape DEF Escalate, Shape, user, link
  <2>3. CASE UNCHANGED far
    BY <1>5, <2>1, <2>3 DEF Escalate, Shape, user, link, far
  <2> QED
    BY <1>5, <2>2, <2>3 DEF Escalate
<1> QED
  BY <1>1, <1>2, <1>3, <1>4, <1>5 DEF ShutdownStep

-----------------------------------------------------------------------------
(* What steps do to the line.                                              *)

LEMMA CountIsNatural ==
  ASSUME Shape
  PROVE  Count \in Nat /\ Held \in 0..1 /\ Len(pipe) \in Nat /\ Len(queue) \in Nat
         /\ \A i \in 1..Count : Line[i] = OnWay(i)
  BY DEF Shape, Count, Held, Line

LEMMA LineIsOfCommands ==
  ASSUME Shape, NEW i \in 1..Count
  PROVE  Line[i] \in Commands
<1>1. Count \in Nat /\ Held \in 0..1 /\ Len(pipe) \in Nat /\ Len(queue) \in Nat /\ Line[i] = OnWay(i)
      /\ Count = Len(pipe) + Held + Len(queue)
  BY CountIsNatural DEF Count
<1>2. CASE i <= Len(pipe)
  <2>1. pipe[i] \in Messages
    BY <1>1, <1>2, ElementOfSeq DEF Shape
  <2> QED
    BY <1>1, <1>2, <2>1 DEF OnWay, Messages
<1>3. CASE i > Len(pipe) /\ i <= Len(pipe) + Held
  <2>1. actor.pc = "writing"
    BY <1>1, <1>3 DEF Held
  <2> QED
    BY <1>1, <1>3, <2>1 DEF OnWay, Shape
<1>4. CASE i > Len(pipe) + Held
  <2>1. i - Len(pipe) - Held \in 1..Len(queue)
    BY <1>1, <1>4
  <2>2. queue[i - Len(pipe) - Held] \in Commands
    BY <2>1, ElementOfSeq DEF Shape
  <2> QED
    BY <1>1, <1>4, <2>2 DEF OnWay
<1> QED
  BY <1>1, <1>2, <1>3, <1>4

LEMMA LineGrows ==
  ASSUME Shape, Shape', NEW e \in Commands, queue' = Append(queue, e), UNCHANGED <<actor, pipe>>
  PROVE  Count' = Count + 1 /\ Line'[Count + 1] = e /\ \A i \in 1..Count : Line'[i] = Line[i]
<1>1. /\ Len(queue') = Len(queue) + 1 /\ queue'[Len(queue) + 1] = e
      /\ \A i \in 1..Len(queue) : queue'[i] = queue[i]
  BY AppendElems DEF Shape
<1>2. Count \in Nat /\ Held \in 0..1 /\ Len(pipe) \in Nat /\ Len(queue) \in Nat
  BY CountIsNatural
<1>3. Held' = Held
  BY DEF Held
<1>4. Count' = Count + 1
  BY <1>1, <1>2, <1>3 DEF Count
<1>5. Line'[Count + 1] = e
  <2>1. PICK n \in Nat : n = Count + 1
    BY <1>2
  <2>2. Line'[n] = OnWay(n)'
    BY <1>2, <1>4, <2>1 DEF Line
  <2>3. n > Len(pipe) + Held /\ n > Len(pipe) /\ n - Len(pipe) - Held = Len(queue) + 1
    BY <1>2, <2>1 DEF Count
  <2>4. OnWay(n)' = queue'[n - Len(pipe) - Held]
    BY <1>2, <1>3, <2>3 DEF OnWay
  <2> QED
    BY <1>1, <2>1, <2>2, <2>3, <2>4
<1>6. ASSUME NEW i \in 1..Count PROVE Line'[i] = Line[i]
  <2>1. Line[i] = OnWay(i) /\ Line'[i] = OnWay(i)' /\ i \in Nat /\ i >= 1 /\ i <= Len(pipe) + Held + Len(queue)
    BY <1>2, <1>4 DEF Line, Count
  <2>2. CASE i <= Len(pipe) + Held
    BY <1>2, <1>3, <2>1, <2>2 DEF OnWay
  <2>3. CASE ~(i <= Len(pipe) + Held)
    <3>1. i - Len(pipe) - Held \in 1..Len(queue)
      BY <1>2, <2>1, <2>3
    <3> QED
      BY <1>1, <1>2, <1>3, <2>1, <2>3, <3>1 DEF OnWay
  <2> QED
    BY <2>2, <2>3
<1> QED
  BY <1>4, <1>5, <1>6

LEMMA BlockingKeepsTheLine ==
  ASSUME Shape, Shape', ActorBlocks
  PROVE  Count' = Count /\ \A i \in 1..Count : Line'[i] = Line[i]
<1>1. /\ actor.pc # "writing" /\ actor'.pc = "writing" /\ actor'.cmd = Head(queue) /\ queue # <<>>
      /\ queue' = Tail(queue) /\ pipe' = pipe
  BY DEF ActorBlocks, TakesInHand, Takes, InHand, far
<1>2. Count \in Nat /\ Len(pipe) \in Nat /\ Len(queue) \in Nat
  BY CountIsNatural
<1>3. /\ Len(queue) >= 1 /\ Len(queue') = Len(queue) - 1 /\ actor'.cmd = queue[1]
      /\ \A i \in 1..(Len(queue) - 1) : queue'[i] = queue[i + 1]
  BY <1>1, TailElems DEF Shape
<1>4. Held = 0 /\ Held' = 1
  BY <1>1 DEF Held
<1>5. Count' = Count /\ Count = Len(pipe) + Len(queue)
  BY <1>1, <1>2, <1>3, <1>4 DEF Count
<1>6. ASSUME NEW i \in 1..Count PROVE Line'[i] = Line[i]
  <2>1. Line[i] = OnWay(i) /\ Line'[i] = OnWay(i)' /\ i \in Nat /\ i >= 1 /\ i <= Len(pipe) + Len(queue)
    BY <1>2, <1>5 DEF Line
  <2>2. CASE i <= Len(pipe)
    BY <1>1, <2>1, <2>2 DEF OnWay
  <2>3. CASE i = Len(pipe) + 1
    <3>1. ~(i <= Len(pipe)) /\ ~(i <= Len(pipe) + 0) /\ i <= Len(pipe) + 1 /\ i - Len(pipe) - 0 = 1
      BY <1>2, <2>3
    <3> QED
      BY <1>1, <1>3, <1>4, <2>1, <3>1 DEF OnWay
  <2>4. CASE i > Len(pipe) + 1
    <3>1. ~(i <= Len(pipe)) /\ ~(i <= Len(pipe) + 0) /\ ~(i <= Len(pipe) + 1)
          /\ i - Len(pipe) - 1 \in 1..(Len(queue) - 1) /\ i - Len(pipe) - 0 = (i - Len(pipe) - 1) + 1
      BY <1>2, <2>1, <2>4
    <3>2. queue'[i - Len(pipe) - 1] = queue[i - Len(pipe) - 0]
      BY <1>3, <3>1
    <3> QED
      BY <1>1, <1>4, <2>1, <3>1, <3>2 DEF OnWay
  <2> QED
    BY <1>2, <2>1, <2>2, <2>3, <2>4
<1> QED
  BY <1>5, <1>6

LEMMA WritingKeepsTheLine ==
  ASSUME Shape, Shape', ActorWrites
  PROVE  Count' = Count /\ \A i \in 1..Count : Line'[i] = Line[i]
<1> DEFINE message == [cmd |-> InHand, id |-> nextId]
<1>1. actor'.pc # "writing" /\ pipe' = Append(pipe, message) /\ TakesInHand
  BY DEF ActorWrites, Select
<1>2. InHand \in Commands /\ message \in Messages /\ message.cmd = InHand
  BY <1>1, InHandIsACommand DEF Messages, Shape
<1>3. Count \in Nat /\ Len(pipe) \in Nat /\ Len(queue) \in Nat /\ Held' = 0
  BY <1>1, CountIsNatural DEF Held
<1>4. Len(pipe') = Len(pipe) + 1 /\ pipe'[Len(pipe) + 1] = message /\ \A i \in 1..Len(pipe) : pipe'[i] = pipe[i]
  BY <1>1, <1>2, AppendElems DEF Shape
<1> HIDE DEF message
<1>5. CASE actor.pc = "writing"
  <2>1. Held = 1 /\ InHand = actor.cmd /\ queue' = queue
    BY <1>1, <1>5 DEF Held, InHand, TakesInHand, Takes
  <2>2. Count' = Count /\ Count = Len(pipe) + 1 + Len(queue)
    BY <1>3, <1>4, <2>1 DEF Count
  <2>3. ASSUME NEW i \in 1..Count PROVE Line'[i] = Line[i]
    <3>1. Line[i] = OnWay(i) /\ Line'[i] = OnWay(i)' /\ i \in Nat /\ i >= 1
      BY <1>3, <2>2 DEF Line
    <3>2. CASE i <= Len(pipe)
      BY <1>3, <1>4, <3>1, <3>2 DEF OnWay
    <3>3. CASE i = Len(pipe) + 1
      <4>1. ~(i <= Len(pipe)) /\ i <= Len(pipe) + 1
        BY <1>3, <3>3
      <4> QED
        BY <1>2, <1>4, <2>1, <3>1, <3>3, <4>1 DEF OnWay
    <3>4. CASE i > Len(pipe) + 1
      <4>1. ~(i <= Len(pipe)) /\ ~(i <= Len(pipe) + 1) /\ ~(i <= (Len(pipe) + 1) + 0)
            /\ i - (Len(pipe) + 1) - 0 = i - Len(pipe) - 1
        BY <1>3, <3>1, <3>4
      <4> QED
        BY <1>3, <1>4, <2>1, <3>1, <4>1 DEF OnWay
    <3> QED
      BY <1>3, <3>1, <3>2, <3>3, <3>4
  <2> QED
    BY <2>2, <2>3
<1>6. CASE actor.pc # "writing"
  <2>1. Held = 0 /\ InHand = Head(queue) /\ queue # <<>> /\ queue' = Tail(queue)
    BY <1>1, <1>6 DEF Held, InHand, TakesInHand, Takes
  <2>2. /\ Len(queue) >= 1 /\ Len(queue') = Len(queue) - 1 /\ InHand = queue[1]
        /\ \A i \in 1..(Len(queue) - 1) : queue'[i] = queue[i + 1]
    BY <2>1, TailElems DEF Shape
  <2>3. Count' = Count /\ Count = Len(pipe) + Len(queue)
    BY <1>3, <1>4, <2>1, <2>2 DEF Count
  <2>4. ASSUME NEW i \in 1..Count PROVE Line'[i] = Line[i]
    <3>1. Line[i] = OnWay(i) /\ Line'[i] = OnWay(i)' /\ i \in Nat /\ i >= 1 /\ i <= Len(pipe) + Len(queue)
      BY <1>3, <2>3 DEF Line
    <3>2. CASE i <= Len(pipe)
      BY <1>3, <1>4, <3>1, <3>2 DEF OnWay
    <3>3. CASE i = Len(pipe) + 1
      <4>1. ~(i <= Len(pipe)) /\ ~(i <= Len(pipe) + 0) /\ i <= Len(pipe) + 1 /\ i - Len(pipe) - 0 = 1
        BY <1>3, <3>3
      <4> QED
        BY <1>2, <1>4, <2>1, <2>2, <3>1, <3>3, <4>1 DEF OnWay
    <3>4. CASE i > Len(pipe) + 1
      <4>1. ~(i <= Len(pipe)) /\ ~(i <= Len(pipe) + 0) /\ ~(i <= Len(pipe) + 1) /\ ~(i <= (Len(pipe) + 1) + 0)
            /\ i - (Len(pipe) + 1) - 0 \in 1..(Len(queue) - 1)
            /\ i - Len(pipe) - 0 = (i - (Len(pipe) + 1) - 0) + 1
        BY <1>3, <3>1, <3>4
      <4>2. queue'[i - (Len(pipe) + 1) - 0] = queue[i - Len(pipe) - 0]
        BY <2>2, <4>1
      <4> QED
        BY <1>3, <1>4, <2>1, <3>1, <4>1, <4>2 DEF OnWay
    <3> QED
      BY <1>3, <3>1, <3>2, <3>3, <3>4
  <2> QED
    BY <2>3, <2>4
<1> QED
  BY <1>5, <1>6

\* The server takes the first.
LEMMA ReadingShortensTheLine ==
  ASSUME Shape, Shape', pipe # <<>>, pipe' = Tail(pipe), UNCHANGED <<queue, actor>>
  PROVE  Count >= 1 /\ Count' = Count - 1 /\ Line[1] = Head(pipe).cmd
         /\ \A i \in 1..(Count - 1) : Line'[i] = Line[i + 1]
<1>1. Count \in Nat /\ Held \in 0..1 /\ Len(pipe) \in Nat /\ Len(queue) \in Nat /\ Held' = Held
  BY CountIsNatural DEF Held
<1>2. /\ Len(pipe) >= 1 /\ Len(pipe') = Len(pipe) - 1 /\ Head(pipe) = pipe[1]
      /\ \A i \in 1..(Len(pipe) - 1) : pipe'[i] = pipe[i + 1]
  BY TailElems DEF Shape
<1>3. Count >= 1 /\ Count' = Count - 1
  BY <1>1, <1>2 DEF Count
<1>4. Line[1] = Head(pipe).cmd
  BY <1>1, <1>2, <1>3 DEF Line, OnWay
<1>5. ASSUME NEW i \in 1..(Count - 1) PROVE Line'[i] = Line[i + 1]
  <2>1. PICK j \in Nat : j = i + 1
    BY <1>1
  <2>2. Line[j] = OnWay(j) /\ Line'[i] = OnWay(i)' /\ i \in Nat /\ i >= 1
    BY <1>1, <1>3, <2>1 DEF Line
  <2>3. CASE j <= Len(pipe)
    <3>1. i <= Len(pipe') /\ pipe'[i] = pipe[j]
      BY <1>1, <1>2, <2>1, <2>2, <2>3
    <3> QED
      BY <2>1, <2>2, <2>3, <3>1 DEF OnWay
  <2>4. CASE ~(j <= Len(pipe))
    <3>1. ~(i <= Len(pipe')) /\ (j <= Len(pipe) + Held <=> i <= Len(pipe') + Held)
          /\ j - Len(pipe) - Held = i - Len(pipe') - Held
      BY <1>1, <1>2, <2>1, <2>2, <2>4
    <3> QED
      BY <1>1, <2>1, <2>2, <2>4, <3>1 DEF OnWay
  <2> QED
    BY <2>3, <2>4
<1> QED
  BY <1>3, <1>4, <1>5

\* An actor that ends leaves what it has written.
LEMMA EndingCutsTheLine ==
  ASSUME Shape, Shape', ActorEnds
  PROVE  Count' <= Count /\ Count' \in Nat /\ \A i \in 1..Count' : Line'[i] = Line[i]
<1>1. actor.pc = "select" /\ actor'.pc = "gone" /\ queue' = <<>> /\ pipe' = pipe
  BY DEF ActorEnds
<1>2. Count \in Nat /\ Len(pipe) \in Nat /\ Len(queue) \in Nat /\ Held = 0 /\ Held' = 0 /\ Len(queue') = 0
  BY <1>1, CountIsNatural DEF Held
<1>3. Count' = Len(pipe) /\ Count = Len(pipe) + Len(queue)
  BY <1>1, <1>2 DEF Count
<1>4. ASSUME NEW i \in 1..Count' PROVE Line'[i] = Line[i]
  <2>1. Line[i] = OnWay(i) /\ Line'[i] = OnWay(i)' /\ i <= Len(pipe)
    BY <1>2, <1>3 DEF Line
  <2> QED
    BY <1>1, <2>1 DEF OnWay
<1> QED
  BY <1>2, <1>3, <1>4

-----------------------------------------------------------------------------
(* What keeps the order of the line.                                       *)

\* A step that decides on no version and sends no notification.
QuietTasks ==
    /\ docs' = docs
    /\ \A c \in Tasks : task'[c].pc = "notify" <=> task[c].pc = "notify"
    /\ \A c \in Tasks : task'[c].pc \in {"notify", "ask"} => task'[c] = task[c]

LEMMA VersionsStay ==
  ASSUME VersionsAreNew, QuietTasks
  PROVE  VersionsAreNew'
  BY DEF VersionsAreNew, QuietTasks, Unsent

LEMMA CutLineIsFollowed ==
  ASSUME InOrder, NoneMissing, RequestsFollow, QuietTasks, server'.version = server.version,
         Count \in Nat, Count' \in Nat, Count' <= Count, \A i \in 1..Count' : Line'[i] = Line[i],
         ~Closed' => ~Closed /\ Count' = Count
  PROVE  InOrder' /\ NoneMissing' /\ RequestsFollow'
<1>1. \A i \in 1..Count' : i \in 1..Count /\ Line'[i] = Line[i] /\ \A v : NoteAt(i, v)' <=> NoteAt(i, v)
  BY DEF NoteAt
<1>2. Unsent' = Unsent /\ \A c \in Unsent : task'[c] = task[c]
  BY DEF QuietTasks, Unsent
<1>3. InOrder'
  BY <1>1, <1>2 DEF InOrder, QuietTasks, IsNote
<1>4. NoneMissing'
  <2> SUFFICES ASSUME ~Closed' PROVE NoneMissing'
    BY DEF NoneMissing
  <2>1. \A v : Known(v)' <=> Known(v)
    BY <1>1 DEF Known
  <2>2. \A c \in Tasks : task'[c].pc = "ask" => task'[c] = task[c]
    BY DEF QuietTasks
  <2> QED
    BY <1>2, <2>1, <2>2 DEF NoneMissing, QuietTasks
<1>5. RequestsFollow'
  <2> SUFFICES ASSUME NEW j \in 1..Count', Line'[j].kind = "request"
               PROVE  Line'[j].version <= server'.version \/ \E i \in 1..(j - 1) : NoteAt(i, Line[j].version)'
    BY <1>1 DEF RequestsFollow
  <2>1. \A i \in 1..(j - 1) : i \in 1..Count'
    OBVIOUS
  <2>2. Line[j].version <= server.version \/ \E i \in 1..(j - 1) : NoteAt(i, Line[j].version)
    BY <1>1 DEF RequestsFollow
  <2> QED
    BY <1>1, <2>1, <2>2 DEF NoteAt
<1> QED
  BY <1>3, <1>4, <1>5

\* A request joins the line whose document is known.
LEMMA LongerLineIsFollowed ==
  ASSUME InOrder, NoneMissing, RequestsFollow, QuietTasks, server' = server, Closed' = Closed,
         Count \in Nat, Count' = Count + 1, \A i \in 1..Count : Line'[i] = Line[i],
         ~IsNote(Line'[Count + 1]),
         Line'[Count + 1].kind = "request" => Known(Line'[Count + 1].version)
  PROVE  InOrder' /\ NoneMissing' /\ RequestsFollow'
<1>1. PICK n \in Nat : n = Count + 1
  OBVIOUS
<1>2. /\ \A i \in 1..Count : i \in 1..Count' /\ Line'[i] = Line[i] /\ \A v : NoteAt(i, v)' <=> NoteAt(i, v)
      /\ \A i \in 1..Count' : IsNote(Line'[i]) => i \in 1..Count
  <2>1. \A i \in 1..Count' : i \in 1..Count \/ i = n
    BY <1>1
  <2> QED
    BY <1>1, <2>1 DEF NoteAt
<1>3. Unsent' = Unsent /\ \A c \in Unsent : task'[c] = task[c]
  BY DEF QuietTasks, Unsent
<1>4. InOrder'
  <2>1. server.version <= docs' /\ \A i \in 1..Count' : IsNote(Line'[i]) => server.version < Line'[i].version /\ Line'[i].version <= docs'
    BY <1>2 DEF InOrder, QuietTasks
  <2>2. \A i, j \in 1..Count' : i < j /\ IsNote(Line'[i]) /\ IsNote(Line'[j]) => Line'[i].version < Line'[j].version
    BY <1>2 DEF InOrder
  <2>3. \A c \in Unsent' : /\ server.version < task'[c].version
                           /\ \A i \in 1..Count' : IsNote(Line'[i]) => Line'[i].version < task'[c].version
    BY <1>2, <1>3 DEF InOrder
  <2> QED
    BY <2>1, <2>2, <2>3 DEF InOrder, IsNote
<1>5. \A v : Known(v) => Known(v)'
  BY <1>2 DEF Known
<1>6. NoneMissing'
  BY <1>3, <1>5 DEF NoneMissing, QuietTasks
<1>7. ASSUME NEW j \in 1..Count', Line'[j].kind = "request"
      PROVE  Line'[j].version <= server.version \/ \E i \in 1..(j - 1) : NoteAt(i, Line[j].version)'
  <2>1. CASE j \in 1..Count
    <3>1. Line'[j] = Line[j] /\ \A i \in 1..(j - 1) : i \in 1..Count
      BY <1>2, <2>1
    <3>2. Line[j].version <= server.version \/ \E i \in 1..(j - 1) : NoteAt(i, Line[j].version)
      BY <1>7, <2>1, <3>1 DEF RequestsFollow
    <3> QED
      BY <1>2, <3>1, <3>2 DEF NoteAt
  <2>2. CASE j = n
    <3>1. Known(Line'[n].version) /\ 1..(n - 1) = 1..Count
      BY <1>1, <1>7, <2>2
    <3>2. Line'[n].version <= server.version \/ \E i \in 1..(n - 1) : NoteAt(i, Line'[n].version)
      BY <3>1 DEF Known
    <3> QED
      BY <1>2, <2>2, <3>1, <3>2 DEF NoteAt
  <2> QED
    BY <1>1, <2>1, <2>2
<1>8. RequestsFollow'
  BY <1>7 DEF RequestsFollow
<1> QED
  BY <1>4, <1>6, <1>8

\* A notification joins it: nobody waits to send an older one.
LEMMA NotifiedLineIsFollowed ==
  ASSUME Shape, VersionsAreNew, InOrder, NoneMissing, RequestsFollow, NEW c \in Unsent, docs' = docs,
         server' = server, Closed' = Closed,
         task' = [task EXCEPT ![c].pc = "ask"], \A d \in Unsent : ~(task[d].version < task[c].version),
         Count \in Nat, Count' = Count + 1, \A i \in 1..Count : Line'[i] = Line[i],
         IsNote(Line'[Count + 1]), Line'[Count + 1].version = task[c].version
  PROVE  InOrder' /\ NoneMissing' /\ RequestsFollow'
<1>1. PICK n \in Nat : n = Count + 1
  OBVIOUS
<1> DEFINE v == task[c].version
<1>2. c \in Tasks /\ v \in Nat /\ v <= docs /\ docs \in Nat /\ server.version \in Nat
  BY DEF Shape, Unsent, VersionsAreNew
<1>3. /\ \A i \in 1..Count : i \in 1..Count' /\ Line'[i] = Line[i] /\ \A w : NoteAt(i, w)' <=> NoteAt(i, w)
      /\ \A i \in 1..Count' : i \in 1..Count \/ i = n
      /\ n \in 1..Count' /\ IsNote(Line'[n]) /\ Line'[n].version = v
  BY <1>1 DEF NoteAt
<1>4. /\ Unsent' = Unsent \ {c} /\ \A d \in Tasks \ {c} : task'[d] = task[d]
      /\ task'[c].pc = "ask" /\ task'[c].version = v
  BY <1>2 DEF Unsent, Shape
<1>5. \A d \in Unsent' : d \in Tasks /\ task'[d].version = task[d].version /\ v < task[d].version
  <2> SUFFICES ASSUME NEW d \in Unsent \ {c} PROVE d \in Tasks /\ task'[d] = task[d] /\ v < task[d].version
    BY <1>4
  <2>1. d \in Tasks /\ task[d].version \in Nat /\ task[d].version # v
    BY DEF Unsent, Shape, VersionsAreNew
  <2> QED
    BY <1>2, <1>4, <2>1
<1>6. InOrder'
  <2>1. server.version <= docs /\ \A i \in 1..Count' : IsNote(Line'[i]) => server.version < Line'[i].version /\ Line'[i].version <= docs
    BY <1>2, <1>3 DEF InOrder
  <2>2. ASSUME NEW i \in 1..Count', NEW j \in 1..Count', i < j, IsNote(Line'[i]), IsNote(Line'[j])
        PROVE  Line'[i].version < Line'[j].version
    <3>1. i \in 1..Count
      BY <1>1, <1>3, <2>2
    <3> QED
      BY <1>3, <2>2, <3>1 DEF InOrder
  <2>3. ASSUME NEW d \in Unsent'
        PROVE  /\ server.version < task'[d].version
               /\ \A i \in 1..Count' : IsNote(Line'[i]) => Line'[i].version < task'[d].version
    BY <1>3, <1>4, <1>5, <2>3 DEF InOrder
  <2> QED
    BY <2>1, <2>2, <2>3 DEF InOrder, IsNote
<1>7. \A w : Known(w) => Known(w)'
  BY <1>3 DEF Known
<1>8. Known(v)'
  <2>1. PICK w \in Nat : w = v
    BY <1>2
  <2>2. NoteAt(n, w)'
    BY <1>3, <2>1 DEF NoteAt
  <2>3. Known(w)'
    BY <1>3, <2>2 DEF Known
  <2> QED
    BY <1>4, <2>1, <2>3
<1>9. NoneMissing'
  <2> SUFFICES ASSUME ~Closed PROVE NoneMissing'
    BY DEF NoneMissing
  <2>1. \A d \in Tasks : task'[d].pc = "ask" => Known(task[d].version)'
    BY <1>4, <1>7, <1>8 DEF NoneMissing
  <2>2. ASSUME NEW w \in 1..docs PROVE Known(w)' \/ \E d \in Unsent' : task'[d].version = w
    <3>1. CASE Known(w)
      BY <1>7, <3>1
    <3>2. CASE \E d \in Unsent : task[d].version = w
      <4>1. PICK d \in Unsent : task[d].version = w
        BY <3>2
      <4>2. CASE d = c
        <5>1. w = v /\ task'[c].version = w
          BY <1>4, <4>1, <4>2
        <5>2. Known(w)'
          BY <1>3, <5>1 DEF Known, NoteAt
        <5> QED
          BY <5>2
      <4>3. CASE d # c
        BY <1>4, <1>5, <4>1, <4>3
      <4> QED
        BY <4>2, <4>3
    <3> QED
      BY <2>2, <3>1, <3>2 DEF NoneMissing
  <2> QED
    BY <2>1, <2>2 DEF NoneMissing
<1>10. ASSUME NEW j \in 1..Count', Line'[j].kind = "request"
       PROVE  Line'[j].version <= server.version \/ \E i \in 1..(j - 1) : NoteAt(i, Line[j].version)'
  <2>1. j \in 1..Count
    BY <1>3, <1>10 DEF IsNote
  <2>2. Line'[j] = Line[j] /\ \A i \in 1..(j - 1) : i \in 1..Count
    BY <1>3, <2>1
  <2>3. Line[j].version <= server.version \/ \E i \in 1..(j - 1) : NoteAt(i, Line[j].version)
    BY <1>10, <2>1, <2>2 DEF RequestsFollow
  <2> QED
    BY <1>3, <2>2, <2>3 DEF NoteAt
<1>11. RequestsFollow'
  BY <1>10 DEF RequestsFollow
<1> QED
  BY <1>6, <1>9, <1>11

\* Under the lock a version is decided on, or the last one is found sent.
LEMMA EnsuredLineIsFollowed ==
  ASSUME Shape, VersionsAreNew, InOrder, NoneMissing, RequestsFollow, NEW c \in Tasks, NEW known \in BOOLEAN,
         EnsureDocument(c, known), ~overtaken'
  PROVE  InOrder' /\ NoneMissing' /\ RequestsFollow'
<1>1. /\ task[c].pc = "new" /\ UNCHANGED <<queue, actor, pipe, server>>
      /\ docs \in Nat /\ server.version \in Nat
      /\ \A d \in Tasks \ {c} : task'[d] = task[d]
      /\ task'[c] = [pc |-> IF known THEN "ask" ELSE "notify", version |-> docs']
  BY DEF EnsureDocument, NewTask, link, far, Shape
<1>2. /\ Count' = Count /\ Line' = Line /\ Closed' = Closed
      /\ \A i, v : NoteAt(i, v)' <=> NoteAt(i, v)
      /\ \A v : Known(v)' <=> Known(v)
  BY <1>1 DEF Count, Held, Line, OnWay, Closed, NoteAt, Known
<1>3. RequestsFollow'
  BY <1>1, <1>2 DEF RequestsFollow, NoteAt
<1>4. CASE known
  <2>1. docs' = docs /\ docs # 0 /\ Unsent = {}
    BY <1>4 DEF EnsureDocument
  <2>2. Unsent' = {}
    BY <1>1, <1>4, <2>1 DEF Unsent
  <2>3. InOrder'
    BY <1>1, <1>2, <2>1, <2>2 DEF InOrder
  <2>4. NoneMissing'
    <3> SUFFICES ASSUME ~Closed PROVE NoneMissing'
      BY <1>2 DEF NoneMissing
    <3>1. docs \in 1..docs /\ \A v \in 1..docs : Known(v)
      BY <1>1, <2>1 DEF NoneMissing
    <3>2. \A d \in Tasks : task'[d].pc = "ask" => Known(task'[d].version)
      BY <1>1, <2>1, <3>1 DEF NoneMissing
    <3>3. \A d \in Tasks : task'[d].pc = "ask" => Known(task[d].version)'
      BY <1>2, <3>2 DEF Known, NoteAt
    <3> QED
      BY <1>2, <2>1, <3>1, <3>3 DEF NoneMissing
  <2> QED
    BY <1>3, <2>3, <2>4
<1>5. CASE ~known
  <2>1. docs' = docs + 1 /\ task'[c].pc = "notify" /\ task'[c].version = docs + 1
    BY <1>1, <1>5 DEF EnsureDocument
  <2>2. Unsent' = Unsent \cup {c} /\ c \notin Unsent /\ \A d \in Unsent : task'[d] = task[d]
    BY <1>1, <2>1 DEF Unsent
  <2>3. InOrder'
    <3>1. \A i \in 1..Count : IsNote(Line[i]) => Line[i].version \in Nat /\ Line[i].version < docs + 1
      BY <1>1, LineIsOfCommands DEF InOrder, Commands
    <3>2. server.version <= docs + 1 /\ server.version < docs + 1
      BY <1>1 DEF InOrder
    <3>3. \A i \in 1..Count : IsNote(Line[i]) => server.version < Line[i].version /\ Line[i].version <= docs + 1
      BY <1>1, <3>1 DEF InOrder
    <3>4. \A d \in Unsent \cup {c} :
             /\ server.version < task'[d].version
             /\ \A i \in 1..Count : IsNote(Line[i]) => Line[i].version < task'[d].version
      BY <2>1, <2>2, <3>1, <3>2 DEF InOrder
    <3> QED
      BY <1>1, <1>2, <2>1, <2>2, <3>2, <3>3, <3>4 DEF InOrder, IsNote
  <2>4. NoneMissing'
    <3> SUFFICES ASSUME ~Closed PROVE NoneMissing'
      BY <1>2 DEF NoneMissing
    <3>1. \A d \in Tasks : task'[d].pc = "ask" => Known(task[d].version)'
      BY <1>1, <1>2, <2>1 DEF NoneMissing, Known, NoteAt
    <3>2. ASSUME NEW v \in 1..(docs + 1) PROVE Known(v)' \/ \E d \in Unsent' : task'[d].version = v
      BY <1>1, <1>2, <2>1, <2>2 DEF NoneMissing
    <3> QED
      BY <2>1, <3>1, <3>2 DEF NoneMissing
  <2> QED
    BY <1>3, <2>3, <2>4
<1> QED
  BY <1>4, <1>5

\* The server takes the first of the line.
LEMMA ReadLineIsFollowed ==
  ASSUME Shape, Shape', InOrder, NoneMissing, RequestsFollow, ServerReads, proc' = "running"
  PROVE  InOrder' /\ NoneMissing' /\ RequestsFollow'
<1> DEFINE first == Head(pipe).cmd
           told == server'.version
<1>1. Head(pipe).cmd.kind # "exit" /\ pipe # <<>>
  BY DEF ServerReads, Dies
<1>2. /\ pipe' = Tail(pipe) /\ UNCHANGED <<queue, actor, docs, task>>
      /\ server' = IF IsRequest(first) THEN [server EXCEPT !.todo = @ \cup {Head(pipe).id}]
                   ELSE [server EXCEPT !.version = first.version]
  BY <1>1 DEF ServerReads, user, link
<1>3. /\ Count >= 1 /\ Count' = Count - 1 /\ Line[1] = first /\ Count \in Nat
      /\ \A i \in 1..(Count - 1) : Line'[i] = Line[i + 1]
  BY <1>1, <1>2, ReadingShortensTheLine, CountIsNatural
<1>4. 1 \in 1..Count /\ first \in Commands
  BY <1>3, LineIsOfCommands
<1>5. IsNote(first) <=> ~IsRequest(first)
  BY <1>1, <1>4 DEF IsNote, IsRequest, Commands
<1>6. server.version \in Nat /\ docs \in Nat /\ first.version \in Nat /\ told \in Nat
  BY <1>4 DEF Shape, Commands
<1>7. told = IF IsNote(first) THEN first.version ELSE server.version
  <2> HIDE DEF first
  <2> QED
    BY <1>2, <1>5 DEF Shape
<1> HIDE DEF first, told
<1>8. server.version <= told /\ told <= docs
  BY <1>3, <1>4, <1>6, <1>7 DEF InOrder
<1>9. \A i \in 1..(Count - 1) : i + 1 \in 1..Count /\ Line'[i] = Line[i + 1]
                                /\ Line[i + 1].version \in Nat
  BY <1>3, LineIsOfCommands DEF Commands
<1>10. ASSUME NEW i \in 1..(Count - 1), IsNote(Line'[i]) PROVE told < Line'[i].version /\ Line'[i].version <= docs
  BY <1>3, <1>4, <1>6, <1>7, <1>9, <1>10 DEF InOrder
<1>11. Unsent' = Unsent /\ Closed' = Closed
  BY <1>2 DEF Unsent, Closed
<1>12. InOrder'
  <2>1. ASSUME NEW i \in 1..(Count - 1), NEW j \in 1..(Count - 1), i < j, IsNote(Line'[i]), IsNote(Line'[j])
        PROVE  Line'[i].version < Line'[j].version
    BY <1>9, <2>1 DEF InOrder
  <2>2. ASSUME NEW c \in Unsent
        PROVE  /\ told < task[c].version
               /\ \A i \in 1..(Count - 1) : IsNote(Line'[i]) => Line'[i].version < task[c].version
    BY <1>3, <1>4, <1>7, <1>9 DEF InOrder
  <2> QED
    BY <1>2, <1>3, <1>8, <1>10, <1>11, <2>1, <2>2 DEF InOrder, IsNote, told
<1>13. ASSUME NEW i \in 1..Count, NEW v \in Nat, NoteAt(i, v)
       PROVE  v <= told \/ (i - 1 \in 1..(Count - 1) /\ NoteAt(i - 1, v)')
  <2>1. CASE i = 1
    BY <1>3, <1>6, <1>7, <1>13, <2>1 DEF NoteAt
  <2>2. CASE i # 1
    <3>1. i - 1 \in 1..(Count - 1) /\ (i - 1) + 1 = i
      BY <1>3, <2>2
    <3>2. PICK j \in 1..(Count - 1) : j = i - 1
      BY <3>1
    <3>3. Line'[j] = Line[i]
      BY <1>9, <3>1, <3>2
    <3>4. NoteAt(j, v)'
      BY <1>13, <3>3 DEF NoteAt, IsNote
    <3> QED
      BY <3>1, <3>2, <3>4
  <2> QED
    BY <2>1, <2>2
<1>14. ASSUME NEW v \in Nat, Known(v) PROVE Known(v)'
  <2>1. CASE v <= server.version
    BY <1>6, <1>8, <2>1 DEF Known, told
  <2>2. CASE \E i \in 1..Count : NoteAt(i, v)
    BY <1>3, <1>13, <2>2 DEF Known, told
  <2> QED
    BY <1>14, <2>1, <2>2 DEF Known
<1>15. NoneMissing'
  <2> SUFFICES ASSUME ~Closed PROVE NoneMissing'
    BY <1>11 DEF NoneMissing
  <2>1. ASSUME NEW c \in Tasks, task[c].pc = "ask" PROVE Known(task[c].version)'
    <3>1. PICK v \in Nat : v = task[c].version
      BY DEF Shape
    <3>2. Known(v)'
      BY <1>14, <2>1, <3>1 DEF NoneMissing
    <3> QED
      BY <1>2, <3>1, <3>2
  <2>2. \A v \in 1..docs : v \in Nat /\ (Known(v)' \/ \E c \in Unsent : task[c].version = v)
    BY <1>6, <1>14 DEF NoneMissing
  <2> QED
    BY <1>2, <1>11, <2>1, <2>2 DEF NoneMissing
<1>16. ASSUME NEW j \in 1..(Count - 1), Line'[j].kind = "request"
       PROVE  Line'[j].version <= told \/ \E i \in 1..(j - 1) : NoteAt(i, Line[j].version)'
  <2>1. PICK v \in Nat : v = Line'[j].version
    BY <1>9
  <2>2. v <= server.version \/ \E i \in 1..j : NoteAt(i, v)
    BY <1>9, <1>16, <2>1 DEF RequestsFollow
  <2>3. CASE v <= server.version
    BY <1>6, <1>8, <2>1, <2>3
  <2>4. CASE \E i \in 1..j : NoteAt(i, v)
    <3>1. PICK i \in 1..j : NoteAt(i, v)
      BY <2>4
    <3>2. i \in 1..Count
      BY <1>3
    <3>3. v <= told \/ (i - 1 \in 1..(j - 1) /\ NoteAt(i - 1, v)')
      BY <1>13, <3>1, <3>2
    <3>4. CASE v <= told
      BY <2>1, <3>4
    <3>5. CASE i - 1 \in 1..(j - 1) /\ NoteAt(i - 1, v)'
      BY <2>1, <3>5 DEF NoteAt
    <3> QED
      BY <3>3, <3>4, <3>5
  <2> QED
    BY <2>2, <2>3, <2>4
<1>17. RequestsFollow'
  BY <1>3, <1>16 DEF RequestsFollow, told
<1> QED
  BY <1>12, <1>15, <1>17

-----------------------------------------------------------------------------
(* The steps.                                                              *)

LEMMA TaskPreservesIInv ==
  ASSUME IInv, NEW c \in Tasks, NEW known \in BOOLEAN,
         TaskStep(c) \/ TimedOut(c) \/ EnsureDocument(c, known)
  PROVE  IInv'
<1>1. Shape /\ Shape' /\ VersionsAreNew /\ Count \in Nat
  BY TaskKeepsShape, CountIsNatural DEF IInv
<1>2. UNCHANGED <<proc, stop, server, pipe, actor>>
  BY DEF TaskStep, Notify, Request, RequestFails, TimedOut, EnsureDocument, link, far
<1>3. KilledAtLast' /\ Closed' = Closed
  BY <1>2 DEF IInv, KilledAtLast, Closed
<1>4. overtaken => overtaken'
  BY DEF TaskStep, Notify, Request, RequestFails, TimedOut, EnsureDocument
<1>5. ASSUME proc = "running", ~overtaken'
      PROVE  InOrder /\ NoneMissing /\ RequestsFollow
  BY <1>4, <1>5 DEF IInv, Followed
<1>6. CASE EnsureDocument(c, known)
  <2>1. VersionsAreNew'
    <3>1. /\ docs' = (IF known THEN docs ELSE docs + 1) /\ docs \in Nat /\ task[c].pc = "new"
          /\ task'[c] = [pc |-> IF known THEN "ask" ELSE "notify", version |-> docs']
          /\ \A d \in Tasks \ {c} : task'[d] = task[d]
      BY <1>1, <1>6 DEF EnsureDocument, NewTask, Shape
    <3>2. \A d \in Unsent : task[d].version \in Nat /\ task[d].version <= docs /\ d # c /\ task'[d] = task[d]
      BY <1>1, <3>1 DEF VersionsAreNew, Unsent, Shape
    <3>3. \A d \in Unsent' : d \in Unsent \/ (d = c /\ ~known /\ task'[d].version = docs + 1)
      BY <3>1 DEF Unsent
    <3> QED
      BY <1>1, <3>1, <3>2, <3>3 DEF VersionsAreNew
  <2> QED
    BY <1>1, <1>2, <1>3, <1>5, <1>6, <2>1, EnsuredLineIsFollowed DEF IInv, Followed
<1>7. CASE Notify(c)
  <2> DEFINE e == Command(IF task[c].version = 1 THEN "open" ELSE "change", task[c].version, Stopper)
  <2>1. /\ c \in Unsent /\ docs' = docs /\ task' = [task EXCEPT ![c].pc = "ask"]
        /\ Room \/ Closed
        /\ queue' = IF Closed THEN queue ELSE Append(queue, e)
        /\ overtaken' = (overtaken \/ \E d \in Unsent : task[d].version < task[c].version)
    BY <1>7 DEF Notify, Unsent
  <2>2. e \in Commands /\ IsNote(e) /\ e.version = task[c].version
    <3>1. task[c].version \in Nat
      BY <1>1 DEF Shape
    <3> QED
      BY <3>1, CommandsAreCommands, TasksAreNaturals DEF IsNote
  <2>3. Unsent' = Unsent \ {c} /\ \A d \in Unsent' : task'[d] = task[d]
    BY <1>1, <2>1 DEF Unsent, Shape
  <2>4. VersionsAreNew'
    BY <1>1, <2>1, <2>3 DEF VersionsAreNew
  <2>5. ASSUME proc = "running", ~overtaken' PROVE InOrder' /\ NoneMissing' /\ RequestsFollow'
    <3>1. CASE Closed
      <4>1. /\ queue' = queue /\ Count' = Count /\ Line' = Line
            /\ \A i, v : NoteAt(i, v)' <=> NoteAt(i, v)
        BY <1>2, <2>1, <3>1 DEF Count, Held, Line, OnWay, NoteAt
      <4>2. NoneMissing'
        BY <1>3, <3>1 DEF NoneMissing
      <4>3. RequestsFollow'
        BY <1>2, <1>5, <2>5, <4>1 DEF RequestsFollow, NoteAt
      <4>4. InOrder'
        BY <1>2, <1>5, <2>1, <2>3, <2>5, <4>1 DEF InOrder
      <4> QED
        BY <4>2, <4>3, <4>4
    <3>2. CASE ~Closed
      <4> HIDE DEF e
      <4>1. queue' = Append(queue, e)
        BY <2>1, <3>2
      <4>2. Count' = Count + 1 /\ Line'[Count + 1] = e /\ \A i \in 1..Count : Line'[i] = Line[i]
        BY <1>1, <1>2, <2>2, <4>1, LineGrows
      <4>3. \A d \in Unsent : ~(task[d].version < task[c].version)
        BY <2>1, <2>5
      <4> QED
        BY <1>1, <1>2, <1>3, <1>5, <2>1, <2>2, <2>5, <4>2, <4>3, NotifiedLineIsFollowed
    <3> QED
      BY <3>1, <3>2
  <2> QED
    BY <1>1, <1>2, <1>3, <2>4, <2>5 DEF IInv, Followed
<1>8. CASE Request(c)
  <2> DEFINE e == Command("request", task[c].version, c)
  <2>1. /\ task[c].pc = "ask" /\ Room /\ queue' = Append(queue, e) /\ UNCHANGED <<docs, overtaken>>
        /\ task' = [task EXCEPT ![c] = [pc |-> "wait", version |-> 0]]
    BY <1>8 DEF Request
  <2>2. e \in Commands /\ e.kind = "request" /\ e.version = task[c].version
    <3>1. task[c].version \in Nat /\ c \in Nat
      BY <1>1, TasksAreNaturals DEF Shape
    <3> QED
      BY <3>1, CommandsAreCommands
  <2>3. QuietTasks
    BY <1>1, <2>1 DEF QuietTasks, Shape
  <2> HIDE DEF e
  <2>4. Count' = Count + 1 /\ Line'[Count + 1] = e /\ \A i \in 1..Count : Line'[i] = Line[i]
    BY <1>1, <1>2, <2>1, <2>2, LineGrows
  <2>5. ASSUME proc = "running", ~overtaken' PROVE InOrder' /\ NoneMissing' /\ RequestsFollow'
    <3>1. Known(e.version) /\ ~IsNote(e)
      BY <1>5, <2>1, <2>2, <2>5 DEF NoneMissing, Room, IsNote
    <3> QED
      BY <1>1, <1>2, <1>3, <1>5, <2>3, <2>4, <2>5, <3>1, LongerLineIsFollowed
  <2> QED
    BY <1>1, <1>2, <1>3, <2>3, <2>5, VersionsStay DEF IInv, Followed
<1>9. CASE RequestFails(c) \/ TimedOut(c)
  <2>1. /\ task' = [task EXCEPT ![c] = [pc |-> "done", version |-> 0]] /\ UNCHANGED <<docs, overtaken, queue>>
        /\ task[c].pc \in {"ask", "wait"}
    BY <1>9 DEF RequestFails, TimedOut, Ends, link
  <2>2. QuietTasks
    BY <1>1, <2>1 DEF QuietTasks, Shape
  <2>3. Count' = Count /\ Line' = Line
    BY <1>2, <2>1 DEF Count, Held, Line, OnWay
  <2>4. ASSUME proc = "running", ~overtaken' PROVE InOrder' /\ NoneMissing' /\ RequestsFollow'
    BY <1>1, <1>2, <1>3, <1>5, <2>2, <2>3, <2>4, CutLineIsFollowed
  <2> QED
    BY <1>1, <1>2, <1>3, <2>2, <2>4, VersionsStay DEF IInv, Followed
<1> QED
  BY <1>6, <1>7, <1>8, <1>9 DEF TaskStep

LEMMA ActorPreservesIInv ==
  ASSUME IInv, ActorStep
  PROVE  IInv'
<1>1. Shape /\ Shape' /\ VersionsAreNew /\ Count \in Nat /\ Count' \in Nat
  <2>1. Shape /\ Shape' /\ VersionsAreNew
    BY ActorKeepsShape DEF IInv
  <2>2. Count \in Nat
    BY <2>1, CountIsNatural
  <2>3. Len(pipe') \in Nat /\ Len(queue') \in Nat /\ Held' \in 0..1
    BY <2>1 DEF Shape, Held
  <2>4. Count' \in Nat
    BY <2>3 DEF Count
  <2> QED
    BY <2>1, <2>2, <2>4
<1>2. UNCHANGED <<docs, overtaken, server, proc>>
  BY DEF ActorStep, ActorBlocks, ActorWrites, ActorWriteFails, ActorDispatches, ActorEnds, user, far
<1>3. (\E whose : Reply(whose)) \/ UNCHANGED <<task, stop>>
  BY DEF ActorStep, ActorBlocks, ActorWrites, ActorWriteFails, ActorDispatches, ActorEnds, user
<1>4. (\A c \in Tasks : task'[c] = task[c] \/ (task[c].pc = "wait" /\ task'[c].pc = "done"))
      /\ (stop' \in {"kill", "done"} => stop \in {"kill", "done"})
  BY <1>1, <1>3, RepliesKeepShape
<1>5. QuietTasks /\ VersionsAreNew'
  <2>1. QuietTasks
    BY <1>2, <1>4 DEF QuietTasks
  <2> QED
    BY <1>1, <2>1, VersionsStay
<1>6. KilledAtLast'
  BY <1>2, <1>4 DEF IInv, KilledAtLast
<1>7. ASSUME proc = "running", ~overtaken
      PROVE  /\ Count' <= Count /\ \A i \in 1..Count' : Line'[i] = Line[i]
             /\ ~Closed' => ~Closed /\ Count' = Count
  <2>1. CASE ActorBlocks
    BY <1>1, <2>1, BlockingKeepsTheLine DEF ActorBlocks, Takes, Closed
  <2>2. CASE ActorWrites
    <3>1. ~Closed
      BY <2>2 DEF ActorWrites, TakesInHand, Takes, Closed
    <3> QED
      BY <1>1, <2>2, <3>1, WritingKeepsTheLine
  <2>3. CASE ActorWriteFails
    BY <1>7, <2>3 DEF ActorWriteFails
  <2>4. CASE ActorDispatches
    <3>1. UNCHANGED <<queue, actor, pipe>>
      BY <2>4 DEF ActorDispatches
    <3>2. Count' = Count /\ Line' = Line /\ Closed' = Closed
      BY <3>1 DEF Count, Held, Line, OnWay, Closed
    <3> QED
      BY <1>1, <3>2
  <2>5. CASE ActorEnds
    <3>1. Closed'
      BY <2>5 DEF ActorEnds, Closed
    <3> QED
      BY <1>1, <2>5, <3>1, EndingCutsTheLine
  <2> QED
    BY <2>1, <2>2, <2>3, <2>4, <2>5 DEF ActorStep
<1>8. Followed'
  <2> SUFFICES ASSUME proc = "running", ~overtaken PROVE InOrder' /\ NoneMissing' /\ RequestsFollow'
    BY <1>2 DEF Followed
  <2> QED
    BY <1>1, <1>2, <1>5, <1>7, CutLineIsFollowed DEF IInv, Followed
<1> QED
  BY <1>1, <1>5, <1>6, <1>8 DEF IInv

LEMMA ServerPreservesIInv ==
  ASSUME IInv, ServerReads \/ ServerAnswers \/ ServerGarbles \/ ServerCrashes \/ WaitExit
  PROVE  IInv'
<1>1. Shape /\ Shape' /\ VersionsAreNew /\ Count \in Nat
  BY ServerKeepsShape, CountIsNatural DEF IInv
<1>2. UNCHANGED <<docs, task, overtaken, queue, actor, stop>> /\ (proc' = "running" => proc = "running")
  BY DEF ServerReads, ServerAnswers, ServerGarbles, ServerCrashes, WaitExit, Dies, user, link
<1>3. QuietTasks
  BY <1>2 DEF QuietTasks
<1>4. VersionsAreNew' /\ KilledAtLast'
  BY <1>1, <1>2, <1>3, VersionsStay DEF IInv, KilledAtLast
<1>5. ASSUME proc' = "running", ~overtaken PROVE InOrder' /\ NoneMissing' /\ RequestsFollow'
  <2>1. InOrder /\ NoneMissing /\ RequestsFollow
    BY <1>2, <1>5 DEF IInv, Followed
  <2>2. CASE ServerReads
    BY <1>1, <1>5, <2>1, <2>2, ReadLineIsFollowed
  <2>3. CASE ServerAnswers \/ ServerGarbles
    <3>1. pipe' = pipe /\ server'.version = server.version
      BY <1>1, <2>3 DEF ServerAnswers, ServerGarbles, Shape
    <3>2. Count' = Count /\ Line' = Line /\ Closed' = Closed
      BY <1>2, <3>1 DEF Count, Held, Line, OnWay, Closed
    <3> QED
      BY <1>1, <1>3, <2>1, <3>1, <3>2, CutLineIsFollowed
  <2>4. CASE ServerCrashes \/ WaitExit
    BY <1>5, <2>4 DEF ServerCrashes, WaitExit, Dies
  <2> QED
    BY <2>2, <2>3, <2>4
<1> QED
  BY <1>1, <1>2, <1>4, <1>5 DEF IInv, Followed

LEMMA ShutdownPreservesIInv ==
  ASSUME IInv, ShutdownBegins \/ ShutdownStep
  PROVE  IInv'
<1>1. Shape /\ Shape' /\ VersionsAreNew /\ Count \in Nat
  BY ShutdownKeepsShape, CountIsNatural DEF IInv
<1>2. UNCHANGED <<docs, task, overtaken, actor>> /\ (proc' = "running" => proc = "running")
  BY DEF ShutdownBegins, ShutdownStep, ShutdownAsks, ShutdownTimesOut, ShutdownNotifies, Escalate, Dies, user, link, far
<1>3. QuietTasks /\ Closed' = Closed
  BY <1>2 DEF QuietTasks, Closed
<1>4. VersionsAreNew'
  BY <1>1, <1>3, VersionsStay
<1>5. KilledAtLast'
  BY DEF IInv, KilledAtLast, ShutdownBegins, ShutdownStep, ShutdownAsks, ShutdownTimesOut, ShutdownNotifies,
         Escalate, Dies, far
<1>6. ASSUME proc' = "running", ~overtaken PROVE InOrder' /\ NoneMissing' /\ RequestsFollow'
  <2>1. InOrder /\ NoneMissing /\ RequestsFollow
    BY <1>2, <1>6 DEF IInv, Followed
  <2>2. server' = server /\ pipe' = pipe
    BY <1>6 DEF ShutdownBegins, ShutdownStep, ShutdownAsks, ShutdownTimesOut, ShutdownNotifies, Escalate, Dies, far
  <2>3. queue' = queue \/ \E kind \in {"shutdown", "exit"} : queue' = Append(queue, Command(kind, 0, Stopper))
    BY DEF ShutdownBegins, ShutdownStep, ShutdownAsks, ShutdownTimesOut, ShutdownNotifies, Escalate, link
  <2>4. CASE queue' = queue
    <3>1. Count' = Count /\ Line' = Line
      BY <1>2, <2>2, <2>4 DEF Count, Held, Line, OnWay
    <3> QED
      BY <1>1, <1>3, <2>1, <2>2, <3>1, CutLineIsFollowed
  <2>5. ASSUME NEW kind \in {"shutdown", "exit"}, queue' = Append(queue, Command(kind, 0, Stopper))
        PROVE  InOrder' /\ NoneMissing' /\ RequestsFollow'
    <3>1. Command(kind, 0, Stopper) \in Commands /\ Command(kind, 0, Stopper).kind = kind
      BY CommandsAreCommands, TasksAreNaturals
    <3>2. Count' = Count + 1 /\ Line'[Count + 1] = Command(kind, 0, Stopper) /\ \A i \in 1..Count : Line'[i] = Line[i]
      BY <1>1, <1>2, <2>2, <2>5, <3>1, LineGrows
    <3>3. ~IsNote(Line'[Count + 1]) /\ Line'[Count + 1].kind # "request"
      BY <3>1, <3>2 DEF IsNote
    <3> QED
      BY <1>1, <1>3, <2>1, <2>2, <3>2, <3>3, LongerLineIsFollowed
  <2> QED
    BY <2>3, <2>4, <2>5
<1> QED
  BY <1>1, <1>2, <1>4, <1>5, <1>6 DEF IInv, Followed

LEMMA InitImpliesIInv ==
  ASSUME Init
  PROVE  IInv
<1>1. Shape
  BY InitShape
<1>2. KilledAtLast /\ Unsent = {} /\ VersionsAreNew
  BY DEF Init, KilledAtLast, Unsent, VersionsAreNew
<1>3. Count = 0 /\ 1..Count = {}
  BY DEF Init, Count, Held, Select
<1>4. InOrder /\ NoneMissing /\ RequestsFollow
  BY <1>2, <1>3 DEF Init, InOrder, NoneMissing, RequestsFollow
<1> QED
  BY <1>1, <1>2, <1>4 DEF IInv, Followed

LEMMA NextPreservesIInv ==
  ASSUME IInv, [Next]_vars
  PROVE  IInv'
<1>1. CASE UNCHANGED vars
  <2>1. UNCHANGED <<docs, task, overtaken, queue, actor, pending, nextId, pipe, server, inbound, proc, stop>>
    BY <1>1 DEF vars, user, link, far
  <2>2. Shape' /\ KilledAtLast' /\ VersionsAreNew'
    BY <2>1 DEF IInv, Shape, KilledAtLast, VersionsAreNew, Unsent
  <2>3. Count' = Count /\ Line' = Line /\ Unsent' = Unsent
    BY <2>1 DEF Count, Held, Line, OnWay, Unsent
  <2>4. InOrder' = InOrder /\ RequestsFollow' = RequestsFollow
    BY <2>1, <2>3 DEF InOrder, RequestsFollow, NoteAt
  <2>5. NoneMissing' = NoneMissing
    BY <2>1, <2>3 DEF NoneMissing, Known, NoteAt, Closed
  <2>6. Followed'
    BY <2>1, <2>4, <2>5 DEF IInv, Followed
  <2> QED
    BY <2>2, <2>6 DEF IInv
<1>2. ASSUME NEW c \in Tasks, TaskStep(c) \/ TimedOut(c) \/ \E known \in BOOLEAN : EnsureDocument(c, known)
      PROVE  IInv'
  BY <1>2, TaskPreservesIInv
<1> QED
  BY <1>1, <1>2, ActorPreservesIInv, ServerPreservesIInv, ShutdownPreservesIInv DEF Next

\* Type correctness of the client: channel, pipe, documents and requests stay in their
\* ranges, for any number of users of lsp/client.rs.
THEOREM ShapeIsInvariant == Spec => []Shape
<1>1. Init => IInv
  BY InitImpliesIInv
<1>2. IInv /\ [Next]_vars => IInv'
  BY NextPreservesIInv
<1>3. IInv => Shape
  BY DEF IInv
<1> QED
  BY <1>1, <1>2, <1>3, PTL DEF Spec

\* ensure_document and request: whatever room there is in the channel and the pipe, the
\* server handles no request before the text its caller made sure of, unless two callers
\* overtook each other between the lock and the channel.
THEOREM QuestionsFollowTheirDocument == Spec => []AsksAboutWhatItSent
<1>1. Init => IInv
  BY InitImpliesIInv
<1>2. IInv /\ [Next]_vars => IInv'
  BY NextPreservesIInv
<1>3. IInv => AsksAboutWhatItSent
  <2> SUFFICES ASSUME IInv, proc = "running", pipe # <<>>, Head(pipe).cmd.kind = "request", ~overtaken
               PROVE  server.version >= Head(pipe).cmd.version
    BY DEF AsksAboutWhatItSent
  <2>1. Shape /\ RequestsFollow
    BY DEF IInv, Followed
  <2>2. Len(pipe) >= 1 /\ Head(pipe) = pipe[1] /\ Len(pipe) \in Nat /\ Head(pipe) \in Messages
    BY <2>1, TailElems DEF Shape
  <2>3. 1 \in 1..Count /\ Line[1] = Head(pipe).cmd
    BY <2>1, <2>2, CountIsNatural DEF Count, OnWay
  <2>4. Line[1].version <= server.version
    BY <2>1, <2>3 DEF RequestsFollow
  <2> QED
    BY <2>1, <2>2, <2>3, <2>4 DEF Shape, Messages, Commands
<1> QED
  BY <1>1, <1>2, <1>3, PTL DEF Spec

\* ensure_document: whatever room there is and however many use the client, the versions
\* the server has not been told of are on their way in order, or about to be sent, each
\* of them once, unless two callers overtook each other between the lock and the channel.
THEOREM NoVersionIsLost == Spec => []ServerFollowsDocs
<1>1. Init => IInv
  BY InitImpliesIInv
<1>2. IInv /\ [Next]_vars => IInv'
  BY NextPreservesIInv
<1>3. IInv => ServerFollowsDocs
  <2> SUFFICES ASSUME IInv, proc = "running", actor.pc # "gone", ~overtaken
               PROVE  /\ \A i, j \in Notes : i < j => Line[i].version < Line[j].version
                      /\ \A i \in Notes, c \in Unsent : Line[i].version < task[c].version
                      /\ {Line[i].version : i \in Notes} \cup {task[c].version : c \in Unsent}
                           = (server.version + 1)..docs
    BY DEF ServerFollowsDocs, IInv, VersionsAreNew
  <2>1. Shape /\ InOrder /\ NoneMissing /\ VersionsAreNew /\ ~Closed
    BY DEF IInv, Followed, Closed
  <2>2. server.version \in Nat /\ docs \in Nat
    BY <2>1 DEF Shape
  <2> DEFINE told == {Line[i].version : i \in Notes}
             unsent == {task[c].version : c \in Unsent}
  <2>3. \A v \in told \cup unsent : v \in (server.version + 1)..docs
    <3>1. \A i \in Notes : Line[i].version \in Nat
      BY <2>1, LineIsOfCommands DEF Notes, Commands
    <3>2. \A c \in Unsent : task[c].version \in Nat
      BY <2>1 DEF Shape, Unsent
    <3>3. \A i \in Notes : server.version < Line[i].version /\ Line[i].version <= docs
      BY <2>1 DEF InOrder, Notes
    <3>4. \A c \in Unsent : server.version < task[c].version /\ task[c].version <= docs
      BY <2>1 DEF InOrder, VersionsAreNew
    <3> QED
      BY <2>2, <3>1, <3>2, <3>3, <3>4
  <2>4. ASSUME NEW v \in (server.version + 1)..docs PROVE v \in told \cup unsent
    <3>1. v \in 1..docs /\ ~(v <= server.version)
      BY <2>2
    <3>2. (\E i \in 1..Count : NoteAt(i, v)) \/ \E c \in Unsent : task[c].version = v
      BY <2>1, <3>1 DEF NoneMissing, Known
    <3> QED
      BY <3>2 DEF Notes, NoteAt
  <2>5. told \cup unsent = (server.version + 1)..docs
    BY <2>3, <2>4
  <2> QED
    BY <2>1, <2>5 DEF InOrder, Notes
<1> QED
  BY <1>1, <1>2, <1>3, PTL DEF Spec

\* ServerProcess::shutdown: however the server, its pipes and the callers behave, once it
\* has returned the process is gone.
THEOREM ShutdownLeavesNoProcess == Spec => []ShutdownEndsTheServer
<1>1. Init => IInv
  BY InitImpliesIInv
<1>2. IInv /\ [Next]_vars => IInv'
  BY NextPreservesIInv
<1>3. IInv => ShutdownEndsTheServer
  BY DEF IInv, KilledAtLast, ShutdownEndsTheServer
<1> QED
  BY <1>1, <1>2, <1>3, PTL DEF Spec

=============================================================================
