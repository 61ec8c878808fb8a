----------------------------- MODULE DaemonLink -----------------------------
(***************************************************************************)
(* The serve side of the connection to the daemon.  Tool calls are tasks   *)
(* that share one DaemonClient (daemon/client.rs), whose actor owns the    *)
(* socket and pairs requests with answers by id.  A daemon may go away at  *)
(* any time; ReconnectingDaemonClient (daemon/reconnect.rs) then connects  *)
(* anew and sends the request once more.  A link is one DaemonClient with  *)
(* its socket and the daemon's handler of that connection                  *)
(* (daemon/server.rs).  How the daemon comes to be there is the subject of *)
(* DaemonLifecycle: here ensure_and_connect succeeds or fails.             *)
(***************************************************************************)
EXTENDS Naturals, Sequences, FiniteSets

CONSTANTS Calls,      \* the tool calls an MCP client makes
          MaxLinks,   \* bound: how often a connection is made
          QueueSize,  \* room in the actor's command channel (64 in the code)
          None        \* no call, no answer

ASSUME LinkAssumption ==
    /\ MaxLinks \in Nat \ {0}
    /\ QueueSize \in Nat \ {0}
    /\ None \notin Calls \cup {"answered", "refused", "lost", "unreachable"}

VARIABLES
    current,  \* the link in ReconnectingDaemonClient.current
    writer,   \* the call that holds the write lock of current
    pc,       \* where each call stands
    link,     \* the client a call has cloned; 0 before
    tries,    \* how many times a call has been handed to a client
    reply,    \* what was sent into the oneshot of a call's present try
    result,   \* what the call returned
    actor,    \* of each link: unborn, running, draining or closed
    queue,    \* its commands not yet taken
    nextId,   \* the next request id
    pending,  \* its requests without an answer, [id, call]
    wire,     \* envelopes the daemon has not read
    serving,  \* the envelope the daemon's handler is at
    inbound,  \* answers (and the end of the stream) the actor has not read
    peer,     \* whether the daemon's end is open
    carried   \* history: <<call, link>> for every request carried out

client == <<actor, queue, nextId, pending>>
daemon == <<wire, serving, inbound, peer, carried>>
caller == <<pc, link, tries, result>>
vars == <<current, writer, pc, link, tries, reply, result, client, daemon>>

Links == 1 .. MaxLinks
Eof == [eof |-> TRUE]
Envelope == [id : Nat, call : Calls]
Answer == [id : Nat, call : Calls, ok : BOOLEAN]
Outcome == {"answered", "refused", "lost", "unreachable"}
Elems(s) == {s[i] : i \in DOMAIN s}

CallerTypes ==
    /\ current \in Links
    /\ writer \in Calls \cup {None}
    /\ pc \in [Calls -> {"idle", "read", "send", "wait", "lock", "held", "done"}]
    /\ link \in [Calls -> 0 .. MaxLinks]
    /\ tries \in [Calls -> Nat]
    /\ reply \in [Calls -> Outcome \cup {None}]
    /\ result \in [Calls -> Outcome \cup {None}]
ClientTypes ==
    /\ actor \in [Links -> {"unborn", "running", "draining", "closed"}]
    /\ queue \in [Links -> Seq(Calls)]
    /\ nextId \in [Links -> Nat]
    /\ pending \in [Links -> SUBSET Envelope]
DaemonTypes ==
    /\ wire \in [Links -> Seq(Envelope)]
    /\ serving \in [Links -> Envelope \cup {None}]
    /\ inbound \in [Links -> Seq(Answer \cup {Eof})]
    /\ peer \in [Links -> {"unborn", "open", "closed"}]
    /\ carried \in SUBSET (Calls \X Links)
TypeOK == CallerTypes /\ ClientTypes /\ DaemonTypes

Init ==
    /\ current = 1 /\ writer = None
    /\ pc = [c \in Calls |-> "idle"]
    /\ link = [c \in Calls |-> 0]
    /\ tries = [c \in Calls |-> 0]
    /\ reply = [c \in Calls |-> None]
    /\ result = [c \in Calls |-> None]
    /\ actor = [l \in Links |-> IF l = 1 THEN "running" ELSE "unborn"]
    /\ queue = [l \in Links |-> <<>>]
    /\ nextId = [l \in Links |-> 0]
    /\ pending = [l \in Links |-> {}]
    /\ wire = [l \in Links |-> <<>>]
    /\ serving = [l \in Links |-> None]
    /\ inbound = [l \in Links |-> <<>>]
    /\ peer = [l \in Links |-> IF l = 1 THEN "open" ELSE "unborn"]
    /\ carried = {}

\* Mutant: closed as soon as the actor's loop has ended.
IsClosedEarly(l) == actor[l] \notin {"unborn", "running"}

\* DaemonClient::is_closed: the actor's receiver is gone.
IsClosed(l) == actor[l] = "closed"

-----------------------------------------------------------------------------
(* A tool call: ReconnectingDaemonClient::call.                            *)

\* A tool handler of ProxyServer is invoked.
Ask(c) ==
    /\ pc[c] = "idle"
    /\ pc' = [pc EXCEPT ![c] = "read"]
    /\ UNCHANGED <<current, writer, link, tries, reply, result, client, daemon>>

\* Clone the client under the read lock, which a writer excludes.
ReadCurrent(c) ==
    /\ pc[c] = "read" /\ writer = None
    /\ link' = [link EXCEPT ![c] = current]
    /\ pc' = [pc EXCEPT ![c] = IF IsClosed(current) THEN "lock" ELSE "send"]
    /\ UNCHANGED <<current, writer, tries, reply, result, client, daemon>>

\* DaemonClient::call hands the command over, waiting for room ...
Send(c) ==
    LET l == link[c] IN
    /\ pc[c] = "send" /\ ~IsClosed(l) /\ Len(queue[l]) < QueueSize
    /\ queue' = [queue EXCEPT ![l] = Append(@, c)]
    /\ tries' = [tries EXCEPT ![c] = @ + 1]
    /\ reply' = [reply EXCEPT ![c] = None]
    /\ pc' = [pc EXCEPT ![c] = "wait"]
    /\ UNCHANGED <<current, writer, link, result, actor, nextId, pending, daemon>>

\* ... or finds the channel closed.
SendFails(c) ==
    /\ pc[c] = "send" /\ IsClosed(link[c])
    /\ tries' = [tries EXCEPT ![c] = @ + 1]
    /\ reply' = [reply EXCEPT ![c] = "lost"]
    /\ pc' = [pc EXCEPT ![c] = "wait"]
    /\ UNCHANGED <<current, writer, link, result, client, daemon>>

\* The oneshot resolves.  A value, or the result of the second try, is returned.
Return(c) ==
    /\ pc[c] = "wait" /\ reply[c] # None
    /\ reply[c] = "answered" \/ tries[c] = 2
    /\ result' = [result EXCEPT ![c] = reply[c]]
    /\ pc' = [pc EXCEPT ![c] = "done"]
    /\ UNCHANGED <<current, writer, link, tries, reply, client, daemon>>

\* Mutant: any error of the first try is tried again.
FailRetriesAnyway(c) ==
    /\ pc[c] = "wait" /\ reply[c] \in {"refused", "lost"} /\ tries[c] = 1
    /\ pc' = [pc EXCEPT ![c] = "lock"]
    /\ UNCHANGED <<current, writer, link, tries, reply, result, client, daemon>>

\* An error of the first try: is the client dead?
Fail(c) ==
    /\ pc[c] = "wait" /\ reply[c] \in {"refused", "lost"} /\ tries[c] = 1
    /\ IF IsClosed(link[c])
       THEN pc' = [pc EXCEPT ![c] = "lock"] /\ UNCHANGED result
       ELSE /\ pc' = [pc EXCEPT ![c] = "done"]
            /\ result' = [result EXCEPT ![c] = reply[c]]
    /\ UNCHANGED <<current, writer, link, tries, reply, client, daemon>>

\* reconnect: the write lock, then a second look at the client.  A client found
\* dead before the first try leaves that try to be made.
LockCurrent(c) ==
    /\ pc[c] = "lock" /\ writer = None
    /\ writer' = c
    /\ pc' = [pc EXCEPT ![c] = "held"]
    /\ UNCHANGED <<current, link, tries, reply, result, client, daemon>>

\* Another call has connected meanwhile.
TakeCurrent(c) ==
    /\ pc[c] = "held" /\ ~IsClosed(current)
    /\ link' = [link EXCEPT ![c] = current]
    /\ writer' = None
    /\ pc' = [pc EXCEPT ![c] = "send"]
    /\ UNCHANGED <<current, tries, reply, result, client, daemon>>

\* ensure_and_connect succeeds: a new client is swapped in ...
Reconnect(c) ==
    LET l == current + 1 IN
    /\ pc[c] = "held" /\ IsClosed(current) /\ current < MaxLinks
    /\ current' = l
    /\ actor' = [actor EXCEPT ![l] = "running"]
    /\ peer' = [peer EXCEPT ![l] = "open"]
    /\ link' = [link EXCEPT ![c] = l]
    /\ writer' = None
    /\ pc' = [pc EXCEPT ![c] = "send"]
    /\ UNCHANGED <<tries, reply, result, queue, nextId, pending, wire, serving,
                   inbound, carried>>

\* ... or fails, and the call with it.
ReconnectFails(c) ==
    /\ pc[c] = "held" /\ IsClosed(current)
    /\ writer' = None
    /\ result' = [result EXCEPT ![c] = "unreachable"]
    /\ pc' = [pc EXCEPT ![c] = "done"]
    /\ UNCHANGED <<current, link, tries, reply, client, daemon>>

-----------------------------------------------------------------------------
(* The client's actor (actor_loop).  It prefers inbound events to commands, *)
(* but inbound holds also what the reader task has not passed on yet, so    *)
(* either may come first.  The arm for a channel without senders is not     *)
(* here: a client is dropped only after its actor has ended (OneLiveLink),  *)
(* except when serve itself ends.                                           *)

\* Mutant: ids start over, as a counter local to the loop's body would.
ActorWriteSameId(l) ==
    LET c == Head(queue[l]) IN
    /\ actor[l] = "running" /\ queue[l] # <<>> /\ peer[l] = "open"
    /\ wire' = [wire EXCEPT ![l] = Append(@, [id |-> 0, call |-> c])]
    /\ pending' = [pending EXCEPT ![l] = {p \in @ : p.id # 0} \cup {[id |-> 0, call |-> c]}]
    /\ queue' = [queue EXCEPT ![l] = Tail(@)]
    /\ UNCHANGED <<current, writer, caller, reply, actor, nextId, serving, inbound,
                   peer, carried>>

\* Take a command, write its envelope, remember who waits for the answer.
ActorWrite(l) ==
    LET c == Head(queue[l])
        e == [id |-> nextId[l], call |-> c]
    IN
    /\ actor[l] = "running" /\ queue[l] # <<>> /\ peer[l] = "open"
    /\ wire' = [wire EXCEPT ![l] = Append(@, e)]
    /\ pending' = [pending EXCEPT ![l] = {p \in @ : p.id # e.id} \cup {e}]
    /\ nextId' = [nextId EXCEPT ![l] = @ + 1]
    /\ queue' = [queue EXCEPT ![l] = Tail(@)]
    /\ UNCHANGED <<current, writer, caller, reply, actor, serving, inbound, peer, carried>>

\* The socket is broken before its end has been read: this caller is told at
\* once, the loop ends.
ActorWriteFails(l) ==
    /\ actor[l] = "running" /\ queue[l] # <<>> /\ peer[l] = "closed"
    /\ reply' = [reply EXCEPT ![Head(queue[l])] = "lost"]
    /\ nextId' = [nextId EXCEPT ![l] = @ + 1]
    /\ queue' = [queue EXCEPT ![l] = Tail(@)]
    /\ actor' = [actor EXCEPT ![l] = "draining"]
    /\ UNCHANGED <<current, writer, caller, pending, daemon>>

\* An answer goes to whoever waits under its id.
ActorReply(l) ==
    LET a == Head(inbound[l]) IN
    /\ actor[l] = "running" /\ inbound[l] # <<>> /\ a # Eof
    /\ pending' = [pending EXCEPT ![l] = {p \in @ : p.id # a.id}]
    /\ reply' = [c \in Calls |->
                    IF \E p \in pending[l] : p.id = a.id /\ p.call = c
                    THEN IF a.ok THEN "answered" ELSE "refused"
                    ELSE reply[c]]
    /\ inbound' = [inbound EXCEPT ![l] = Tail(@)]
    /\ UNCHANGED <<current, writer, caller, actor, queue, nextId, wire, serving,
                   peer, carried>>

\* Mutant: the loop goes on after the end of the stream.
ActorEofIgnored(l) ==
    /\ actor[l] = "running" /\ inbound[l] # <<>> /\ Head(inbound[l]) = Eof
    /\ inbound' = [inbound EXCEPT ![l] = Tail(@)]
    /\ UNCHANGED <<current, writer, caller, reply, client, wire, serving, peer, carried>>

\* The end of the stream, a transport error or an unreadable line.
ActorEof(l) ==
    /\ actor[l] = "running" /\ inbound[l] # <<>> /\ Head(inbound[l]) = Eof
    /\ inbound' = [inbound EXCEPT ![l] = Tail(@)]
    /\ actor' = [actor EXCEPT ![l] = "draining"]
    /\ UNCHANGED <<current, writer, caller, reply, queue, nextId, pending, wire,
                   serving, peer, carried>>

\* After the loop: every call that waits for an answer is told the reason ...
ActorDrain(l) ==
    /\ actor[l] = "draining"
    /\ \E p \in pending[l] :
          /\ pending' = [pending EXCEPT ![l] = @ \ {p}]
          /\ reply' = [reply EXCEPT ![p.call] = "lost"]
    /\ UNCHANGED <<current, writer, caller, actor, queue, nextId, daemon>>

\* Mutant: the function returns without draining the table.
ActorDropUndrained(l) ==
    /\ actor[l] = "draining"
    /\ actor' = [actor EXCEPT ![l] = "closed"]
    /\ reply' = [c \in Calls |-> IF c \in Elems(queue[l]) THEN "lost" ELSE reply[c]]
    /\ queue' = [queue EXCEPT ![l] = <<>>]
    /\ UNCHANGED <<current, writer, caller, nextId, pending, daemon>>

\* ... then the function returns: its receiver goes, with the commands in it and
\* their oneshots, and its half of the socket.
ActorDrop(l) ==
    /\ actor[l] = "draining" /\ pending[l] = {}
    /\ actor' = [actor EXCEPT ![l] = "closed"]
    /\ reply' = [c \in Calls |-> IF c \in Elems(queue[l]) THEN "lost" ELSE reply[c]]
    /\ queue' = [queue EXCEPT ![l] = <<>>]
    /\ UNCHANGED <<current, writer, caller, nextId, pending, daemon>>

-----------------------------------------------------------------------------
(* The daemon's end (handle_connection): one request at a time.            *)

\* Read a line and carry the request out (dispatch).
DaemonServe(l) ==
    /\ peer[l] = "open" /\ serving[l] = None /\ wire[l] # <<>>
    /\ serving' = [serving EXCEPT ![l] = Head(wire[l])]
    /\ wire' = [wire EXCEPT ![l] = Tail(@)]
    /\ carried' = carried \cup {<<Head(wire[l]).call, l>>}
    /\ UNCHANGED <<current, writer, caller, reply, client, inbound, peer>>

\* The tool's value or its error, under the request's id.
DaemonAnswer(l) ==
    /\ peer[l] = "open" /\ serving[l] # None
    /\ \E ok \in BOOLEAN :
          inbound' = [inbound EXCEPT ![l] =
              Append(@, [id |-> serving[l].id, call |-> serving[l].call, ok |-> ok])]
    /\ serving' = [serving EXCEPT ![l] = None]
    /\ UNCHANGED <<current, writer, caller, reply, client, wire, peer, carried>>

\* The daemon ends (idle, stopped, crashed) or the connection breaks, whatever it
\* is at.  What was written before is still read by the client, then the end.
DaemonLost(l) ==
    /\ peer[l] = "open"
    /\ peer' = [peer EXCEPT ![l] = "closed"]
    /\ inbound' = [inbound EXCEPT ![l] = Append(@, Eof)]
    /\ wire' = [wire EXCEPT ![l] = <<>>]
    /\ serving' = [serving EXCEPT ![l] = None]
    /\ UNCHANGED <<current, writer, caller, reply, client, carried>>

-----------------------------------------------------------------------------
CallStep(c) ==
    \/ ReadCurrent(c) \/ Send(c) \/ SendFails(c) \/ Return(c) \/ Fail(c)
    \/ LockCurrent(c) \/ TakeCurrent(c) \/ Reconnect(c) \/ ReconnectFails(c)

ActorStep(l) ==
    \/ ActorWrite(l) \/ ActorWriteFails(l) \/ ActorReply(l) \/ ActorEof(l)
    \/ ActorDrain(l) \/ ActorDrop(l)

Next ==
    \/ \E c \in Calls : Ask(c) \/ CallStep(c)
    \/ \E l \in Links : ActorStep(l) \/ DaemonServe(l) \/ DaemonAnswer(l) \/ DaemonLost(l)

Spec == Init /\ [][Next]_vars

\* Tasks run on and an idle handler reads the next request.  Nothing makes a tool
\* call end: it may wait for a provisioning or a server's shutdown, which have no
\* deadline (supervisor.rs:440, lsp/server.rs:143), and the caller has none either.
\* Nothing makes a user ask or a connection break.  Waiting for the lock, for room in
\* the queue and for the end of a reconnect is fair because tokio's RwLock and
\* channels are first come, first served.
Fairness ==
    /\ \A c \in Calls :
          /\ WF_vars(ReadCurrent(c) \/ SendFails(c) \/ Return(c) \/ Fail(c))
          /\ WF_vars(TakeCurrent(c) \/ Reconnect(c) \/ ReconnectFails(c))
          /\ SF_vars(LockCurrent(c)) /\ SF_vars(ReadCurrent(c)) /\ SF_vars(Send(c))
    /\ \A l \in Links :
          WF_vars(ActorStep(l)) /\ WF_vars(DaemonServe(l))

FairSpec == Spec /\ Fairness

-----------------------------------------------------------------------------
(* Promises.                                                               *)

\* No call waits for nobody: whoever waits for its oneshot has a command in the
\* queue, a request in the table or an answer to collect, in exactly one of these
\* (client.rs: a closed actor leaves no oneshot unresolved).
Waiting(c) == pc[c] = "wait" /\ reply[c] = None
Queued(c, l) == \E i \in DOMAIN queue[l] : queue[l][i] = c
Asked(c, l) == \E p \in pending[l] : p.call = c
EveryWaiterIsOwed ==
    \A c \in Calls, l \in Links :
        /\ Queued(c, l) \/ Asked(c, l) => Waiting(c) /\ link[c] = l
        /\ ~(Queued(c, l) /\ Asked(c, l))
        /\ Waiting(c) /\ link[c] = l => actor[l] # "closed" /\ (Queued(c, l) \/ Asked(c, l))

\* What is on its way between a request and its answer, if somebody still waits under
\* its id, belongs to the call that waits: ids are never given twice on a link.
OnItsWay(l) == Elems(wire[l]) \cup ({serving[l]} \ {None}) \cup (Elems(inbound[l]) \ {Eof})
AnswersFindTheirCall ==
    \A l \in Links : \A p \in pending[l], r \in OnItsWay(l) : r.id = p.id => r.call = p.call

\* Callers that find one connection dead do not each connect: a client is replaced
\* only when its actor has ended, so at most one connection of a serve is alive.
OneLiveLink == \A l \in Links : l < current => actor[l] = "closed"

\* A request is never carried out twice over one connection: the second try is
\* made only where the first was lost with its connection.
NeverTwiceOnALink ==
    [][\A l \in Links : DaemonServe(l) => <<Head(wire[l]).call, l>> \notin carried]_vars

\* Every tool call returns, however often the daemon goes away under it, unless the
\* daemon is there and at work on a request of the connection for ever.
EveryCallReturns ==
    \/ \E l \in Links : <>[](peer[l] = "open" /\ serving[l] # None)
    \/ \A c \in Calls : pc[c] = "read" ~> pc[c] = "done"

\* reconnect.rs: "transparently reconnecting once if the current connection turns
\* out to be dead - either already, or as the cause of this call's own failure".
\* A call never returns the loss of its first connection without a second try.
LossIsRetried == \A c \in Calls : result[c] = "lost" => tries[c] = 2
=============================================================================
