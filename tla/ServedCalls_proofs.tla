------------------------- MODULE ServedCalls_proofs -------------------------
(***************************************************************************)
(* The two channels a call goes through.  DaemonLink: what holds of a tool *)
(* call and its answer, for any set of calls, any number of connections    *)
(* and any size of the command channel.  DbActor: the thread behind the    *)
(* graph's channel implements GraphStore, for any tasks and tables.        *)
(***************************************************************************)
EXTENDS DaemonLink, DbActor, FiniteSetTheorems, SequenceTheorems, TLAPS

\* Appending to a queue and taking its head, element by element.
LEMMA AppendElems ==
    ASSUME NEW S, NEW s \in Seq(S), NEW e \in S
    PROVE  /\ Append(s, e) \in Seq(S)
           /\ \A i \in DOMAIN Append(s, e) :
                 Append(s, e)[i] = e \/ (i \in DOMAIN s /\ Append(s, e)[i] = s[i])
           /\ \A i \in DOMAIN s : i \in DOMAIN Append(s, e) /\ Append(s, e)[i] = s[i]
           /\ \E i \in DOMAIN Append(s, e) : Append(s, e)[i] = e
           /\ \A i, j \in DOMAIN Append(s, e) :
                 Append(s, e)[i] = e /\ Append(s, e)[j] = e /\ i # j =>
                    \E k \in DOMAIN s : s[k] = e
  OBVIOUS

LEMMA TailElems ==
    ASSUME NEW S, NEW s \in Seq(S), s # <<>>
    PROVE  /\ Head(s) \in S /\ Tail(s) \in Seq(S)
           /\ 1 \in DOMAIN s /\ Head(s) = s[1]
           /\ \A i \in DOMAIN Tail(s) : i + 1 \in DOMAIN s /\ Tail(s)[i] = s[i + 1] /\ i \in Nat \ {0}
           /\ \A i \in DOMAIN s : i = 1 \/ (i - 1 \in DOMAIN Tail(s) /\ Tail(s)[i - 1] = s[i])
  OBVIOUS

\* A call has a client from its first look at current on; whoever asks for a new
\* one has seen the old one closed.
HandlesAgree ==
    \A c \in Calls :
        /\ link[c] <= current
        /\ pc[c] \in {"idle", "read"} => link[c] = 0
        /\ pc[c] \in {"send", "wait", "lock", "held"} => link[c] # 0
        /\ pc[c] \in {"lock", "held"} => actor[link[c]] = "closed"
        /\ pc[c] \in {"idle", "read"} => tries[c] = 0
        /\ pc[c] \in {"send", "lock", "held"} => tries[c] \in 0 .. 1
        /\ tries[c] \in 0 .. 2

\* A link that has not been made yet holds nothing.
UnbornIsEmpty ==
    \A l \in Links :
        l > current => /\ actor[l] = "unborn" /\ peer[l] = "unborn"
                       /\ queue[l] = <<>> /\ pending[l] = {}
                       /\ wire[l] = <<>> /\ serving[l] = None /\ inbound[l] = <<>>
                       /\ \A c \in Calls : <<c, l>> \notin carried

\* Every id seen on a link has been given out there.
IdsAreGiven == \A l \in Links : \A r \in pending[l] \cup OnItsWay(l) : r.id < nextId[l]

\* A call has one command in a queue and one entry in a table.
OneEntryEach ==
    \A l \in Links :
        /\ \A i, j \in DOMAIN queue[l] : queue[l][i] = queue[l][j] => i = j
        /\ \A p, q \in pending[l] : p.call = q.call => p = q

\* A request that was written belongs to a link its call has had; a call about to
\* send has written nothing on its present link.
Written(c, l) == (\E e \in Elems(wire[l]) : e.call = c) \/ <<c, l>> \in carried
RequestsAreFresh ==
    /\ \A c \in Calls, l \in Links :
          /\ Written(c, l) => l <= link[c] /\ (pc[c] = "send" => l < link[c])
          /\ Queued(c, l) => ~Written(c, l)
    /\ \A l \in Links : \A i \in DOMAIN wire[l] :
          /\ <<wire[l][i].call, l>> \notin carried
          /\ \A j \in DOMAIN wire[l] : wire[l][i].call = wire[l][j].call => i = j

Core == TypeOK /\ HandlesAgree /\ UnbornIsEmpty /\ OneLiveLink
IInv == /\ Core /\ EveryWaiterIsOwed /\ OneEntryEach
        /\ IdsAreGiven /\ AnswersFindTheirCall /\ RequestsAreFresh

(* Types of the callers' state. *)
LEMMA CallerTypesStep ==
    ASSUME CallerTypes, [Next]_vars
    PROVE  CallerTypes'
<1> USE LinkAssumption DEF CallerTypes, Outcome, Links, IsClosed, client, daemon, caller, vars
<1>1. ASSUME NEW c \in Calls, Ask(c) PROVE CallerTypes'
  BY <1>1 DEF Ask
<1>2. ASSUME NEW c \in Calls, ReadCurrent(c) PROVE CallerTypes'
  BY <1>2 DEF ReadCurrent
<1>3. ASSUME NEW c \in Calls, Send(c) PROVE CallerTypes'
  BY <1>3 DEF Send
<1>4. ASSUME NEW c \in Calls, SendFails(c) PROVE CallerTypes'
  BY <1>4 DEF SendFails
<1>5. ASSUME NEW c \in Calls, Return(c) PROVE CallerTypes'
  BY <1>5 DEF Return
<1>6. ASSUME NEW c \in Calls, Fail(c) PROVE CallerTypes'
  BY <1>6 DEF Fail
<1>7. ASSUME NEW c \in Calls, LockCurrent(c) PROVE CallerTypes'
  BY <1>7 DEF LockCurrent
<1>8. ASSUME NEW c \in Calls, TakeCurrent(c) PROVE CallerTypes'
  BY <1>8 DEF TakeCurrent
<1>9. ASSUME NEW c \in Calls, Reconnect(c) PROVE CallerTypes'
  BY <1>9 DEF Reconnect
<1>10. ASSUME NEW c \in Calls, ReconnectFails(c) PROVE CallerTypes'
  BY <1>10 DEF ReconnectFails
<1>11. ASSUME NEW l \in Links, ActorWrite(l) PROVE CallerTypes'
  BY <1>11 DEF ActorWrite
<1>12. ASSUME NEW l \in Links, ActorWriteFails(l) PROVE CallerTypes'
  BY <1>12 DEF ActorWriteFails
<1>13. ASSUME NEW l \in Links, ActorReply(l) PROVE CallerTypes'
  BY <1>13 DEF ActorReply
<1>14. ASSUME NEW l \in Links, ActorEof(l) PROVE CallerTypes'
  BY <1>14 DEF ActorEof
<1>15. ASSUME NEW l \in Links, ActorDrain(l) PROVE CallerTypes'
  BY <1>15 DEF ActorDrain
<1>16. ASSUME NEW l \in Links, ActorDrop(l) PROVE CallerTypes'
  BY <1>16 DEF ActorDrop
<1>17. ASSUME NEW l \in Links, DaemonServe(l) PROVE CallerTypes'
  BY <1>17 DEF DaemonServe
<1>18. ASSUME NEW l \in Links, DaemonAnswer(l) PROVE CallerTypes'
  BY <1>18 DEF DaemonAnswer
<1>19. ASSUME NEW l \in Links, DaemonLost(l) PROVE CallerTypes'
  BY <1>19 DEF DaemonLost
<1>20. CASE UNCHANGED vars
  BY <1>20 DEF vars
<1>21. QED
  BY <1>1, <1>2, <1>3, <1>4, <1>5, <1>6, <1>7, <1>8, <1>9, <1>10, <1>11, <1>12, <1>13, <1>14, <1>15, <1>16, <1>17, <1>18, <1>19, <1>20 DEF Next, CallStep, ActorStep

(* Types of the clients' state. *)
LEMMA ClientTypesStep ==
    ASSUME TypeOK, HandlesAgree, [Next]_vars
    PROVE  ClientTypes'
<1> USE LinkAssumption DEF TypeOK, ClientTypes, Links, IsClosed, client, daemon, caller, vars
<1>1. ASSUME NEW c \in Calls, Ask(c) PROVE ClientTypes'
  BY <1>1 DEF Ask
<1>2. ASSUME NEW c \in Calls, ReadCurrent(c) PROVE ClientTypes'
  BY <1>2 DEF ReadCurrent
<1>3. ASSUME NEW c \in Calls, Send(c) PROVE ClientTypes'
  <2>0. link[c] \in Links
    BY <1>3 DEF Send, TypeOK, CallerTypes, HandlesAgree
  <2>1. Append(queue[link[c]], c) \in Seq(Calls)
    BY <2>0, AppendElems DEF TypeOK
  <2> QED
    BY <1>3, <2>1 DEF Send
<1>4. ASSUME NEW c \in Calls, SendFails(c) PROVE ClientTypes'
  BY <1>4 DEF SendFails
<1>5. ASSUME NEW c \in Calls, Return(c) PROVE ClientTypes'
  BY <1>5 DEF Return
<1>6. ASSUME NEW c \in Calls, Fail(c) PROVE ClientTypes'
  BY <1>6 DEF Fail
<1>7. ASSUME NEW c \in Calls, LockCurrent(c) PROVE ClientTypes'
  BY <1>7 DEF LockCurrent
<1>8. ASSUME NEW c \in Calls, TakeCurrent(c) PROVE ClientTypes'
  BY <1>8 DEF TakeCurrent
<1>9. ASSUME NEW c \in Calls, Reconnect(c) PROVE ClientTypes'
  BY <1>9 DEF Reconnect
<1>10. ASSUME NEW c \in Calls, ReconnectFails(c) PROVE ClientTypes'
  BY <1>10 DEF ReconnectFails
<1>11. ASSUME NEW l \in Links, ActorWrite(l) PROVE ClientTypes'
  <2>1. Head(queue[l]) \in Calls /\ Tail(queue[l]) \in Seq(Calls) /\ nextId[l] \in Nat
    BY <1>11, TailElems DEF ActorWrite, TypeOK, ClientTypes
  <2>2. [id |-> nextId[l], call |-> Head(queue[l])] \in Envelope
    BY <2>1 DEF Envelope
  <2>3. pending' = [pending EXCEPT ![l] = {p \in @ : p.id # nextId[l]} \cup {[id |-> nextId[l], call |-> Head(queue[l])]}]
    BY <1>11 DEF ActorWrite
  <2>4. pending' \in [Links -> SUBSET Envelope]
    BY <2>2, <2>3
  <2> QED
    BY <1>11, <2>1, <2>4 DEF ActorWrite
<1>12. ASSUME NEW l \in Links, ActorWriteFails(l) PROVE ClientTypes'
  BY <1>12 DEF ActorWriteFails
<1>13. ASSUME NEW l \in Links, ActorReply(l) PROVE ClientTypes'
  BY <1>13 DEF ActorReply
<1>14. ASSUME NEW l \in Links, ActorEof(l) PROVE ClientTypes'
  BY <1>14 DEF ActorEof
<1>15. ASSUME NEW l \in Links, ActorDrain(l) PROVE ClientTypes'
  BY <1>15 DEF ActorDrain
<1>16. ASSUME NEW l \in Links, ActorDrop(l) PROVE ClientTypes'
  BY <1>16 DEF ActorDrop
<1>17. ASSUME NEW l \in Links, DaemonServe(l) PROVE ClientTypes'
  BY <1>17 DEF DaemonServe
<1>18. ASSUME NEW l \in Links, DaemonAnswer(l) PROVE ClientTypes'
  BY <1>18 DEF DaemonAnswer
<1>19. ASSUME NEW l \in Links, DaemonLost(l) PROVE ClientTypes'
  BY <1>19 DEF DaemonLost
<1>20. CASE UNCHANGED vars
  BY <1>20 DEF vars
<1>21. QED
  BY <1>1, <1>2, <1>3, <1>4, <1>5, <1>6, <1>7, <1>8, <1>9, <1>10, <1>11, <1>12, <1>13, <1>14, <1>15, <1>16, <1>17, <1>18, <1>19, <1>20 DEF Next, CallStep, ActorStep

(* Types of the daemon's side. *)
LEMMA DaemonTypesStep ==
    ASSUME TypeOK, [Next]_vars
    PROVE  DaemonTypes'
<1> USE LinkAssumption DEF TypeOK, DaemonTypes, Links, IsClosed, client, daemon, caller, vars
<1>1. ASSUME NEW c \in Calls, Ask(c) PROVE DaemonTypes'
  BY <1>1 DEF Ask
<1>2. ASSUME NEW c \in Calls, ReadCurrent(c) PROVE DaemonTypes'
  BY <1>2 DEF ReadCurrent
<1>3. ASSUME NEW c \in Calls, Send(c) PROVE DaemonTypes'
  BY <1>3 DEF Send
<1>4. ASSUME NEW c \in Calls, SendFails(c) PROVE DaemonTypes'
  BY <1>4 DEF SendFails
<1>5. ASSUME NEW c \in Calls, Return(c) PROVE DaemonTypes'
  BY <1>5 DEF Return
<1>6. ASSUME NEW c \in Calls, Fail(c) PROVE DaemonTypes'
  BY <1>6 DEF Fail
<1>7. ASSUME NEW c \in Calls, LockCurrent(c) PROVE DaemonTypes'
  BY <1>7 DEF LockCurrent
<1>8. ASSUME NEW c \in Calls, TakeCurrent(c) PROVE DaemonTypes'
  BY <1>8 DEF TakeCurrent
<1>9. ASSUME NEW c \in Calls, Reconnect(c) PROVE DaemonTypes'
  BY <1>9 DEF Reconnect
<1>10. ASSUME NEW c \in Calls, ReconnectFails(c) PROVE DaemonTypes'
  BY <1>10 DEF ReconnectFails
<1>11. ASSUME NEW l \in Links, ActorWrite(l) PROVE DaemonTypes'
  <2>1. Head(queue[l]) \in Calls /\ Tail(queue[l]) \in Seq(Calls) /\ nextId[l] \in Nat
    BY <1>11, TailElems DEF ActorWrite, TypeOK, ClientTypes
  <2>2. [id |-> nextId[l], call |-> Head(queue[l])] \in Envelope
    BY <2>1 DEF Envelope
  <2>3. Append(wire[l], [id |-> nextId[l], call |-> Head(queue[l])]) \in Seq(Envelope)
    BY <2>2, AppendElems
  <2> QED
    BY <1>11, <2>3 DEF ActorWrite
<1>12. ASSUME NEW l \in Links, ActorWriteFails(l) PROVE DaemonTypes'
  BY <1>12 DEF ActorWriteFails
<1>13. ASSUME NEW l \in Links, ActorReply(l) PROVE DaemonTypes'
  <2>1. Tail(inbound[l]) \in Seq(Answer \cup {Eof})
    BY <1>13, TailElems DEF ActorReply
  <2> QED
    BY <1>13, <2>1 DEF ActorReply
<1>14. ASSUME NEW l \in Links, ActorEof(l) PROVE DaemonTypes'
  <2>1. Tail(inbound[l]) \in Seq(Answer \cup {Eof})
    BY <1>14, TailElems DEF ActorEof
  <2> QED
    BY <1>14, <2>1 DEF ActorEof
<1>15. ASSUME NEW l \in Links, ActorDrain(l) PROVE DaemonTypes'
  BY <1>15 DEF ActorDrain
<1>16. ASSUME NEW l \in Links, ActorDrop(l) PROVE DaemonTypes'
  BY <1>16 DEF ActorDrop
<1>17. ASSUME NEW l \in Links, DaemonServe(l) PROVE DaemonTypes'
  <2>1. Head(wire[l]) \in Envelope /\ Tail(wire[l]) \in Seq(Envelope)
    BY <1>17, TailElems DEF DaemonServe
  <2>2. Head(wire[l]).call \in Calls
    BY <2>1 DEF Envelope
  <2> QED
    BY <1>17, <2>1, <2>2 DEF DaemonServe
<1>18. ASSUME NEW l \in Links, DaemonAnswer(l) PROVE DaemonTypes'
  <2>1. PICK ok \in BOOLEAN :
           inbound' = [inbound EXCEPT ![l] =
              Append(@, [id |-> serving[l].id, call |-> serving[l].call, ok |-> ok])]
    BY <1>18 DEF DaemonAnswer
  <2>2. [id |-> serving[l].id, call |-> serving[l].call, ok |-> ok] \in Answer
    BY <1>18 DEF DaemonAnswer, Envelope, Answer
  <2>3. Append(inbound[l], [id |-> serving[l].id, call |-> serving[l].call, ok |-> ok])
           \in Seq(Answer \cup {Eof})
    BY <2>2, AppendElems
  <2> QED
    BY <1>18, <2>1, <2>3 DEF DaemonAnswer
<1>19. ASSUME NEW l \in Links, DaemonLost(l) PROVE DaemonTypes'
  <2>0. <<>> \in Seq(Envelope)
    OBVIOUS
  <2>1. Append(inbound[l], Eof) \in Seq(Answer \cup {Eof})
    BY AppendElems
  <2> QED
    BY <1>19, <2>0, <2>1 DEF DaemonLost
<1>20. CASE UNCHANGED vars
  BY <1>20 DEF vars
<1>21. QED
  BY <1>1, <1>2, <1>3, <1>4, <1>5, <1>6, <1>7, <1>8, <1>9, <1>10, <1>11, <1>12, <1>13, <1>14, <1>15, <1>16, <1>17, <1>18, <1>19, <1>20 DEF Next, CallStep, ActorStep

(* No step but Reconnect makes a link, and none revives a closed one. *)
LEMMA LinksStep ==
    ASSUME TypeOK, OneLiveLink, [Next]_vars
    PROVE  OneLiveLink'
<1> USE LinkAssumption DEF OneLiveLink, TypeOK, ClientTypes, CallerTypes, Links, IsClosed, client, daemon, caller, vars
<1>1. ASSUME NEW c \in Calls, Ask(c) PROVE OneLiveLink'
  BY <1>1 DEF Ask
<1>2. ASSUME NEW c \in Calls, ReadCurrent(c) PROVE OneLiveLink'
  BY <1>2 DEF ReadCurrent
<1>3. ASSUME NEW c \in Calls, Send(c) PROVE OneLiveLink'
  BY <1>3 DEF Send
<1>4. ASSUME NEW c \in Calls, SendFails(c) PROVE OneLiveLink'
  BY <1>4 DEF SendFails
<1>5. ASSUME NEW c \in Calls, Return(c) PROVE OneLiveLink'
  BY <1>5 DEF Return
<1>6. ASSUME NEW c \in Calls, Fail(c) PROVE OneLiveLink'
  BY <1>6 DEF Fail
<1>7. ASSUME NEW c \in Calls, LockCurrent(c) PROVE OneLiveLink'
  BY <1>7 DEF LockCurrent
<1>8. ASSUME NEW c \in Calls, TakeCurrent(c) PROVE OneLiveLink'
  BY <1>8 DEF TakeCurrent
<1>9. ASSUME NEW c \in Calls, Reconnect(c) PROVE OneLiveLink'
  <2>1. /\ IsClosed(current) /\ current' = current + 1
        /\ actor' = [actor EXCEPT ![current + 1] = "running"]
    BY <1>9 DEF Reconnect
  <2> QED
    BY <2>1
<1>10. ASSUME NEW c \in Calls, ReconnectFails(c) PROVE OneLiveLink'
  BY <1>10 DEF ReconnectFails
<1>11. ASSUME NEW l \in Links, ActorWrite(l) PROVE OneLiveLink'
  BY <1>11 DEF ActorWrite
<1>12. ASSUME NEW l \in Links, ActorWriteFails(l) PROVE OneLiveLink'
  BY <1>12 DEF ActorWriteFails
<1>13. ASSUME NEW l \in Links, ActorReply(l) PROVE OneLiveLink'
  BY <1>13 DEF ActorReply
<1>14. ASSUME NEW l \in Links, ActorEof(l) PROVE OneLiveLink'
  BY <1>14 DEF ActorEof
<1>15. ASSUME NEW l \in Links, ActorDrain(l) PROVE OneLiveLink'
  BY <1>15 DEF ActorDrain
<1>16. ASSUME NEW l \in Links, ActorDrop(l) PROVE OneLiveLink'
  BY <1>16 DEF ActorDrop
<1>17. ASSUME NEW l \in Links, DaemonServe(l) PROVE OneLiveLink'
  BY <1>17 DEF DaemonServe
<1>18. ASSUME NEW l \in Links, DaemonAnswer(l) PROVE OneLiveLink'
  BY <1>18 DEF DaemonAnswer
<1>19. ASSUME NEW l \in Links, DaemonLost(l) PROVE OneLiveLink'
  BY <1>19 DEF DaemonLost
<1>20. CASE UNCHANGED vars
  BY <1>20 DEF vars
<1>21. QED
  BY <1>1, <1>2, <1>3, <1>4, <1>5, <1>6, <1>7, <1>8, <1>9, <1>10, <1>11, <1>12, <1>13, <1>14, <1>15, <1>16, <1>17, <1>18, <1>19, <1>20 DEF Next, CallStep, ActorStep

(* A call's client is a link that exists; it asks for another only when that is closed. *)
LEMMA HandlesStep ==
    ASSUME TypeOK, HandlesAgree, [Next]_vars
    PROVE  HandlesAgree'
<1> USE LinkAssumption DEF HandlesAgree, TypeOK, ClientTypes, CallerTypes, Links, IsClosed, client, daemon, caller, vars
<1>1. ASSUME NEW c \in Calls, Ask(c) PROVE HandlesAgree'
  BY <1>1 DEF Ask
<1>2. ASSUME NEW c \in Calls, ReadCurrent(c) PROVE HandlesAgree'
  BY <1>2 DEF ReadCurrent
<1>3. ASSUME NEW c \in Calls, Send(c) PROVE HandlesAgree'
  BY SMTT(30), <1>3 DEF Send
<1>4. ASSUME NEW c \in Calls, SendFails(c) PROVE HandlesAgree'
  BY <1>4 DEF SendFails
<1>5. ASSUME NEW c \in Calls, Return(c) PROVE HandlesAgree'
  BY <1>5 DEF Return
<1>6. ASSUME NEW c \in Calls, Fail(c) PROVE HandlesAgree'
  <2>1. CASE IsClosed(link[c])
    <3>1. UNCHANGED <<current, link, tries, actor>> /\ pc' = [pc EXCEPT ![c] = "lock"] /\ pc[c] = "wait" /\ tries[c] = 1
      BY <1>6, <2>1 DEF Fail
    <3> QED
      BY <2>1, <3>1
  <2>2. CASE ~IsClosed(link[c])
    BY <1>6, <2>2 DEF Fail
  <2> QED
    BY <2>1, <2>2
<1>7. ASSUME NEW c \in Calls, LockCurrent(c) PROVE HandlesAgree'
  BY <1>7 DEF LockCurrent
<1>8. ASSUME NEW c \in Calls, TakeCurrent(c) PROVE HandlesAgree'
  BY <1>8 DEF TakeCurrent
<1>9. ASSUME NEW c \in Calls, Reconnect(c) PROVE HandlesAgree'
  <2>1. /\ IsClosed(current) /\ current' = current + 1 /\ tries' = tries
        /\ actor' = [actor EXCEPT ![current + 1] = "running"]
        /\ pc' = [pc EXCEPT ![c] = "send"] /\ link' = [link EXCEPT ![c] = current + 1]
        /\ pc[c] = "held" /\ \A d \in Calls : link[d] # current + 1
    BY <1>9 DEF Reconnect
  <2>2. ASSUME NEW d \in Calls, d # c
        PROVE  pc'[d] = pc[d] /\ link'[d] = link[d] /\ link[d] <= current' /\ actor'[link[d]] = actor[link[d]]
    BY <2>1, <2>2
  <2>3. pc'[c] = "send" /\ link'[c] = current' /\ current' # 0 /\ tries[c] \in 0 .. 1
    BY <2>1
  <2> QED
    BY <2>1, <2>2, <2>3
<1>10. ASSUME NEW c \in Calls, ReconnectFails(c) PROVE HandlesAgree'
  BY <1>10 DEF ReconnectFails
<1>11. ASSUME NEW l \in Links, ActorWrite(l) PROVE HandlesAgree'
  BY <1>11 DEF ActorWrite
<1>12. ASSUME NEW l \in Links, ActorWriteFails(l) PROVE HandlesAgree'
  <2>1. /\ pc' = pc /\ link' = link /\ tries' = tries /\ current' = current
        /\ actor[l] # "closed" /\ actor' = [actor EXCEPT ![l] = "draining"]
    BY <1>12 DEF ActorWriteFails
  <2> QED
    BY <2>1
<1>13. ASSUME NEW l \in Links, ActorReply(l) PROVE HandlesAgree'
  BY <1>13 DEF ActorReply
<1>14. ASSUME NEW l \in Links, ActorEof(l) PROVE HandlesAgree'
  <2>1. /\ pc' = pc /\ link' = link /\ tries' = tries /\ current' = current
        /\ actor[l] # "closed" /\ actor' = [actor EXCEPT ![l] = "draining"]
    BY <1>14 DEF ActorEof
  <2> QED
    BY <2>1
<1>15. ASSUME NEW l \in Links, ActorDrain(l) PROVE HandlesAgree'
  BY <1>15 DEF ActorDrain
<1>16. ASSUME NEW l \in Links, ActorDrop(l) PROVE HandlesAgree'
  <2>1. /\ pc' = pc /\ link' = link /\ tries' = tries /\ current' = current
        /\ actor[l] # "closed" /\ actor' = [actor EXCEPT ![l] = "closed"]
    BY <1>16 DEF ActorDrop
  <2> QED
    BY <2>1
<1>17. ASSUME NEW l \in Links, DaemonServe(l) PROVE HandlesAgree'
  BY <1>17 DEF DaemonServe
<1>18. ASSUME NEW l \in Links, DaemonAnswer(l) PROVE HandlesAgree'
  BY <1>18 DEF DaemonAnswer
<1>19. ASSUME NEW l \in Links, DaemonLost(l) PROVE HandlesAgree'
  BY <1>19 DEF DaemonLost
<1>20. CASE UNCHANGED vars
  BY <1>20 DEF vars
<1>21. QED
  BY <1>1, <1>2, <1>3, <1>4, <1>5, <1>6, <1>7, <1>8, <1>9, <1>10, <1>11, <1>12, <1>13, <1>14, <1>15, <1>16, <1>17, <1>18, <1>19, <1>20 DEF Next, CallStep, ActorStep

(* Nothing happens on a link that has not been made. *)
LEMMA UnbornStep ==
    ASSUME TypeOK, HandlesAgree, UnbornIsEmpty, [Next]_vars
    PROVE  UnbornIsEmpty'
<1> USE LinkAssumption DEF UnbornIsEmpty, TypeOK, CallerTypes, ClientTypes, DaemonTypes, Links, IsClosed, client, daemon, caller, vars
<1>1. ASSUME NEW c \in Calls, Ask(c) PROVE UnbornIsEmpty'
  BY <1>1 DEF Ask
<1>2. ASSUME NEW c \in Calls, ReadCurrent(c) PROVE UnbornIsEmpty'
  BY <1>2 DEF ReadCurrent
<1>3. ASSUME NEW c \in Calls, Send(c) PROVE UnbornIsEmpty'
  <2>1. link[c] <= current /\ link[c] \in Nat
    BY <1>3 DEF Send, HandlesAgree
  <2>2. \A k \in Links : k > current => queue'[k] = queue[k]
    BY <1>3, <2>1 DEF Send
  <2>3. /\ current' = current /\ actor' = actor /\ peer' = peer /\ wire' = wire /\ carried' = carried
        /\ pending' = pending /\ inbound' = inbound /\ serving' = serving
    BY <1>3 DEF Send
  <2> QED
    BY <2>2, <2>3
<1>4. ASSUME NEW c \in Calls, SendFails(c) PROVE UnbornIsEmpty'
  BY <1>4 DEF SendFails
<1>5. ASSUME NEW c \in Calls, Return(c) PROVE UnbornIsEmpty'
  BY <1>5 DEF Return
<1>6. ASSUME NEW c \in Calls, Fail(c) PROVE UnbornIsEmpty'
  BY <1>6 DEF Fail
<1>7. ASSUME NEW c \in Calls, LockCurrent(c) PROVE UnbornIsEmpty'
  BY <1>7 DEF LockCurrent
<1>8. ASSUME NEW c \in Calls, TakeCurrent(c) PROVE UnbornIsEmpty'
  BY <1>8 DEF TakeCurrent
<1>9. ASSUME NEW c \in Calls, Reconnect(c) PROVE UnbornIsEmpty'
  <2>1. /\ current' = current + 1 /\ actor' = [actor EXCEPT ![current + 1] = "running"]
        /\ peer' = [peer EXCEPT ![current + 1] = "open"]
        /\ UNCHANGED <<wire, carried, queue, pending, inbound, serving>>
    BY <1>9 DEF Reconnect
  <2>2. \A k \in Links : k > current' => k > current /\ actor'[k] = actor[k] /\ peer'[k] = peer[k]
    BY <2>1
  <2> QED
    BY <2>1, <2>2
<1>10. ASSUME NEW c \in Calls, ReconnectFails(c) PROVE UnbornIsEmpty'
  BY <1>10 DEF ReconnectFails
<1>11. ASSUME NEW l \in Links, ActorWrite(l) PROVE UnbornIsEmpty'
  BY <1>11 DEF ActorWrite
<1>12. ASSUME NEW l \in Links, ActorWriteFails(l) PROVE UnbornIsEmpty'
  BY <1>12 DEF ActorWriteFails
<1>13. ASSUME NEW l \in Links, ActorReply(l) PROVE UnbornIsEmpty'
  BY <1>13 DEF ActorReply
<1>14. ASSUME NEW l \in Links, ActorEof(l) PROVE UnbornIsEmpty'
  BY <1>14 DEF ActorEof
<1>15. ASSUME NEW l \in Links, ActorDrain(l) PROVE UnbornIsEmpty'
  BY <1>15 DEF ActorDrain
<1>16. ASSUME NEW l \in Links, ActorDrop(l) PROVE UnbornIsEmpty'
  BY <1>16 DEF ActorDrop
<1>17. ASSUME NEW l \in Links, DaemonServe(l) PROVE UnbornIsEmpty'
  <2>1. l <= current
    BY <1>17 DEF DaemonServe
  <2>2. ASSUME NEW k \in Links, k > current'
        PROVE  /\ wire'[k] = wire[k] /\ serving'[k] = serving[k]
               /\ \A c \in Calls : <<c, k>> \in carried' => <<c, k>> \in carried
    BY <1>17, <2>1, <2>2 DEF DaemonServe
  <2>3. /\ current' = current /\ actor' = actor /\ peer' = peer /\ queue' = queue
        /\ pending' = pending /\ inbound' = inbound
    BY <1>17 DEF DaemonServe
  <2> QED
    BY <2>2, <2>3
<1>18. ASSUME NEW l \in Links, DaemonAnswer(l) PROVE UnbornIsEmpty'
  BY <1>18 DEF DaemonAnswer
<1>19. ASSUME NEW l \in Links, DaemonLost(l) PROVE UnbornIsEmpty'
  BY <1>19 DEF DaemonLost
<1>20. CASE UNCHANGED vars
  BY <1>20 DEF vars
<1>21. QED
  BY <1>1, <1>2, <1>3, <1>4, <1>5, <1>6, <1>7, <1>8, <1>9, <1>10, <1>11, <1>12, <1>13, <1>14, <1>15, <1>16, <1>17, <1>18, <1>19, <1>20 DEF Next, CallStep, ActorStep

(* A step that touches neither commands nor entries, nor anybody who waits. *)
LEMMA OwedUntouched ==
    ASSUME EveryWaiterIsOwed, OneEntryEach, queue' = queue, pending' = pending,
           \A d \in Calls : Waiting(d)' <=> Waiting(d),
           \A d \in Calls : Waiting(d) => link'[d] = link[d],
           \A l \in Links : actor[l] # "closed" => actor'[l] # "closed"
    PROVE  (EveryWaiterIsOwed /\ OneEntryEach)'
<1>1. \A d \in Calls, l \in Links : (Queued(d, l)' <=> Queued(d, l)) /\ (Asked(d, l)' <=> Asked(d, l))
  BY DEF Queued, Asked
<1>2. EveryWaiterIsOwed'
  BY <1>1 DEF EveryWaiterIsOwed
<1>3. OneEntryEach'
  BY DEF OneEntryEach
<1> QED
  BY <1>2, <1>3

(* Every step that takes a command or an entry away resolves its oneshot. *)
LEMMA OwedStep ==
    ASSUME TypeOK, HandlesAgree, IdsAreGiven, EveryWaiterIsOwed, OneEntryEach, [Next]_vars
    PROVE  (EveryWaiterIsOwed /\ OneEntryEach)'
<1> USE LinkAssumption DEF TypeOK, client, daemon, caller, vars
<1>1. ASSUME NEW c \in Calls, Ask(c) PROVE (EveryWaiterIsOwed /\ OneEntryEach)'
  <2>1. queue' = queue /\ pending' = pending
    BY <1>1 DEF Ask
  <2>2. \A d \in Calls : (Waiting(d)' <=> Waiting(d)) /\ (Waiting(d) => link'[d] = link[d])
    BY <1>1 DEF Ask, Waiting, CallerTypes
  <2>3. \A k \in Links : actor[k] # "closed" => actor'[k] # "closed"
    BY <1>1 DEF Ask, ClientTypes
  <2> QED
    BY <2>1, <2>2, <2>3, OwedUntouched
<1>2. ASSUME NEW c \in Calls, ReadCurrent(c) PROVE (EveryWaiterIsOwed /\ OneEntryEach)'
  <2>1. queue' = queue /\ pending' = pending
    BY <1>2 DEF ReadCurrent
  <2>2. \A d \in Calls : (Waiting(d)' <=> Waiting(d)) /\ (Waiting(d) => link'[d] = link[d])
    BY <1>2 DEF ReadCurrent, Waiting, CallerTypes
  <2>3. \A k \in Links : actor[k] # "closed" => actor'[k] # "closed"
    BY <1>2 DEF ReadCurrent, ClientTypes
  <2> QED
    BY <2>1, <2>2, <2>3, OwedUntouched
<1>3. ASSUME NEW c \in Calls, Send(c) PROVE (EveryWaiterIsOwed /\ OneEntryEach)'
  <2> DEFINE k == link[c]
  <2>1. k \in Links /\ queue[k] \in Seq(Calls)
    BY <1>3 DEF Send, HandlesAgree, CallerTypes, ClientTypes, Links
  <2>2. /\ queue' = [queue EXCEPT ![k] = Append(@, c)] /\ pending' = pending
        /\ pc' = [pc EXCEPT ![c] = "wait"] /\ reply' = [reply EXCEPT ![c] = None]
        /\ link' = link /\ actor' = actor /\ actor[k] # "closed" /\ pc[c] = "send"
    BY <1>3 DEF Send, IsClosed
  <2> HIDE DEF k
  <2>3. \A l \in Links : ~Queued(c, l) /\ ~Asked(c, l)
    BY <2>2 DEF EveryWaiterIsOwed, Waiting
  <2>4. \A d \in Calls, l \in Links :
          /\ Queued(d, l)' <=> Queued(d, l) \/ (d = c /\ l = k)
          /\ Asked(d, l)' <=> Asked(d, l)
    BY <2>1, <2>2, AppendElems DEF Queued, Asked, ClientTypes
  <2>5. \A d \in Calls : (Waiting(d)' <=> Waiting(d) \/ d = c) /\ link'[d] = link[d] /\ link[c] = k
    BY <2>2 DEF Waiting, CallerTypes, k
  <2>6. EveryWaiterIsOwed'
    BY <2>2, <2>3, <2>4, <2>5 DEF EveryWaiterIsOwed
  <2>7. \A i \in DOMAIN queue[k] : queue[k][i] # c
    BY <2>1, <2>3 DEF Queued
  <2>8. \A i, j \in DOMAIN Append(queue[k], c) :
           Append(queue[k], c)[i] = Append(queue[k], c)[j] => i = j
    BY <2>1, <2>7, AppendElems DEF OneEntryEach
  <2>9. OneEntryEach'
    BY <2>2, <2>8 DEF OneEntryEach, ClientTypes
  <2> QED
    BY <2>6, <2>9
<1>4. ASSUME NEW c \in Calls, SendFails(c) PROVE (EveryWaiterIsOwed /\ OneEntryEach)'
  <2>1. queue' = queue /\ pending' = pending
    BY <1>4 DEF SendFails
  <2>2. \A d \in Calls : (Waiting(d)' <=> Waiting(d)) /\ (Waiting(d) => link'[d] = link[d])
    BY <1>4 DEF SendFails, Waiting, CallerTypes
  <2>3. \A k \in Links : actor[k] # "closed" => actor'[k] # "closed"
    BY <1>4 DEF SendFails, ClientTypes
  <2> QED
    BY <2>1, <2>2, <2>3, OwedUntouched
<1>5. ASSUME NEW c \in Calls, Return(c) PROVE (EveryWaiterIsOwed /\ OneEntryEach)'
  <2>1. queue' = queue /\ pending' = pending
    BY <1>5 DEF Return
  <2>2. \A d \in Calls : (Waiting(d)' <=> Waiting(d)) /\ (Waiting(d) => link'[d] = link[d])
    BY <1>5 DEF Return, Waiting, CallerTypes
  <2>3. \A k \in Links : actor[k] # "closed" => actor'[k] # "closed"
    BY <1>5 DEF Return, ClientTypes
  <2> QED
    BY <2>1, <2>2, <2>3, OwedUntouched
<1>6. ASSUME NEW c \in Calls, Fail(c) PROVE (EveryWaiterIsOwed /\ OneEntryEach)'
  <2>1. queue' = queue /\ pending' = pending
    BY <1>6 DEF Fail
  <2>2. \A d \in Calls : (Waiting(d)' <=> Waiting(d)) /\ (Waiting(d) => link'[d] = link[d])
    BY <1>6 DEF Fail, Waiting, CallerTypes
  <2>3. \A k \in Links : actor[k] # "closed" => actor'[k] # "closed"
    BY <1>6 DEF Fail, ClientTypes
  <2> QED
    BY <2>1, <2>2, <2>3, OwedUntouched
<1>7. ASSUME NEW c \in Calls, LockCurrent(c) PROVE (EveryWaiterIsOwed /\ OneEntryEach)'
  <2>1. queue' = queue /\ pending' = pending
    BY <1>7 DEF LockCurrent
  <2>2. \A d \in Calls : (Waiting(d)' <=> Waiting(d)) /\ (Waiting(d) => link'[d] = link[d])
    BY <1>7 DEF LockCurrent, Waiting, CallerTypes
  <2>3. \A k \in Links : actor[k] # "closed" => actor'[k] # "closed"
    BY <1>7 DEF LockCurrent, ClientTypes
  <2> QED
    BY <2>1, <2>2, <2>3, OwedUntouched
<1>8. ASSUME NEW c \in Calls, TakeCurrent(c) PROVE (EveryWaiterIsOwed /\ OneEntryEach)'
  <2>1. queue' = queue /\ pending' = pending
    BY <1>8 DEF TakeCurrent
  <2>2. \A d \in Calls : (Waiting(d)' <=> Waiting(d)) /\ (Waiting(d) => link'[d] = link[d])
    BY <1>8 DEF TakeCurrent, Waiting, CallerTypes
  <2>3. \A k \in Links : actor[k] # "closed" => actor'[k] # "closed"
    BY <1>8 DEF TakeCurrent, ClientTypes
  <2> QED
    BY <2>1, <2>2, <2>3, OwedUntouched
<1>9. ASSUME NEW c \in Calls, Reconnect(c) PROVE (EveryWaiterIsOwed /\ OneEntryEach)'
  <2>1. /\ queue' = queue /\ pending' = pending /\ reply' = reply
        /\ pc' = [pc EXCEPT ![c] = "send"] /\ pc[c] = "held"
        /\ actor' = [actor EXCEPT ![current + 1] = "running"]
        /\ link' = [link EXCEPT ![c] = current + 1]
    BY <1>9 DEF Reconnect
  <2>2. \A d \in Calls : (Waiting(d)' <=> Waiting(d)) /\ (Waiting(d) => link'[d] = link[d])
    BY <2>1 DEF Waiting, CallerTypes
  <2>3. \A k \in Links : actor[k] # "closed" => actor'[k] # "closed"
    BY <2>1 DEF ClientTypes
  <2> QED
    BY <2>1, <2>2, <2>3, OwedUntouched
<1>10. ASSUME NEW c \in Calls, ReconnectFails(c) PROVE (EveryWaiterIsOwed /\ OneEntryEach)'
  <2>1. queue' = queue /\ pending' = pending
    BY <1>10 DEF ReconnectFails
  <2>2. \A d \in Calls : (Waiting(d)' <=> Waiting(d)) /\ (Waiting(d) => link'[d] = link[d])
    BY <1>10 DEF ReconnectFails, Waiting, CallerTypes
  <2>3. \A k \in Links : actor[k] # "closed" => actor'[k] # "closed"
    BY <1>10 DEF ReconnectFails, ClientTypes
  <2> QED
    BY <2>1, <2>2, <2>3, OwedUntouched
<1>11. ASSUME NEW l \in Links, ActorWrite(l) PROVE (EveryWaiterIsOwed /\ OneEntryEach)'
  <2> DEFINE c == Head(queue[l])
             e == [id |-> nextId[l], call |-> c]
             q == queue[l]
  <2>1. /\ q \in Seq(Calls) /\ q # <<>> /\ c \in Calls
        /\ Tail(q) \in Seq(Calls) /\ 1 \in DOMAIN q /\ c = q[1]
        /\ \A i \in DOMAIN Tail(q) : i + 1 \in DOMAIN q /\ Tail(q)[i] = q[i + 1] /\ i \in Nat \ {0}
        /\ \A i \in DOMAIN q : i = 1 \/ (i - 1 \in DOMAIN Tail(q) /\ Tail(q)[i - 1] = q[i])
    BY <1>11, TailElems DEF ActorWrite, ClientTypes
  <2>2. /\ queue' = [queue EXCEPT ![l] = Tail(@)]
        /\ pending' = [pending EXCEPT ![l] = {p \in @ : p.id # e.id} \cup {e}]
        /\ UNCHANGED <<pc, reply, link, actor>>
    BY <1>11 DEF ActorWrite
  <2>3. \A p \in pending[l] : p.id # e.id
    BY DEF IdsAreGiven, ClientTypes, Envelope
  <2>4. pending'[l] = pending[l] \cup {e} /\ \A k \in Links \ {l} : pending'[k] = pending[k]
    BY <2>2, <2>3 DEF ClientTypes
  <2>5. e.call = c
    OBVIOUS
  <2> HIDE DEF c, e, q
  <2>6. \A i \in DOMAIN Tail(q) : Tail(q)[i] # c
    BY <2>1 DEF OneEntryEach, q
  <2>7. \A d \in Calls, k \in Links :
          /\ Queued(d, k)' <=> Queued(d, k) /\ ~(d = c /\ k = l)
          /\ Asked(d, k)' <=> Asked(d, k) \/ (d = c /\ k = l)
    <3> TAKE d \in Calls, k \in Links
    <3>1. CASE k # l
      BY <2>2, <2>4, <3>1 DEF Queued, Asked, ClientTypes
    <3>2. CASE k = l
      <4>1. queue'[l] = Tail(q)
        BY <2>2 DEF ClientTypes, q
      <4>2. Queued(d, l)' <=> Queued(d, l) /\ d # c
        BY <4>1, <2>1, <2>6 DEF Queued, q
      <4>3. Asked(d, l)' <=> Asked(d, l) \/ d = c
        BY <2>4, <2>5 DEF Asked
      <4> QED
        BY <3>2, <4>2, <4>3
    <3> QED
      BY <3>1, <3>2
  <2>8. Queued(c, l) /\ \A d \in Calls : Waiting(d)' <=> Waiting(d)
    BY <2>1, <2>2 DEF Queued, Waiting, q
  <2>9. EveryWaiterIsOwed'
    BY <2>1, <2>2, <2>7, <2>8 DEF EveryWaiterIsOwed
  <2>10. \A p \in pending[l] : p.call # c
    BY <2>1, <2>8 DEF EveryWaiterIsOwed, Asked
  <2>11. \A i, j \in DOMAIN Tail(q) : Tail(q)[i] = Tail(q)[j] => i = j
    <3> SUFFICES ASSUME NEW i \in DOMAIN Tail(q), NEW j \in DOMAIN Tail(q), Tail(q)[i] = Tail(q)[j]
                 PROVE  i = j
      OBVIOUS
    <3>1. i + 1 \in DOMAIN q /\ j + 1 \in DOMAIN q /\ q[i + 1] = q[j + 1] /\ i \in Nat /\ j \in Nat
      BY <2>1
    <3>2. i + 1 = j + 1
      BY <3>1 DEF OneEntryEach, q
    <3> QED
      BY <3>1, <3>2
  <2>12. OneEntryEach'
    BY <2>2, <2>4, <2>5, <2>10, <2>11 DEF OneEntryEach, ClientTypes, q
  <2> QED
    BY <2>9, <2>12
<1>12. ASSUME NEW l \in Links, ActorWriteFails(l) PROVE (EveryWaiterIsOwed /\ OneEntryEach)'
  <2> DEFINE c == Head(queue[l])
             q == queue[l]
  <2>1. /\ q \in Seq(Calls) /\ q # <<>> /\ c \in Calls
        /\ Tail(q) \in Seq(Calls) /\ 1 \in DOMAIN q /\ c = q[1]
        /\ \A i \in DOMAIN Tail(q) : i + 1 \in DOMAIN q /\ Tail(q)[i] = q[i + 1] /\ i \in Nat \ {0}
        /\ \A i \in DOMAIN q : i = 1 \/ (i - 1 \in DOMAIN Tail(q) /\ Tail(q)[i - 1] = q[i])
    BY <1>12, TailElems DEF ActorWriteFails, ClientTypes
  <2>2. /\ queue' = [queue EXCEPT ![l] = Tail(@)] /\ pending' = pending
        /\ reply' = [reply EXCEPT ![c] = "lost"] /\ UNCHANGED <<pc, link>>
        /\ actor' = [actor EXCEPT ![l] = "draining"]
    BY <1>12 DEF ActorWriteFails
  <2> HIDE DEF c, q
  <2>3. \A i \in DOMAIN Tail(q) : Tail(q)[i] # c
    BY <2>1 DEF OneEntryEach, q
  <2>4. queue'[l] = Tail(q) /\ \A k \in Links \ {l} : queue'[k] = queue[k]
    BY <2>2 DEF ClientTypes, q
  <2>5. \A d \in Calls, k \in Links :
          /\ Queued(d, k)' <=> Queued(d, k) /\ ~(d = c /\ k = l)
          /\ Asked(d, k)' <=> Asked(d, k)
    <3>0. queue'[l] = Tail(q)
      BY <2>4
    <3>1. ASSUME NEW d \in Calls PROVE Queued(d, l)' <=> Queued(d, l) /\ d # c
      <4>1. ASSUME Queued(d, l)' PROVE Queued(d, l) /\ d # c
        BY <4>1, <3>0, <2>1, <2>3 DEF Queued, q
      <4>2. ASSUME Queued(d, l), d # c PROVE Queued(d, l)'
        <5>1. PICK i \in DOMAIN q : q[i] = d
          BY <4>2 DEF Queued, q
        <5>2. i - 1 \in DOMAIN Tail(q) /\ Tail(q)[i - 1] = d
          BY <5>1, <4>2, <2>1
        <5> QED
          BY <5>2, <3>0 DEF Queued
      <4> QED
        BY <4>1, <4>2
    <3>2. \A d \in Calls, k \in Links \ {l} : Queued(d, k)' <=> Queued(d, k)
      BY <2>4 DEF Queued
    <3>3. \A d \in Calls, k \in Links : Asked(d, k)' <=> Asked(d, k)
      BY <2>2 DEF Asked
    <3> QED
      BY <3>1, <3>2, <3>3
  <2>6. Queued(c, l) /\ \A d \in Calls : Waiting(d)' <=> Waiting(d) /\ d # c
    BY <2>1, <2>2, LinkAssumption DEF Queued, Waiting, q, CallerTypes
  <2>7. \A k \in Links : actor[k] # "closed" => actor'[k] # "closed"
    BY <2>2 DEF ClientTypes
  <2>8. EveryWaiterIsOwed'
    BY <2>1, <2>2, <2>5, <2>6, <2>7 DEF EveryWaiterIsOwed
  <2>9. \A i, j \in DOMAIN Tail(q) : Tail(q)[i] = Tail(q)[j] => i = j
    <3> SUFFICES ASSUME NEW i \in DOMAIN Tail(q), NEW j \in DOMAIN Tail(q), Tail(q)[i] = Tail(q)[j]
                 PROVE  i = j
      OBVIOUS
    <3>1. i + 1 \in DOMAIN q /\ j + 1 \in DOMAIN q /\ q[i + 1] = q[j + 1] /\ i \in Nat /\ j \in Nat
      BY <2>1
    <3>2. i + 1 = j + 1
      BY <3>1 DEF OneEntryEach, q
    <3> QED
      BY <3>1, <3>2
  <2>10. OneEntryEach'
    <3> SUFFICES ASSUME NEW k \in Links
                 PROVE  \A i, j \in DOMAIN queue'[k] : queue'[k][i] = queue'[k][j] => i = j
      BY <2>2 DEF OneEntryEach
    <3>1. CASE k = l
      BY <2>4, <2>9, <3>1
    <3>2. CASE k # l
      BY <2>4, <3>2 DEF OneEntryEach
    <3> QED
      BY <3>1, <3>2
  <2> QED
    BY <2>8, <2>10
<1>13. ASSUME NEW l \in Links, ActorReply(l) PROVE (EveryWaiterIsOwed /\ OneEntryEach)'
  <2> DEFINE a == Head(inbound[l])
  <2>1. /\ pending' = [pending EXCEPT ![l] = {p \in @ : p.id # a.id}]
        /\ reply' = [c \in Calls |->
                       IF \E p \in pending[l] : p.id = a.id /\ p.call = c
                       THEN IF a.ok THEN "answered" ELSE "refused"
                       ELSE reply[c]]
        /\ UNCHANGED <<pc, link, actor, queue>>
    BY <1>13 DEF ActorReply
  <2> HIDE DEF a
  <2> DEFINE hit(c) == \E p \in pending[l] : p.id = a.id /\ p.call = c
  <2>2. pending'[l] = {p \in pending[l] : p.id # a.id} /\ \A k \in Links \ {l} : pending'[k] = pending[k]
    BY <2>1 DEF ClientTypes
  <2>3. \A d \in Calls, k \in Links :
          /\ Queued(d, k)' <=> Queued(d, k)
          /\ Asked(d, k)' <=> Asked(d, k) /\ ~(hit(d) /\ k = l)
    BY <2>1, <2>2 DEF Queued, Asked, OneEntryEach
  <2>4. \A d \in Calls : hit(d) => Asked(d, l)
    BY DEF Asked
  <2>5. \A d \in Calls : Waiting(d)' <=> Waiting(d) /\ ~hit(d)
    BY <2>1, LinkAssumption DEF Waiting, CallerTypes
  <2> HIDE DEF hit
  <2>6. EveryWaiterIsOwed'
    BY <2>1, <2>3, <2>4, <2>5 DEF EveryWaiterIsOwed
  <2>7. OneEntryEach'
    BY <2>1, <2>2 DEF OneEntryEach
  <2> QED
    BY <2>6, <2>7
<1>14. ASSUME NEW l \in Links, ActorEof(l) PROVE (EveryWaiterIsOwed /\ OneEntryEach)'
  <2>1. queue' = queue /\ pending' = pending
    BY <1>14 DEF ActorEof
  <2>2. \A d \in Calls : (Waiting(d)' <=> Waiting(d)) /\ (Waiting(d) => link'[d] = link[d])
    BY <1>14 DEF ActorEof, Waiting, CallerTypes
  <2>3. \A k \in Links : actor[k] # "closed" => actor'[k] # "closed"
    BY <1>14 DEF ActorEof, ClientTypes
  <2> QED
    BY <2>1, <2>2, <2>3, OwedUntouched
<1>15. ASSUME NEW l \in Links, ActorDrain(l) PROVE (EveryWaiterIsOwed /\ OneEntryEach)'
  <2>1. PICK p \in pending[l] :
           /\ pending' = [pending EXCEPT ![l] = @ \ {p}]
           /\ reply' = [reply EXCEPT ![p.call] = "lost"]
    BY <1>15 DEF ActorDrain
  <2>2. UNCHANGED <<pc, link, actor, queue>>
    BY <1>15 DEF ActorDrain
  <2>3. p.call \in Calls /\ Asked(p.call, l)
    BY DEF Asked, ClientTypes, Envelope
  <2>4. pending'[l] = pending[l] \ {p} /\ \A k \in Links \ {l} : pending'[k] = pending[k]
    BY <2>1 DEF ClientTypes
  <2>5. \A d \in Calls, k \in Links :
          /\ Queued(d, k)' <=> Queued(d, k)
          /\ Asked(d, k)' <=> Asked(d, k) /\ ~(d = p.call /\ k = l)
    BY <2>2, <2>4 DEF Queued, Asked, OneEntryEach
  <2>6. \A d \in Calls : Waiting(d)' <=> Waiting(d) /\ d # p.call
    BY <2>1, <2>2, <2>3, LinkAssumption DEF Waiting, CallerTypes
  <2>7. EveryWaiterIsOwed'
    BY <2>2, <2>3, <2>5, <2>6 DEF EveryWaiterIsOwed
  <2>8. OneEntryEach'
    BY <2>2, <2>4 DEF OneEntryEach
  <2> QED
    BY <2>7, <2>8
<1>16. ASSUME NEW l \in Links, ActorDrop(l) PROVE (EveryWaiterIsOwed /\ OneEntryEach)'
  <2>1. /\ queue' = [queue EXCEPT ![l] = <<>>] /\ pending' = pending /\ pending[l] = {}
        /\ reply' = [c \in Calls |-> IF c \in Elems(queue[l]) THEN "lost" ELSE reply[c]]
        /\ actor' = [actor EXCEPT ![l] = "closed"] /\ UNCHANGED <<pc, link>>
    BY <1>16 DEF ActorDrop
  <2>2. queue'[l] = <<>> /\ \A k \in Links \ {l} : queue'[k] = queue[k]
    BY <2>1 DEF ClientTypes
  <2>3. \A d \in Calls, k \in Links :
          /\ Queued(d, k)' <=> Queued(d, k) /\ k # l
          /\ Asked(d, k)' <=> Asked(d, k)
          /\ ~Asked(d, l)
    BY <2>1, <2>2 DEF Queued, Asked
  <2>4. \A d \in Calls : d \in Elems(queue[l]) <=> Queued(d, l)
    BY DEF Elems, Queued
  <2>5. \A d \in Calls : Waiting(d)' <=> Waiting(d) /\ ~Queued(d, l)
    BY <2>1, <2>4, LinkAssumption DEF Waiting, CallerTypes
  <2>6. \A k \in Links \ {l} : actor'[k] = actor[k]
    BY <2>1 DEF ClientTypes
  <2>7. EveryWaiterIsOwed'
    BY <2>1, <2>3, <2>5, <2>6 DEF EveryWaiterIsOwed
  <2>8. OneEntryEach'
    BY <2>1, <2>2 DEF OneEntryEach
  <2> QED
    BY <2>7, <2>8
<1>17. ASSUME NEW l \in Links, DaemonServe(l) PROVE (EveryWaiterIsOwed /\ OneEntryEach)'
  <2>1. queue' = queue /\ pending' = pending
    BY <1>17 DEF DaemonServe
  <2>2. \A d \in Calls : (Waiting(d)' <=> Waiting(d)) /\ (Waiting(d) => link'[d] = link[d])
    BY <1>17 DEF DaemonServe, Waiting, CallerTypes
  <2>3. \A k \in Links : actor[k] # "closed" => actor'[k] # "closed"
    BY <1>17 DEF DaemonServe, ClientTypes
  <2> QED
    BY <2>1, <2>2, <2>3, OwedUntouched
<1>18. ASSUME NEW l \in Links, DaemonAnswer(l) PROVE (EveryWaiterIsOwed /\ OneEntryEach)'
  <2>1. queue' = queue /\ pending' = pending
    BY <1>18 DEF DaemonAnswer
  <2>2. \A d \in Calls : (Waiting(d)' <=> Waiting(d)) /\ (Waiting(d) => link'[d] = link[d])
    BY <1>18 DEF DaemonAnswer, Waiting, CallerTypes
  <2>3. \A k \in Links : actor[k] # "closed" => actor'[k] # "closed"
    BY <1>18 DEF DaemonAnswer, ClientTypes
  <2> QED
    BY <2>1, <2>2, <2>3, OwedUntouched
<1>19. ASSUME NEW l \in Links, DaemonLost(l) PROVE (EveryWaiterIsOwed /\ OneEntryEach)'
  <2>1. queue' = queue /\ pending' = pending
    BY <1>19 DEF DaemonLost
  <2>2. \A d \in Calls : (Waiting(d)' <=> Waiting(d)) /\ (Waiting(d) => link'[d] = link[d])
    BY <1>19 DEF DaemonLost, Waiting, CallerTypes
  <2>3. \A k \in Links : actor[k] # "closed" => actor'[k] # "closed"
    BY <1>19 DEF DaemonLost, ClientTypes
  <2> QED
    BY <2>1, <2>2, <2>3, OwedUntouched
<1>20. CASE UNCHANGED vars
  <2>1. queue' = queue /\ pending' = pending
    BY <1>20 DEF vars
  <2>2. \A d \in Calls : (Waiting(d)' <=> Waiting(d)) /\ (Waiting(d) => link'[d] = link[d])
    BY <1>20 DEF vars, Waiting, CallerTypes
  <2>3. \A k \in Links : actor[k] # "closed" => actor'[k] # "closed"
    BY <1>20 DEF vars, ClientTypes
  <2> QED
    BY <2>1, <2>2, <2>3, OwedUntouched
<1>21. QED
  BY <1>1, <1>2, <1>3, <1>4, <1>5, <1>6, <1>7, <1>8, <1>9, <1>10, <1>11, <1>12, <1>13, <1>14, <1>15, <1>16, <1>17, <1>18, <1>19, <1>20 DEF Next, CallStep, ActorStep

(* Membership in a queue after the two ways it changes. *)
LEMMA QueueElems ==
    ASSUME NEW S, NEW s \in Seq(S)
    PROVE  /\ \A e \in S : Elems(Append(s, e)) = Elems(s) \cup {e}
           /\ s # <<>> => Head(s) \in Elems(s) /\ Elems(Tail(s)) \subseteq Elems(s) /\ Head(s) \in S
           /\ Elems(<<>>) = {}
           /\ Elems(s) \subseteq S
<1>1. ASSUME NEW e \in S PROVE Elems(Append(s, e)) = Elems(s) \cup {e}
  BY AppendElems DEF Elems
<1>2. ASSUME s # <<>> PROVE Head(s) \in Elems(s) /\ Elems(Tail(s)) \subseteq Elems(s) /\ Head(s) \in S
  BY <1>2, TailElems DEF Elems
<1>3. Elems(<<>>) = {} /\ Elems(s) \subseteq S
  BY DEF Elems
<1> QED
  BY <1>1, <1>2, <1>3

(* A step on link l after which everything pending or on its way there was so *)
(* before, under the same id.                                                 *)
LEMMA NothingNew ==
    ASSUME IdsAreGiven, AnswersFindTheirCall, NEW l \in Links, TypeOK,
           \A k \in Links \ {l} : /\ pending'[k] = pending[k] /\ nextId'[k] = nextId[k]
                                  /\ OnItsWay(k)' = OnItsWay(k),
           pending'[l] \subseteq pending[l],
           nextId'[l] \in {nextId[l], nextId[l] + 1},
           \A r \in OnItsWay(l)' : \E q \in OnItsWay(l) : q.id = r.id /\ q.call = r.call,
           \A r \in pending[l] \cup OnItsWay(l) : r.id \in Nat
    PROVE  (IdsAreGiven /\ AnswersFindTheirCall)'
<1>1. nextId[l] \in Nat
  BY DEF TypeOK, ClientTypes
<1>2. IdsAreGiven'
  BY <1>1 DEF IdsAreGiven
<1>3. AnswersFindTheirCall'
  BY DEF AnswersFindTheirCall
<1> QED
  BY <1>2, <1>3

LEMMA SeenIds ==
    ASSUME TypeOK, NEW l \in Links
    PROVE  \A r \in pending[l] \cup OnItsWay(l) : r.id \in Nat /\ r.call \in Calls
<1>1. Elems(wire[l]) \subseteq Envelope /\ Elems(inbound[l]) \subseteq Answer \cup {Eof}
  BY QueueElems DEF TypeOK, DaemonTypes
<1> QED
  BY <1>1 DEF TypeOK, ClientTypes, DaemonTypes, OnItsWay, Envelope, Answer

(* Ids are given once on a link, and keep their call all the way. *)
LEMMA IdsStep ==
    ASSUME TypeOK, IdsAreGiven, AnswersFindTheirCall, [Next]_vars
    PROVE  (IdsAreGiven /\ AnswersFindTheirCall)'
<1> USE LinkAssumption DEF client, daemon, caller, vars
<1>1. ASSUME NEW c \in Calls, Ask(c) PROVE (IdsAreGiven /\ AnswersFindTheirCall)'
  <2>1. UNCHANGED <<pending, nextId, wire, serving, inbound>>
    BY <1>1 DEF Ask
  <2> QED
    BY <2>1 DEF IdsAreGiven, AnswersFindTheirCall, OnItsWay
<1>2. ASSUME NEW c \in Calls, ReadCurrent(c) PROVE (IdsAreGiven /\ AnswersFindTheirCall)'
  <2>1. UNCHANGED <<pending, nextId, wire, serving, inbound>>
    BY <1>2 DEF ReadCurrent
  <2> QED
    BY <2>1 DEF IdsAreGiven, AnswersFindTheirCall, OnItsWay
<1>3. ASSUME NEW c \in Calls, Send(c) PROVE (IdsAreGiven /\ AnswersFindTheirCall)'
  <2>1. UNCHANGED <<pending, nextId, wire, serving, inbound>>
    BY <1>3 DEF Send
  <2> QED
    BY <2>1 DEF IdsAreGiven, AnswersFindTheirCall, OnItsWay
<1>4. ASSUME NEW c \in Calls, SendFails(c) PROVE (IdsAreGiven /\ AnswersFindTheirCall)'
  <2>1. UNCHANGED <<pending, nextId, wire, serving, inbound>>
    BY <1>4 DEF SendFails
  <2> QED
    BY <2>1 DEF IdsAreGiven, AnswersFindTheirCall, OnItsWay
<1>5. ASSUME NEW c \in Calls, Return(c) PROVE (IdsAreGiven /\ AnswersFindTheirCall)'
  <2>1. UNCHANGED <<pending, nextId, wire, serving, inbound>>
    BY <1>5 DEF Return
  <2> QED
    BY <2>1 DEF IdsAreGiven, AnswersFindTheirCall, OnItsWay
<1>6. ASSUME NEW c \in Calls, Fail(c) PROVE (IdsAreGiven /\ AnswersFindTheirCall)'
  <2>1. UNCHANGED <<pending, nextId, wire, serving, inbound>>
    BY <1>6 DEF Fail
  <2> QED
    BY <2>1 DEF IdsAreGiven, AnswersFindTheirCall, OnItsWay
<1>7. ASSUME NEW c \in Calls, LockCurrent(c) PROVE (IdsAreGiven /\ AnswersFindTheirCall)'
  <2>1. UNCHANGED <<pending, nextId, wire, serving, inbound>>
    BY <1>7 DEF LockCurrent
  <2> QED
    BY <2>1 DEF IdsAreGiven, AnswersFindTheirCall, OnItsWay
<1>8. ASSUME NEW c \in Calls, TakeCurrent(c) PROVE (IdsAreGiven /\ AnswersFindTheirCall)'
  <2>1. UNCHANGED <<pending, nextId, wire, serving, inbound>>
    BY <1>8 DEF TakeCurrent
  <2> QED
    BY <2>1 DEF IdsAreGiven, AnswersFindTheirCall, OnItsWay
<1>9. ASSUME NEW c \in Calls, Reconnect(c) PROVE (IdsAreGiven /\ AnswersFindTheirCall)'
  <2>1. UNCHANGED <<pending, nextId, wire, serving, inbound>>
    BY <1>9 DEF Reconnect
  <2> QED
    BY <2>1 DEF IdsAreGiven, AnswersFindTheirCall, OnItsWay
<1>10. ASSUME NEW c \in Calls, ReconnectFails(c) PROVE (IdsAreGiven /\ AnswersFindTheirCall)'
  <2>1. UNCHANGED <<pending, nextId, wire, serving, inbound>>
    BY <1>10 DEF ReconnectFails
  <2> QED
    BY <2>1 DEF IdsAreGiven, AnswersFindTheirCall, OnItsWay
<1>11. ASSUME NEW l \in Links, ActorWrite(l) PROVE (IdsAreGiven /\ AnswersFindTheirCall)'
  <2> DEFINE e == [id |-> nextId[l], call |-> Head(queue[l])]
  <2>1. /\ wire' = [wire EXCEPT ![l] = Append(@, e)]
        /\ pending' = [pending EXCEPT ![l] = {p \in @ : p.id # e.id} \cup {e}]
        /\ nextId' = [nextId EXCEPT ![l] = @ + 1] /\ UNCHANGED <<serving, inbound>>
    BY <1>11 DEF ActorWrite
  <2>2. nextId[l] \in Nat /\ e.id = nextId[l] /\ e \in Envelope
    BY <1>11, TailElems DEF ActorWrite, Envelope, TypeOK, ClientTypes
  <2> HIDE DEF e
  <2>3. /\ wire'[l] = Append(wire[l], e) /\ nextId'[l] = nextId[l] + 1
        /\ pending'[l] \subseteq pending[l] \cup {e}
    BY <2>1 DEF TypeOK, ClientTypes, DaemonTypes
  <2>4. \A k \in Links \ {l} : OnItsWay(k)' = OnItsWay(k) /\ pending'[k] = pending[k] /\ nextId'[k] = nextId[k]
    BY <2>1 DEF OnItsWay, TypeOK, ClientTypes, DaemonTypes
  <2>5. OnItsWay(l)' = OnItsWay(l) \cup {e}
    <3>1. Elems(wire'[l]) = Elems(wire[l]) \cup {e}
      BY <2>2, <2>3, QueueElems DEF TypeOK, DaemonTypes
    <3> QED
      BY <2>1, <3>1, <2>2, LinkAssumption DEF OnItsWay
  <2>6. \A r \in pending[l] \cup OnItsWay(l) : r.id \in Nat /\ r.id < nextId[l]
    BY SeenIds DEF IdsAreGiven
  <2>7. IdsAreGiven'
    BY <2>2, <2>3, <2>4, <2>5, <2>6 DEF IdsAreGiven
  <2>8. AnswersFindTheirCall'
    BY <2>2, <2>3, <2>4, <2>5, <2>6 DEF AnswersFindTheirCall
  <2> QED
    BY <2>7, <2>8
<1>12. ASSUME NEW l \in Links, ActorWriteFails(l) PROVE (IdsAreGiven /\ AnswersFindTheirCall)'
  <2>1. pending'[l] = pending[l] /\ nextId'[l] = nextId[l] + 1 /\ UNCHANGED <<wire, serving, inbound>>
    BY <1>12 DEF ActorWriteFails, TypeOK, ClientTypes, DaemonTypes
  <2>2. \A k \in Links \ {l} : OnItsWay(k)' = OnItsWay(k) /\ pending'[k] = pending[k] /\ nextId'[k] = nextId[k]
    BY <1>12 DEF ActorWriteFails, OnItsWay, TypeOK, ClientTypes, DaemonTypes
  <2>3. \A r \in OnItsWay(l)' : \E q \in OnItsWay(l) : q.id = r.id /\ q.call = r.call
    BY <2>1 DEF OnItsWay
  <2> QED
    BY <2>1, <2>2, <2>3, NothingNew, SeenIds
<1>13. ASSUME NEW l \in Links, ActorReply(l) PROVE (IdsAreGiven /\ AnswersFindTheirCall)'
  <2>1. pending'[l] \subseteq pending[l] /\ nextId'[l] = nextId[l] /\ inbound'[l] = Tail(inbound[l]) /\ UNCHANGED <<wire, serving>>
    BY <1>13 DEF ActorReply, TypeOK, ClientTypes, DaemonTypes
  <2>2. \A k \in Links \ {l} : OnItsWay(k)' = OnItsWay(k) /\ pending'[k] = pending[k] /\ nextId'[k] = nextId[k]
    BY <1>13 DEF ActorReply, OnItsWay, TypeOK, ClientTypes, DaemonTypes
  <2>3. \A r \in OnItsWay(l)' : \E q \in OnItsWay(l) : q.id = r.id /\ q.call = r.call
    <3>1. Elems(Tail(inbound[l])) \subseteq Elems(inbound[l])
      BY <1>13, QueueElems DEF ActorReply, TypeOK, DaemonTypes
    <3> QED
      BY <2>1, <3>1 DEF OnItsWay
  <2> QED
    BY <2>1, <2>2, <2>3, NothingNew, SeenIds
<1>14. ASSUME NEW l \in Links, ActorEof(l) PROVE (IdsAreGiven /\ AnswersFindTheirCall)'
  <2>1. pending'[l] = pending[l] /\ nextId'[l] = nextId[l] /\ inbound'[l] = Tail(inbound[l]) /\ UNCHANGED <<wire, serving>>
    BY <1>14 DEF ActorEof, TypeOK, ClientTypes, DaemonTypes
  <2>2. \A k \in Links \ {l} : OnItsWay(k)' = OnItsWay(k) /\ pending'[k] = pending[k] /\ nextId'[k] = nextId[k]
    BY <1>14 DEF ActorEof, OnItsWay, TypeOK, ClientTypes, DaemonTypes
  <2>3. \A r \in OnItsWay(l)' : \E q \in OnItsWay(l) : q.id = r.id /\ q.call = r.call
    <3>1. Elems(Tail(inbound[l])) \subseteq Elems(inbound[l])
      BY <1>14, QueueElems DEF ActorEof, TypeOK, DaemonTypes
    <3> QED
      BY <2>1, <3>1 DEF OnItsWay
  <2> QED
    BY <2>1, <2>2, <2>3, NothingNew, SeenIds
<1>15. ASSUME NEW l \in Links, ActorDrain(l) PROVE (IdsAreGiven /\ AnswersFindTheirCall)'
  <2>1. pending'[l] \subseteq pending[l] /\ nextId'[l] = nextId[l] /\ UNCHANGED <<wire, serving, inbound>>
    BY <1>15 DEF ActorDrain, TypeOK, ClientTypes, DaemonTypes
  <2>2. \A k \in Links \ {l} : OnItsWay(k)' = OnItsWay(k) /\ pending'[k] = pending[k] /\ nextId'[k] = nextId[k]
    BY <1>15 DEF ActorDrain, OnItsWay, TypeOK, ClientTypes, DaemonTypes
  <2>3. \A r \in OnItsWay(l)' : \E q \in OnItsWay(l) : q.id = r.id /\ q.call = r.call
    BY <2>1 DEF OnItsWay
  <2> QED
    BY <2>1, <2>2, <2>3, NothingNew, SeenIds
<1>16. ASSUME NEW l \in Links, ActorDrop(l) PROVE (IdsAreGiven /\ AnswersFindTheirCall)'
  <2>1. UNCHANGED <<pending, nextId, wire, serving, inbound>>
    BY <1>16 DEF ActorDrop
  <2> QED
    BY <2>1 DEF IdsAreGiven, AnswersFindTheirCall, OnItsWay
<1>17. ASSUME NEW l \in Links, DaemonServe(l) PROVE (IdsAreGiven /\ AnswersFindTheirCall)'
  <2>1. /\ pending'[l] = pending[l] /\ nextId'[l] = nextId[l] /\ inbound' = inbound
        /\ serving'[l] = Head(wire[l]) /\ wire'[l] = Tail(wire[l])
    BY <1>17 DEF DaemonServe, TypeOK, ClientTypes, DaemonTypes
  <2>2. \A k \in Links \ {l} : OnItsWay(k)' = OnItsWay(k) /\ pending'[k] = pending[k] /\ nextId'[k] = nextId[k]
    BY <1>17 DEF DaemonServe, OnItsWay, TypeOK, ClientTypes, DaemonTypes
  <2>3. \A r \in OnItsWay(l)' : \E q \in OnItsWay(l) : q.id = r.id /\ q.call = r.call
    <3>1. Head(wire[l]) \in Elems(wire[l]) /\ Elems(Tail(wire[l])) \subseteq Elems(wire[l])
      BY <1>17, QueueElems DEF DaemonServe, TypeOK, DaemonTypes
    <3> QED
      BY <2>1, <3>1 DEF OnItsWay
  <2> QED
    BY <2>1, <2>2, <2>3, NothingNew, SeenIds
<1>18. ASSUME NEW l \in Links, DaemonAnswer(l) PROVE (IdsAreGiven /\ AnswersFindTheirCall)'
  <2>1. PICK ok \in BOOLEAN :
           inbound' = [inbound EXCEPT ![l] =
              Append(@, [id |-> serving[l].id, call |-> serving[l].call, ok |-> ok])]
    BY <1>18 DEF DaemonAnswer
  <2> DEFINE a == [id |-> serving[l].id, call |-> serving[l].call, ok |-> ok]
  <2>2. /\ UNCHANGED <<pending, nextId, wire>> /\ serving' = [serving EXCEPT ![l] = None]
        /\ serving[l] # None /\ serving[l] \in Envelope
    BY <1>18 DEF DaemonAnswer, TypeOK, DaemonTypes
  <2>3. a \in Answer /\ a.id = serving[l].id /\ a.call = serving[l].call
    BY <2>2 DEF Answer, Envelope
  <2> HIDE DEF a
  <2>4. /\ inbound'[l] = Append(inbound[l], a) /\ serving'[l] = None
        /\ \A k \in Links \ {l} : inbound'[k] = inbound[k] /\ serving'[k] = serving[k]
    BY <2>1, <2>2 DEF a, TypeOK, DaemonTypes
  <2>5. Elems(inbound'[l]) = Elems(inbound[l]) \cup {a}
    <3>1. inbound[l] \in Seq(Answer \cup {Eof}) /\ a \in Answer \cup {Eof}
      BY <2>3 DEF TypeOK, DaemonTypes
    <3> QED
      BY <2>4, <3>1, QueueElems
  <2>6. \A k \in Links \ {l} : OnItsWay(k)' = OnItsWay(k)
    BY <2>2, <2>4 DEF OnItsWay
  <2>7. \A r \in OnItsWay(l)' : \E q \in OnItsWay(l) : q.id = r.id /\ q.call = r.call
    BY <2>2, <2>3, <2>4, <2>5 DEF OnItsWay
  <2> QED
    BY <2>2, <2>6, <2>7, NothingNew, SeenIds
<1>19. ASSUME NEW l \in Links, DaemonLost(l) PROVE (IdsAreGiven /\ AnswersFindTheirCall)'
  <2>1. /\ pending'[l] = pending[l] /\ nextId'[l] = nextId[l]
        /\ inbound'[l] = Append(inbound[l], Eof) /\ serving'[l] = None /\ wire'[l] = <<>>
    BY <1>19 DEF DaemonLost, TypeOK, ClientTypes, DaemonTypes
  <2>2. \A k \in Links \ {l} : OnItsWay(k)' = OnItsWay(k) /\ pending'[k] = pending[k] /\ nextId'[k] = nextId[k]
    BY <1>19 DEF DaemonLost, OnItsWay, TypeOK, ClientTypes, DaemonTypes
  <2>3. \A r \in OnItsWay(l)' : \E q \in OnItsWay(l) : q.id = r.id /\ q.call = r.call
    <3>0. inbound[l] \in Seq(Answer \cup {Eof}) /\ Eof \in Answer \cup {Eof}
      BY DEF TypeOK, DaemonTypes
    <3>1. Elems(Append(inbound[l], Eof)) = Elems(inbound[l]) \cup {Eof} /\ Elems(<<>>) = {}
      BY <3>0, QueueElems
    <3> QED
      BY <2>1, <3>1 DEF OnItsWay
  <2> QED
    BY <2>1, <2>2, <2>3, NothingNew, SeenIds
<1>20. CASE UNCHANGED vars
  <2>1. UNCHANGED <<pending, nextId, wire, serving, inbound>>
    BY <1>20 DEF vars
  <2> QED
    BY <2>1 DEF IdsAreGiven, AnswersFindTheirCall, OnItsWay
<1>21. QED
  BY <1>1, <1>2, <1>3, <1>4, <1>5, <1>6, <1>7, <1>8, <1>9, <1>10, <1>11, <1>12, <1>13, <1>14, <1>15, <1>16, <1>17, <1>18, <1>19, <1>20 DEF Next, CallStep, ActorStep

(* A step that writes and carries out nothing, and lets nobody send who has    *)
(* written on its link.                                                        *)
LEMMA FreshUntouched ==
    ASSUME RequestsAreFresh, wire' = wire, carried' = carried,
           \A d \in Calls, k \in Links : Queued(d, k)' => Queued(d, k) \/ ~Written(d, k),
           \A d \in Calls : \/ link'[d] = link[d] /\ (pc'[d] = "send" => pc[d] = "send")
                            \/ \A k \in Links : Written(d, k) => k < link'[d] /\ k <= link'[d]
    PROVE  RequestsAreFresh'
<1>1. \A d \in Calls, k \in Links : Written(d, k)' <=> Written(d, k)
  BY DEF Written
<1>2. ASSUME NEW d \in Calls, NEW k \in Links, Written(d, k)
      PROVE  k <= link'[d] /\ (pc'[d] = "send" => k < link'[d])
  <2>1. CASE link'[d] = link[d] /\ (pc'[d] = "send" => pc[d] = "send")
    BY <1>2, <2>1 DEF RequestsAreFresh
  <2>2. CASE \A j \in Links : Written(d, j) => j < link'[d] /\ j <= link'[d]
    BY <1>2, <2>2
  <2> QED
    BY <2>1, <2>2
<1>3. ASSUME NEW d \in Calls, NEW k \in Links, Queued(d, k)' PROVE ~Written(d, k)'
  BY <1>1, <1>3 DEF RequestsAreFresh
<1>4. \A l \in Links : \A i \in DOMAIN wire'[l] :
          /\ <<wire'[l][i].call, l>> \notin carried'
          /\ \A j \in DOMAIN wire'[l] : wire'[l][i].call = wire'[l][j].call => i = j
  BY DEF RequestsAreFresh
<1> QED
  BY <1>1, <1>2, <1>3, <1>4 DEF RequestsAreFresh

(* A call writes on a link once: it comes to a new link only when the old one is closed. *)
LEMMA FreshStep ==
    ASSUME TypeOK, HandlesAgree, UnbornIsEmpty, OneEntryEach, EveryWaiterIsOwed, RequestsAreFresh, [Next]_vars
    PROVE  RequestsAreFresh'
<1> USE LinkAssumption DEF client, daemon, caller, vars
<1>1. ASSUME NEW c \in Calls, Ask(c) PROVE RequestsAreFresh'
  <2>1. wire' = wire /\ carried' = carried /\ queue' = queue
    BY <1>1 DEF Ask
  <2>2. \A d \in Calls : link'[d] = link[d] /\ (pc'[d] = "send" => pc[d] = "send")
    BY <1>1 DEF Ask, TypeOK, CallerTypes
  <2> QED
    BY <2>1, <2>2, FreshUntouched DEF Queued
<1>2. ASSUME NEW c \in Calls, ReadCurrent(c) PROVE RequestsAreFresh'
  <2>1. wire' = wire /\ carried' = carried /\ queue' = queue
    BY <1>2 DEF ReadCurrent
  <2>2. \A d \in Calls \ {c} : link'[d] = link[d] /\ pc'[d] = pc[d]
    BY <1>2 DEF ReadCurrent, TypeOK, CallerTypes
  <2>3. \A k \in Links : Written(c, k) => k < link'[c] /\ k <= link'[c]
    <3>1. \A k \in Links : Written(c, k) => k <= link[c]
      BY DEF RequestsAreFresh
    <3>2. link[c] \in Nat /\ link'[c] \in Nat /\ link[c] < link'[c]
      BY <1>2 DEF ReadCurrent, IsClosed, HandlesAgree, TypeOK, CallerTypes, Links
    <3> QED
      BY <3>1, <3>2 DEF Links
  <2> QED
    BY <2>1, <2>2, <2>3, FreshUntouched DEF Queued
<1>3. ASSUME NEW c \in Calls, Send(c) PROVE RequestsAreFresh'
  <2> DEFINE m == link[c]
  <2>1. /\ wire' = wire /\ carried' = carried /\ link' = link /\ pc[c] = "send"
        /\ queue' = [queue EXCEPT ![m] = Append(@, c)] /\ pc' = [pc EXCEPT ![c] = "wait"]
    BY <1>3 DEF Send
  <2>2. m \in Links /\ queue[m] \in Seq(Calls)
    BY <1>3 DEF Send, HandlesAgree, TypeOK, CallerTypes, ClientTypes, Links
  <2>3. ~Written(c, m)
    BY <2>1, <2>2 DEF RequestsAreFresh, Links
  <2>4. \A d \in Calls : link'[d] = link[d] /\ (pc'[d] = "send" => pc[d] = "send")
    BY <2>1 DEF TypeOK, CallerTypes
  <2> HIDE DEF m
  <2>5. \A d \in Calls, k \in Links : Queued(d, k)' => Queued(d, k) \/ (d = c /\ k = m)
    BY <2>1, <2>2, AppendElems DEF Queued, TypeOK, ClientTypes
  <2> QED
    BY <2>1, <2>3, <2>4, <2>5, FreshUntouched
<1>4. ASSUME NEW c \in Calls, SendFails(c) PROVE RequestsAreFresh'
  <2>1. wire' = wire /\ carried' = carried /\ queue' = queue
    BY <1>4 DEF SendFails
  <2>2. \A d \in Calls : link'[d] = link[d] /\ (pc'[d] = "send" => pc[d] = "send")
    BY <1>4 DEF SendFails, TypeOK, CallerTypes
  <2> QED
    BY <2>1, <2>2, FreshUntouched DEF Queued
<1>5. ASSUME NEW c \in Calls, Return(c) PROVE RequestsAreFresh'
  <2>1. wire' = wire /\ carried' = carried /\ queue' = queue
    BY <1>5 DEF Return
  <2>2. \A d \in Calls : link'[d] = link[d] /\ (pc'[d] = "send" => pc[d] = "send")
    BY <1>5 DEF Return, TypeOK, CallerTypes
  <2> QED
    BY <2>1, <2>2, FreshUntouched DEF Queued
<1>6. ASSUME NEW c \in Calls, Fail(c) PROVE RequestsAreFresh'
  <2>1. wire' = wire /\ carried' = carried /\ queue' = queue
    BY <1>6 DEF Fail
  <2>2. \A d \in Calls : link'[d] = link[d] /\ (pc'[d] = "send" => pc[d] = "send")
    BY <1>6 DEF Fail, TypeOK, CallerTypes
  <2> QED
    BY <2>1, <2>2, FreshUntouched DEF Queued
<1>7. ASSUME NEW c \in Calls, LockCurrent(c) PROVE RequestsAreFresh'
  <2>1. wire' = wire /\ carried' = carried /\ queue' = queue
    BY <1>7 DEF LockCurrent
  <2>2. \A d \in Calls : link'[d] = link[d] /\ (pc'[d] = "send" => pc[d] = "send")
    BY <1>7 DEF LockCurrent, TypeOK, CallerTypes
  <2> QED
    BY <2>1, <2>2, FreshUntouched DEF Queued
<1>8. ASSUME NEW c \in Calls, TakeCurrent(c) PROVE RequestsAreFresh'
  <2>1. wire' = wire /\ carried' = carried /\ queue' = queue
    BY <1>8 DEF TakeCurrent
  <2>2. \A d \in Calls \ {c} : link'[d] = link[d] /\ pc'[d] = pc[d]
    BY <1>8 DEF TakeCurrent, TypeOK, CallerTypes
  <2>3. \A k \in Links : Written(c, k) => k < link'[c] /\ k <= link'[c]
    <3>1. \A k \in Links : Written(c, k) => k <= link[c]
      BY DEF RequestsAreFresh
    <3>2. link[c] \in Nat /\ link'[c] \in Nat /\ link[c] < link'[c]
      BY <1>8 DEF TakeCurrent, IsClosed, HandlesAgree, TypeOK, CallerTypes, Links
    <3> QED
      BY <3>1, <3>2 DEF Links
  <2> QED
    BY <2>1, <2>2, <2>3, FreshUntouched DEF Queued
<1>9. ASSUME NEW c \in Calls, Reconnect(c) PROVE RequestsAreFresh'
  <2>1. wire' = wire /\ carried' = carried /\ queue' = queue
    BY <1>9 DEF Reconnect
  <2>2. \A d \in Calls \ {c} : link'[d] = link[d] /\ pc'[d] = pc[d]
    BY <1>9 DEF Reconnect, TypeOK, CallerTypes
  <2>3. \A k \in Links : Written(c, k) => k < link'[c] /\ k <= link'[c]
    <3>1. \A k \in Links : Written(c, k) => k <= link[c]
      BY DEF RequestsAreFresh
    <3>2. link[c] \in Nat /\ link'[c] \in Nat /\ link[c] < link'[c]
      BY <1>9 DEF Reconnect, IsClosed, HandlesAgree, TypeOK, CallerTypes, Links
    <3> QED
      BY <3>1, <3>2 DEF Links
  <2> QED
    BY <2>1, <2>2, <2>3, FreshUntouched DEF Queued
<1>10. ASSUME NEW c \in Calls, ReconnectFails(c) PROVE RequestsAreFresh'
  <2>1. wire' = wire /\ carried' = carried /\ queue' = queue
    BY <1>10 DEF ReconnectFails
  <2>2. \A d \in Calls : link'[d] = link[d] /\ (pc'[d] = "send" => pc[d] = "send")
    BY <1>10 DEF ReconnectFails, TypeOK, CallerTypes
  <2> QED
    BY <2>1, <2>2, FreshUntouched DEF Queued
<1>11. ASSUME NEW l \in Links, ActorWrite(l) PROVE RequestsAreFresh'
  <2> DEFINE c == Head(queue[l])
             e == [id |-> nextId[l], call |-> c]
  <2>1. /\ wire' = [wire EXCEPT ![l] = Append(@, e)] /\ carried' = carried
        /\ queue' = [queue EXCEPT ![l] = Tail(@)] /\ link' = link /\ pc' = pc
    BY <1>11 DEF ActorWrite
  <2>2. c \in Calls /\ e.call = c /\ e \in Envelope /\ Queued(c, l)
    BY <1>11, TailElems DEF ActorWrite, Envelope, Queued, TypeOK, ClientTypes
  <2>3. \A d \in Calls, k \in Links : Queued(d, k)' => Queued(d, k) /\ ~(d = c /\ k = l)
    <3>1. \A d \in Calls, k \in Links \ {l} : Queued(d, k)' => Queued(d, k)
      BY <2>1 DEF Queued, TypeOK, ClientTypes
    <3>2. /\ queue'[l] = Tail(queue[l]) /\ c = queue[l][1] /\ 1 \in DOMAIN queue[l]
          /\ \A i \in DOMAIN Tail(queue[l]) :
                i + 1 \in DOMAIN queue[l] /\ Tail(queue[l])[i] = queue[l][i + 1] /\ i \in Nat \ {0}
      BY <1>11, <2>1, TailElems DEF ActorWrite, TypeOK, ClientTypes
    <3>3. \A i \in DOMAIN Tail(queue[l]) : Tail(queue[l])[i] # c
      <4> SUFFICES ASSUME NEW i \in DOMAIN Tail(queue[l]), Tail(queue[l])[i] = c PROVE FALSE
        OBVIOUS
      <4>1. i + 1 \in DOMAIN queue[l] /\ queue[l][i + 1] = queue[l][1] /\ i \in Nat \ {0}
        BY <3>2
      <4>2. i + 1 = 1
        BY <3>2, <4>1 DEF OneEntryEach
      <4> QED
        BY <4>1, <4>2
    <3>4. ASSUME NEW d \in Calls, Queued(d, l)' PROVE Queued(d, l) /\ d # c
      <4>1. PICK i \in DOMAIN Tail(queue[l]) : Tail(queue[l])[i] = d
        BY <3>2, <3>4 DEF Queued
      <4> QED
        BY <4>1, <3>2, <3>3 DEF Queued
    <3> TAKE d \in Calls, k \in Links
    <3>5. CASE k = l
      BY <3>4, <3>5
    <3>6. CASE k # l
      BY <3>1, <3>6
    <3> QED
      BY <3>5, <3>6
  <2> HIDE DEF c, e
  <2>4. wire'[l] = Append(wire[l], e) /\ \A k \in Links \ {l} : wire'[k] = wire[k]
    BY <2>1 DEF TypeOK, DaemonTypes
  <2>5. \A d \in Calls, k \in Links : Written(d, k)' <=> Written(d, k) \/ (d = c /\ k = l)
    <3>1. Elems(wire'[l]) = Elems(wire[l]) \cup {e}
      BY <2>2, <2>4, QueueElems DEF TypeOK, DaemonTypes
    <3> QED
      BY <2>1, <2>2, <2>4, <3>1 DEF Written
  <2>6. ~Written(c, l) /\ link[c] = l /\ pc[c] = "wait"
    BY <2>2 DEF RequestsAreFresh, EveryWaiterIsOwed, Waiting
  <2>7. \A d \in Calls, k \in Links :
          /\ Written(d, k)' => k <= link'[d] /\ (pc'[d] = "send" => k < link'[d])
          /\ Queued(d, k)' => ~Written(d, k)'
    BY <2>1, <2>3, <2>5, <2>6 DEF RequestsAreFresh, Links
  <2>8. \A k \in Links : \A i \in DOMAIN wire'[k] :
          /\ <<wire'[k][i].call, k>> \notin carried'
          /\ \A j \in DOMAIN wire'[k] : wire'[k][i].call = wire'[k][j].call => i = j
    <3> SUFFICES ASSUME NEW k \in Links, NEW i \in DOMAIN wire'[k]
                 PROVE  /\ <<wire'[k][i].call, k>> \notin carried'
                        /\ \A j \in DOMAIN wire'[k] : wire'[k][i].call = wire'[k][j].call => i = j
      OBVIOUS
    <3>1. CASE k # l
      BY <2>1, <2>4, <3>1 DEF RequestsAreFresh
    <3>2. CASE k = l
      <4>1. /\ \A m \in DOMAIN wire[l] : wire[l][m].call # c
            /\ <<c, l>> \notin carried
        BY <2>6 DEF Written, Elems
      <4>2. wire[l] \in Seq(Envelope)
        BY DEF TypeOK, DaemonTypes
      <4>3. \A m \in DOMAIN wire'[l] : wire'[l][m] = e \/ (m \in DOMAIN wire[l] /\ wire'[l][m] = wire[l][m])
        BY <2>2, <2>4, <4>2, AppendElems
      <4>4. \A m, n \in DOMAIN wire'[l] : wire'[l][m] = e /\ wire'[l][n] = e => m = n
        BY <2>2, <2>4, <4>1, <4>2, AppendElems
      <4> QED
        BY <2>1, <2>2, <3>2, <4>1, <4>3, <4>4 DEF RequestsAreFresh
    <3> QED
      BY <3>1, <3>2
  <2> QED
    BY <2>7, <2>8 DEF RequestsAreFresh
<1>12. ASSUME NEW l \in Links, ActorWriteFails(l) PROVE RequestsAreFresh'
  <2>1. /\ wire' = wire /\ carried' = carried /\ link' = link /\ pc' = pc
        /\ queue' = [queue EXCEPT ![l] = Tail(@)]
    BY <1>12 DEF ActorWriteFails
  <2>2. \A d \in Calls, k \in Links : Queued(d, k)' => Queued(d, k)
    BY <1>12, <2>1, TailElems DEF ActorWriteFails, Queued, TypeOK, ClientTypes
  <2> QED
    BY <2>1, <2>2, FreshUntouched
<1>13. ASSUME NEW l \in Links, ActorReply(l) PROVE RequestsAreFresh'
  <2>1. wire' = wire /\ carried' = carried /\ queue' = queue
    BY <1>13 DEF ActorReply
  <2>2. \A d \in Calls : link'[d] = link[d] /\ (pc'[d] = "send" => pc[d] = "send")
    BY <1>13 DEF ActorReply, TypeOK, CallerTypes
  <2> QED
    BY <2>1, <2>2, FreshUntouched DEF Queued
<1>14. ASSUME NEW l \in Links, ActorEof(l) PROVE RequestsAreFresh'
  <2>1. wire' = wire /\ carried' = carried /\ queue' = queue
    BY <1>14 DEF ActorEof
  <2>2. \A d \in Calls : link'[d] = link[d] /\ (pc'[d] = "send" => pc[d] = "send")
    BY <1>14 DEF ActorEof, TypeOK, CallerTypes
  <2> QED
    BY <2>1, <2>2, FreshUntouched DEF Queued
<1>15. ASSUME NEW l \in Links, ActorDrain(l) PROVE RequestsAreFresh'
  <2>1. wire' = wire /\ carried' = carried /\ queue' = queue
    BY <1>15 DEF ActorDrain
  <2>2. \A d \in Calls : link'[d] = link[d] /\ (pc'[d] = "send" => pc[d] = "send")
    BY <1>15 DEF ActorDrain, TypeOK, CallerTypes
  <2> QED
    BY <2>1, <2>2, FreshUntouched DEF Queued
<1>16. ASSUME NEW l \in Links, ActorDrop(l) PROVE RequestsAreFresh'
  <2>1. /\ wire' = wire /\ carried' = carried /\ link' = link /\ pc' = pc
        /\ queue' = [queue EXCEPT ![l] = <<>>]
    BY <1>16 DEF ActorDrop
  <2>2. \A d \in Calls, k \in Links : Queued(d, k)' => Queued(d, k)
    BY <1>16, <2>1, TailElems DEF ActorDrop, Queued, TypeOK, ClientTypes
  <2> QED
    BY <2>1, <2>2, FreshUntouched
<1>17. ASSUME NEW l \in Links, DaemonServe(l) PROVE RequestsAreFresh'
  <2> DEFINE d == Head(wire[l]).call
             w == wire[l]
  <2>1. /\ wire' = [wire EXCEPT ![l] = Tail(@)] /\ carried' = carried \cup {<<d, l>>}
        /\ queue' = queue /\ link' = link /\ pc' = pc
    BY <1>17 DEF DaemonServe
  <2>2. /\ Head(w) = w[1] /\ 1 \in DOMAIN w /\ Head(w) \in Elems(w) /\ Elems(Tail(w)) \subseteq Elems(w)
        /\ \A i \in DOMAIN Tail(w) : i + 1 \in DOMAIN w /\ Tail(w)[i] = w[i + 1] /\ i \in Nat \ {0}
    BY <1>17, TailElems, QueueElems DEF DaemonServe, TypeOK, DaemonTypes
  <2>3. wire'[l] = Tail(w) /\ \A k \in Links \ {l} : wire'[k] = wire[k]
    BY <2>1 DEF TypeOK, DaemonTypes
  <2>4. \A c \in Calls, k \in Links : Written(c, k)' => Written(c, k)
    BY <2>1, <2>2, <2>3 DEF Written
  <2>5. \A c \in Calls, k \in Links : Queued(c, k)' <=> Queued(c, k)
    BY <2>1 DEF Queued
  <2>6. \A c \in Calls, k \in Links :
          /\ Written(c, k)' => k <= link'[c] /\ (pc'[c] = "send" => k < link'[c])
          /\ Queued(c, k)' => ~Written(c, k)'
    BY <2>1, <2>4, <2>5 DEF RequestsAreFresh
  <2>7. \A k \in Links : \A i \in DOMAIN wire'[k] :
          /\ <<wire'[k][i].call, k>> \notin carried'
          /\ \A j \in DOMAIN wire'[k] : wire'[k][i].call = wire'[k][j].call => i = j
    <3> SUFFICES ASSUME NEW k \in Links, NEW i \in DOMAIN wire'[k]
                 PROVE  /\ <<wire'[k][i].call, k>> \notin carried'
                        /\ \A j \in DOMAIN wire'[k] : wire'[k][i].call = wire'[k][j].call => i = j
      OBVIOUS
    <3>1. CASE k # l
      BY <2>1, <2>3, <3>1 DEF RequestsAreFresh
    <3>2. CASE k = l
      <4>1. i + 1 \in DOMAIN w /\ wire'[l][i] = w[i + 1] /\ i \in Nat \ {0}
        BY <2>2, <2>3, <3>2
      <4>2. w[i + 1].call # d
        <5>1. w[i + 1].call = w[1].call => i + 1 = 1
          BY <4>1, <2>2 DEF RequestsAreFresh
        <5> QED
          BY <5>1, <4>1, <2>2
      <4>3. <<w[i + 1].call, l>> \notin carried
        BY <4>1 DEF RequestsAreFresh
      <4>4. ASSUME NEW j \in DOMAIN wire'[l], wire'[l][i].call = wire'[l][j].call PROVE i = j
        <5>1. j + 1 \in DOMAIN w /\ wire'[l][j] = w[j + 1] /\ j \in Nat \ {0}
          BY <2>2, <2>3
        <5>2. i + 1 = j + 1
          BY <4>1, <4>4, <5>1 DEF RequestsAreFresh
        <5> QED
          BY <4>1, <5>1, <5>2
      <4>5. <<wire'[l][i].call, l>> \notin carried'
        <5> DEFINE x == w[i + 1].call
        <5>1. wire'[l][i].call = x /\ x # d /\ <<x, l>> \notin carried
          BY <4>1, <4>2, <4>3
        <5>2. carried' = carried \cup {<<d, l>>}
          BY <2>1
        <5> HIDE DEF x, d, w
        <5> QED
          BY <5>1, <5>2
      <4> QED
        BY <3>2, <4>4, <4>5
    <3> QED
      BY <3>1, <3>2
  <2> QED
    BY <2>6, <2>7 DEF RequestsAreFresh
<1>18. ASSUME NEW l \in Links, DaemonAnswer(l) PROVE RequestsAreFresh'
  <2>1. wire' = wire /\ carried' = carried /\ queue' = queue
    BY <1>18 DEF DaemonAnswer
  <2>2. \A d \in Calls : link'[d] = link[d] /\ (pc'[d] = "send" => pc[d] = "send")
    BY <1>18 DEF DaemonAnswer, TypeOK, CallerTypes
  <2> QED
    BY <2>1, <2>2, FreshUntouched DEF Queued
<1>19. ASSUME NEW l \in Links, DaemonLost(l) PROVE RequestsAreFresh'
  <2>1. /\ wire' = [wire EXCEPT ![l] = <<>>] /\ UNCHANGED <<carried, queue, link, pc>>
    BY <1>19 DEF DaemonLost
  <2>2. wire'[l] = <<>> /\ \A k \in Links \ {l} : wire'[k] = wire[k]
    BY <2>1 DEF TypeOK, DaemonTypes
  <2>3. \A c \in Calls, k \in Links : (Written(c, k)' => Written(c, k)) /\ (Queued(c, k)' <=> Queued(c, k))
    BY <2>1, <2>2 DEF Written, Queued, Elems
  <2>4. \A c \in Calls, k \in Links :
          /\ Written(c, k)' => k <= link'[c] /\ (pc'[c] = "send" => k < link'[c])
          /\ Queued(c, k)' => ~Written(c, k)'
    BY <2>1, <2>3 DEF RequestsAreFresh
  <2>5. \A k \in Links : \A i \in DOMAIN wire'[k] :
          /\ <<wire'[k][i].call, k>> \notin carried'
          /\ \A j \in DOMAIN wire'[k] : wire'[k][i].call = wire'[k][j].call => i = j
    BY <2>1, <2>2 DEF RequestsAreFresh
  <2> QED
    BY <2>4, <2>5 DEF RequestsAreFresh
<1>20. CASE UNCHANGED vars
  <2>1. wire' = wire /\ carried' = carried /\ queue' = queue
    BY <1>20 DEF vars
  <2>2. \A d \in Calls : link'[d] = link[d] /\ (pc'[d] = "send" => pc[d] = "send")
    BY <1>20 DEF vars, TypeOK, CallerTypes
  <2> QED
    BY <2>1, <2>2, FreshUntouched DEF Queued
<1>21. QED
  BY <1>1, <1>2, <1>3, <1>4, <1>5, <1>6, <1>7, <1>8, <1>9, <1>10, <1>11, <1>12, <1>13, <1>14, <1>15, <1>16, <1>17, <1>18, <1>19, <1>20 DEF Next, CallStep, ActorStep

(* The invariant holds at the start ... *)
LEMMA InitHolds == ASSUME Init PROVE IInv
<1> USE LinkAssumption
<1>1. CallerTypes
  BY DEF Init, CallerTypes, Links, Outcome
<1>2. ClientTypes /\ DaemonTypes
  BY DEF Init, ClientTypes, DaemonTypes, Links
<1>3. /\ \A l \in Links : OnItsWay(l) = {} /\ pending[l] = {}
      /\ \A l \in Links : queue[l] = <<>> /\ wire[l] = <<>>
      /\ carried = {} /\ \A c \in Calls : pc[c] = "idle" /\ link[c] = 0 /\ tries[c] = 0
  BY DEF Init, OnItsWay, Elems
<1>4. HandlesAgree /\ UnbornIsEmpty /\ OneLiveLink
  BY DEF Init, HandlesAgree, UnbornIsEmpty, OneLiveLink, Links
<1>5. EveryWaiterIsOwed /\ OneEntryEach
  BY <1>3 DEF EveryWaiterIsOwed, OneEntryEach, Queued, Asked, Waiting
<1>6. IdsAreGiven /\ AnswersFindTheirCall
  BY <1>3 DEF IdsAreGiven, AnswersFindTheirCall
<1>7. RequestsAreFresh
  BY <1>3 DEF RequestsAreFresh, Written, Queued, Elems
<1> QED
  BY <1>1, <1>2, <1>4, <1>5, <1>6, <1>7 DEF IInv, Core, TypeOK

(* ... and every step keeps it. *)
LEMMA StepHolds == ASSUME IInv, [Next]_vars PROVE IInv'
<1>1. TypeOK'
  BY CallerTypesStep, ClientTypesStep, DaemonTypesStep DEF IInv, Core, TypeOK
<1>2. OneLiveLink'
  BY LinksStep DEF IInv, Core
<1>3. HandlesAgree'
  BY HandlesStep DEF IInv, Core
<1>4. UnbornIsEmpty'
  BY UnbornStep DEF IInv, Core
<1>5. (EveryWaiterIsOwed /\ OneEntryEach)'
  BY OwedStep DEF IInv, Core
<1>6. (IdsAreGiven /\ AnswersFindTheirCall)'
  BY IdsStep DEF IInv, Core
<1>7. RequestsAreFresh'
  BY FreshStep DEF IInv, Core
<1> QED
  BY <1>1, <1>2, <1>3, <1>4, <1>5, <1>6, <1>7 DEF IInv, Core

THEOREM InvHolds == Spec => []IInv
<1>1. Init => IInv
  BY InitHolds
<1>2. IInv /\ [Next]_vars => IInv'
  BY StepHolds
<1> QED
  BY <1>1, <1>2, PTL DEF Spec

\* Types: every id, table and queue of client.rs and server.rs stays in its range,
\* whatever is sent, answered, lost and connected anew.
THEOREM TypeCorrect == Spec => []TypeOK
<1>1. IInv => TypeOK
  BY DEF IInv, Core
<1> QED
  BY <1>1, InvHolds, PTL

\* client.rs leaves no oneshot unresolved: whoever waits is in one queue or one
\* table of a client that still runs.
THEOREM WaitersAreOwed == Spec => []EveryWaiterIsOwed
<1>1. IInv => EveryWaiterIsOwed
  BY DEF IInv
<1> QED
  BY <1>1, InvHolds, PTL

\* client.rs pairs answers with requests by id: an answer never reaches the oneshot of
\* another call, because no id is given twice on a connection.
THEOREM AnswersReachTheirCall == Spec => []AnswersFindTheirCall
<1>1. IInv => AnswersFindTheirCall
  BY DEF IInv
<1> QED
  BY <1>1, InvHolds, PTL

\* reconnect.rs replaces a client only when it is closed: however many calls find a
\* connection dead, one connection is alive.
THEOREM OneConnection == Spec => []OneLiveLink
<1>1. IInv => OneLiveLink
  BY DEF IInv, Core
<1> QED
  BY <1>1, InvHolds, PTL

\* The second try of reconnect.rs goes over another connection than the first: no
\* handler of server.rs carries a request out twice.
THEOREM NeverTwice == Spec => NeverTwiceOnALink
<1>1. ASSUME IInv, NEW l \in Links, DaemonServe(l)
      PROVE  <<Head(wire[l]).call, l>> \notin carried
  <2>1. wire[l] \in Seq(Envelope) /\ wire[l] # <<>>
    BY <1>1 DEF IInv, Core, TypeOK, DaemonTypes, DaemonServe
  <2>2. 1 \in DOMAIN wire[l] /\ Head(wire[l]) = wire[l][1]
    BY <2>1, TailElems
  <2> QED
    BY <1>1, <2>2 DEF IInv, RequestsAreFresh
<1>2. IInv /\ [Next]_vars =>
        [\A l \in Links : DaemonServe(l) => <<Head(wire[l]).call, l>> \notin carried]_vars
  BY <1>1
<1> QED
  BY <1>2, InvHolds, PTL DEF Spec, NeverTwiceOnALink
-----------------------------------------------------------------------------
(*                                 DbActor                                 *)

(***************************************************************************)
(* The database.  Ids are never used again, an edge has both its ends, and *)
(* it goes only with one of them.                                          *)
(***************************************************************************)
Record(d) == d = [nodes |-> d.nodes, edges |-> d.edges, on |-> d.on, hashes |-> d.hashes, warm |-> d.warm,
                  meta |-> d.meta, next |-> d.next]
Ends(e) == {e[1], e[2]}

Sane(d) ==
    /\ Record(d) /\ d.next \in Nat \ {0} /\ Ids(d) \subseteq 1..(d.next - 1)
    /\ \A e \in d.edges : Ends(e) \subseteq Ids(d)

Follows(d, new) ==
    /\ Sane(new) /\ d.next <= new.next
    /\ \A id \in Ids(new) : id < d.next => id \in Ids(d)
    /\ \A e \in d.edges : e \in new.edges \/ ~(Ends(e) \subseteq Ids(new))

DaemonCommands == QueryCommands(Nat) \cup SyncCommands
IndexerCommands == IndexCommands(Nat)

LEMMA FollowsItself == ASSUME NEW d, Sane(d) PROVE Follows(d, d)
  BY DEF Sane, Follows

LEMMA SameRowsFollow ==
  ASSUME NEW d, NEW new, Sane(d), Record(new), Ids(new) = Ids(d), new.edges = d.edges, new.next = d.next
  PROVE  Follows(d, new)
  BY DEF Sane, Follows

LEMMA AnswerIs ==
  ASSUME NEW d, NEW values
  PROVE  Done(d, values).tables = d /\ Failed(d).tables = d
  BY DEF Done, Failed

LEMMA ReadsFollow ==
  ASSUME NEW d, Sane(d), NEW c
  PROVE  \A read \in {get_node_by_fqn(d, c), list_nodes(d), get_callees_cache_hash(d, c),
                      is_materialized(d, c), get_meta(d), get_neighbors(d, c)} : read.tables = d
<1>1. get_node_by_fqn(d, c).tables = d
  BY AnswerIs DEF get_node_by_fqn
<1>2. list_nodes(d).tables = d
  BY AnswerIs DEF list_nodes
<1>3. get_callees_cache_hash(d, c).tables = d
  BY AnswerIs DEF get_callees_cache_hash
<1>4. is_materialized(d, c).tables = d
  BY AnswerIs DEF is_materialized
<1>5. get_meta(d).tables = d
  BY AnswerIs DEF get_meta
<1>6. get_neighbors(d, c).tables = d
  BY AnswerIs DEF get_neighbors
<1> QED
  BY <1>1, <1>2, <1>3, <1>4, <1>5, <1>6

LEMMA RowWritesFollow ==
  ASSUME NEW d, Sane(d), NEW c
  PROVE  \A write \in {update_node_signature(d, c), set_callees_cache_hash(d, c), mark_materialized(d, c),
                       invalidate_outgoing_calls(d, c), set_meta(d, c)} : Follows(d, write.tables)
<1>0. Record(d)
  BY DEF Sane
<1>1. Follows(d, update_node_signature(d, c).tables)
  <2> DEFINE nodes == [id \in Ids(d) |-> IF id = c.id THEN [d.nodes[id] EXCEPT !.signature = TRUE] ELSE d.nodes[id]]
             new == [d EXCEPT !.nodes = nodes]
  <2>1. update_node_signature(d, c).tables = new
    BY AnswerIs DEF update_node_signature
  <2>2. DOMAIN nodes = Ids(d)
    OBVIOUS
  <2> HIDE DEF nodes
  <2>3. Record(new) /\ new.nodes = nodes /\ new.edges = d.edges /\ new.next = d.next
    BY <1>0 DEF Record
  <2> HIDE DEF new
  <2> QED
    BY <2>1, <2>2, <2>3, SameRowsFollow DEF Ids
<1>2. Follows(d, set_callees_cache_hash(d, c).tables)
  <2> DEFINE hashes == [id \in DOMAIN d.hashes \cup {c.id} |-> IF id = c.id THEN c.value ELSE d.hashes[id]]
             new == [d EXCEPT !.hashes = hashes]
  <2>1. set_callees_cache_hash(d, c).tables \in {d, new}
    BY AnswerIs DEF set_callees_cache_hash
  <2> HIDE DEF hashes
  <2>2. Record(new) /\ new.nodes = d.nodes /\ new.edges = d.edges /\ new.next = d.next
    BY <1>0 DEF Record
  <2> HIDE DEF new
  <2> QED
    BY <2>1, <2>2, SameRowsFollow, FollowsItself DEF Ids
<1>3. Follows(d, mark_materialized(d, c).tables)
  <2> DEFINE new == [d EXCEPT !.warm = @ \cup {<<c.id, c.type>>}]
  <2>1. mark_materialized(d, c).tables \in {d, new}
    BY AnswerIs DEF mark_materialized
  <2>2. Record(new) /\ new.nodes = d.nodes /\ new.edges = d.edges /\ new.next = d.next
    BY <1>0 DEF Record
  <2> HIDE DEF new
  <2> QED
    BY <2>1, <2>2, SameRowsFollow, FollowsItself DEF Ids
<1>4. Follows(d, invalidate_outgoing_calls(d, c).tables)
  <2> DEFINE on == {e \in d.on : ~(e[1] = c.id /\ e[3] = "calls")}
             new == [d EXCEPT !.on = on]
  <2>1. invalidate_outgoing_calls(d, c).tables = new
    BY AnswerIs DEF invalidate_outgoing_calls
  <2> HIDE DEF on
  <2>2. Record(new) /\ new.nodes = d.nodes /\ new.edges = d.edges /\ new.next = d.next
    BY <1>0 DEF Record
  <2> HIDE DEF new
  <2> QED
    BY <2>1, <2>2, SameRowsFollow DEF Ids
<1>5. Follows(d, set_meta(d, c).tables)
  <2> DEFINE new == [d EXCEPT !.meta = {c.value}]
  <2>1. set_meta(d, c).tables = new
    BY AnswerIs DEF set_meta
  <2>2. Record(new) /\ new.nodes = d.nodes /\ new.edges = d.edges /\ new.next = d.next
    BY <1>0 DEF Record
  <2> HIDE DEF new
  <2> QED
    BY <2>1, <2>2, SameRowsFollow DEF Ids
<1> QED
  BY <1>1, <1>2, <1>3, <1>4, <1>5

LEMMA SwitchedOnFollows ==
  ASSUME NEW d, Sane(d), NEW e, Ends(e) \subseteq Ids(d)
  PROVE  Follows(d, SwitchedOn(d, e)) /\ SwitchedOn(d, e).edges = d.edges \cup {e}
<1> DEFINE new == SwitchedOn(d, e)
<1>1. Record(new) /\ new.nodes = d.nodes /\ new.edges = d.edges \cup {e} /\ new.next = d.next
  <2> DEFINE edges == d.edges \cup {e}
             on == d.on \cup {e}
  <2>1. new = [d EXCEPT !.edges = edges, !.on = on]
    BY DEF SwitchedOn
  <2> HIDE DEF new, edges, on
  <2>2. Record(new) /\ new.nodes = d.nodes /\ new.edges = edges /\ new.next = d.next
    BY <2>1 DEF Sane, Record
  <2> QED
    BY <2>2 DEF edges
<1> HIDE DEF new
<1> QED
  BY <1>1 DEF Follows, Sane, Ids, new

LEMMA UpsertEdgeFollows ==
  ASSUME NEW d, Sane(d), NEW c
  PROVE  /\ Follows(d, upsert_edge(d, c).tables)
         /\ upsert_edge(d, c).tables.edges \subseteq d.edges \cup {c.edge}
<1>1. CASE Ends(c.edge) \subseteq Ids(d)
  BY <1>1, AnswerIs, SwitchedOnFollows DEF upsert_edge, Ends
<1>2. CASE ~(Ends(c.edge) \subseteq Ids(d))
  BY <1>2, AnswerIs, FollowsItself DEF upsert_edge, Ends
<1> QED
  BY <1>1, <1>2

LEMMA InsertedFollows ==
  ASSUME NEW d, Sane(d), NEW k \in Nat, NEW symbolOf,
         NEW ids, ids = d.next..(d.next + k - 1)
  PROVE  /\ Follows(d, Inserted(d, ids, symbolOf))
         /\ Inserted(d, ids, symbolOf).edges = d.edges
         /\ Inserted(d, ids, symbolOf).next = d.next + k
<1> DEFINE new == Inserted(d, ids, symbolOf)
           nodes == [id \in Ids(d) \cup ids |->
                        IF id \notin ids THEN d.nodes[id]
                        ELSE [symbol |-> symbolOf[id], valid |-> TRUE, orphan |-> FALSE, signature |-> FALSE]]
<1>0. d.next \in Nat \ {0}
  BY DEF Sane
<1>1. Cardinality(ids) = k
  <2> DEFINE a == d.next
             b == d.next + k - 1
  <2>1. a \in Int /\ b \in Int /\ (IF a > b THEN 0 ELSE b - a + 1) = k
    BY <1>0
  <2> HIDE DEF a, b
  <2>2. Cardinality(a..b) = IF a > b THEN 0 ELSE b - a + 1
    BY <2>1, FS_Interval
  <2> QED
    BY <2>1, <2>2 DEF a, b
<1>2. new = [d EXCEPT !.nodes = nodes, !.next = d.next + k]
  BY <1>1 DEF Inserted
<1>3. DOMAIN nodes = Ids(d) \cup ids
  OBVIOUS
<1> HIDE DEF nodes, new
<1>4. Record(new) /\ new.nodes = nodes /\ new.edges = d.edges /\ new.next = d.next + k
  BY <1>2 DEF Sane, Record
<1>5. Ids(new) = Ids(d) \cup ids
  BY <1>3, <1>4 DEF Ids
<1>6. Sane(new)
  <2>1. Ids(d) \subseteq 1..(d.next - 1) /\ \A e \in d.edges : Ends(e) \subseteq Ids(d)
    BY DEF Sane
  <2>2. Ids(d) \cup ids \subseteq 1..(d.next + k - 1) /\ d.next + k \in Nat \ {0}
    BY <1>0, <2>1
  <2> QED
    BY <1>4, <1>5, <2>1, <2>2 DEF Sane
<1>7. \A id \in Ids(new) : id < d.next => id \in Ids(d)
  BY <1>0, <1>5
<1> QED
  BY <1>0, <1>4, <1>5, <1>6, <1>7 DEF Follows, new

LEMMA UpsertNodeFollows ==
  ASSUME NEW d, Sane(d), NEW c
  PROVE  Follows(d, upsert_node(d, c).tables) /\ upsert_node(d, c).tables.edges = d.edges
<1> DEFINE ids == IdOf(d, c.symbol)
           nodes == [id \in Ids(d) |->
                        IF id \in ids THEN [d.nodes[id] EXCEPT !.valid = TRUE, !.orphan = FALSE, !.signature = FALSE]
                        ELSE d.nodes[id]]
           over == [d EXCEPT !.nodes = nodes]
           more == Inserted(d, {d.next}, [id \in {d.next} |-> c.symbol])
<1>1. upsert_node(d, c).tables \in {d, over, more}
  BY AnswerIs DEF upsert_node
<1>2. DOMAIN nodes = Ids(d)
  OBVIOUS
<1> HIDE DEF nodes, ids
<1>3. Follows(d, over) /\ over.edges = d.edges
  <2>1. Record(over) /\ over.nodes = nodes /\ over.edges = d.edges /\ over.next = d.next
    BY DEF Sane, Record
  <2> HIDE DEF over
  <2> QED
    BY <1>2, <2>1, SameRowsFollow DEF Ids
<1>4. Follows(d, more) /\ more.edges = d.edges
  <2> DEFINE one == {d.next}
             symbolOf == [id \in {d.next} |-> c.symbol]
  <2>1. one = d.next..(d.next + 1 - 1)
    BY DEF Sane
  <2> HIDE DEF one, symbolOf
  <2>2. Follows(d, Inserted(d, one, symbolOf)) /\ Inserted(d, one, symbolOf).edges = d.edges
    BY <2>1, InsertedFollows
  <2> QED
    BY <2>2 DEF one, symbolOf
<1> HIDE DEF over, more
<1> QED
  BY <1>1, <1>3, <1>4, FollowsItself

LEMMA WithoutIs ==
  ASSUME NEW d, Sane(d), NEW gone
  PROVE  LET new == Without(d, gone)
         IN  /\ Sane(new) /\ Ids(new) = Ids(d) \ gone /\ new.next = d.next
             /\ new.edges = {e \in d.edges : Ends(e) \cap gone = {}}
<1> DEFINE new == Without(d, gone)
           nodes == [id \in Ids(d) \ gone |-> d.nodes[id]]
           edges == {e \in d.edges : e[1] \notin gone /\ e[2] \notin gone}
           on == {e \in d.on : e[1] \notin gone /\ e[2] \notin gone}
           hashes == [id \in DOMAIN d.hashes \ gone |-> d.hashes[id]]
           warm == {w \in d.warm : w[1] \notin gone}
<1>1. new = [d EXCEPT !.nodes = nodes, !.edges = edges, !.on = on, !.hashes = hashes, !.warm = warm]
  BY DEF Without, Restrict, Ids
<1>2. DOMAIN nodes = Ids(d) \ gone
  OBVIOUS
<1>3. edges = {e \in d.edges : Ends(e) \cap gone = {}}
  BY DEF Ends
<1> HIDE DEF new, nodes, edges, on, hashes, warm
<1>4. Record(new) /\ new.nodes = nodes /\ new.edges = edges /\ new.next = d.next
  BY <1>1 DEF Sane, Record
<1>5. Ids(new) = Ids(d) \ gone
  BY <1>2, <1>4 DEF Ids
<1>6. Sane(new)
  <2>1. d.next \in Nat \ {0} /\ Ids(d) \subseteq 1..(d.next - 1) /\ \A e \in d.edges : Ends(e) \subseteq Ids(d)
    BY DEF Sane
  <2>2. \A e \in edges : e \in d.edges /\ Ends(e) \cap gone = {}
    BY <1>3
  <2>3. \A e \in edges : Ends(e) \subseteq Ids(d) \ gone
    BY <2>1, <2>2
  <2>4. Ids(d) \ gone \subseteq 1..(d.next - 1)
    BY <2>1
  <2> QED
    BY <1>4, <1>5, <2>1, <2>3, <2>4 DEF Sane
<1> QED
  BY <1>3, <1>4, <1>5, <1>6 DEF new

LEMMA ReconcileFollows ==
  ASSUME NEW d, Sane(d), NEW c, c.symbols \subseteq Symbols
  PROVE  Follows(d, reconcile_file_symbols(d, c).tables)
<1> DEFINE struck   == {id \in Ids(d) : d.nodes[id].symbol \notin c.symbols}
           changed  == {id \in Ids(d) : d.nodes[id].symbol \in c.changed}
           on       == {e \in d.on : {e[1], e[2]} \cap changed = {}}
           nodes    == [id \in Ids(d) |-> [d.nodes[id] EXCEPT !.valid = id \notin struck,
                                                              !.orphan = id \in struck]]
           updated  == [d EXCEPT !.hashes = <<>>, !.on = on, !.nodes = nodes]
           gone     == {id \in struck : d.nodes[id].orphan}
           kept     == Without(updated, gone)
           missing  == {s \in c.symbols : IdOf(d, s) = {}}
           ids      == d.next..(d.next + Cardinality(missing) - 1)
           new      == CHOOSE f \in [ids -> missing] :
                           /\ \A s \in missing : \E i \in ids : f[i] = s
                           /\ \A i, j \in ids : Parent[f[i]] = f[j] => j < i
           full     == IF missing = {} THEN kept ELSE Inserted(kept, ids, new)
           contains == {<<i, j, "contains">> : i \in Ids(full), j \in Ids(full)}
           restored == {e \in contains : full.nodes[e[2]].symbol \in c.symbols
                                           /\ Parent[full.nodes[e[2]].symbol] = full.nodes[e[1]].symbol}
           after    == [full EXCEPT !.edges = @ \cup restored, !.on = @ \cup restored]
<1>1. reconcile_file_symbols(d, c).tables = after
  <2>1. reconcile_file_symbols(d, c) = Done(after, {})
    BY DEF reconcile_file_symbols
  <2> HIDE DEF after
  <2> QED
    BY <2>1, AnswerIs
<1>2. \A e \in restored : Ends(e) \subseteq Ids(full)
  <2> HIDE DEF full
  <2> QED
    BY DEF Ends
<1>3. Cardinality(missing) \in Nat
  <2>1. missing \in SUBSET Symbols /\ IsFiniteSet(Symbols)
    BY TablesAssumption
  <2> HIDE DEF missing
  <2> QED
    BY <2>1, FS_Subset, FS_CardinalityType
<1> DEFINE k == Cardinality(missing)
<1>4. ids = d.next..(d.next + k - 1)
  OBVIOUS
<1>5. DOMAIN nodes = Ids(d)
  OBVIOUS
<1> HIDE DEF nodes, on
<1>6. Sane(updated) /\ Ids(updated) = Ids(d) /\ updated.edges = d.edges /\ updated.next = d.next
  <2> DEFINE none == <<>>
  <2>0. updated = [d EXCEPT !.hashes = none, !.on = on, !.nodes = nodes]
    OBVIOUS
  <2> HIDE DEF none, updated
  <2>1. Record(updated) /\ updated.nodes = nodes /\ updated.edges = d.edges /\ updated.next = d.next
    BY <2>0 DEF Sane, Record
  <2> HIDE DEF updated
  <2>2. Ids(updated) = Ids(d)
    BY <1>5, <2>1 DEF Ids
  <2> QED
    BY <2>1, <2>2 DEF Sane
<1> HIDE DEF updated, gone
<1>7. /\ Sane(kept) /\ Ids(kept) = Ids(d) \ gone /\ kept.next = d.next
      /\ kept.edges = {e \in d.edges : Ends(e) \cap gone = {}}
  BY <1>6, WithoutIs
<1> HIDE DEF kept, missing, k, ids, new
<1>8. /\ Sane(full) /\ d.next <= full.next /\ full.edges = kept.edges
      /\ \A id \in Ids(full) : id < d.next => id \in Ids(kept)
  <2>1. CASE missing = {}
    BY <1>7, <2>1 DEF full, Sane
  <2>2. CASE missing # {}
    <3>1. k \in Nat
      BY <1>3 DEF k
    <3>2. full = Inserted(kept, ids, new) /\ ids = kept.next..(kept.next + k - 1)
      BY <1>4, <1>7, <2>2 DEF full
    <3>3. Follows(kept, full) /\ full.edges = kept.edges
      BY <1>7, <3>1, <3>2, InsertedFollows
    <3> QED
      BY <1>7, <3>3 DEF Follows
  <2> QED
    BY <2>1, <2>2
<1> HIDE DEF full, restored
<1>9. Record(after) /\ after.nodes = full.nodes /\ after.edges = full.edges \cup restored /\ after.next = full.next
  <2> DEFINE edges == full.edges \cup restored
             lit == full.on \cup restored
  <2>1. after = [full EXCEPT !.edges = edges, !.on = lit]
    OBVIOUS
  <2> HIDE DEF after, edges, lit
  <2>2. Record(after) /\ after.nodes = full.nodes /\ after.edges = edges /\ after.next = full.next
    BY <1>8, <2>1 DEF Sane, Record
  <2> QED
    BY <2>2 DEF edges
<1> HIDE DEF after
<1>10. Sane(after) /\ Ids(after) = Ids(full)
  BY <1>2, <1>8, <1>9 DEF Sane, Ids
<1>11. ASSUME NEW e \in d.edges PROVE e \in after.edges \/ ~(Ends(e) \subseteq Ids(after))
  <2>1. CASE Ends(e) \cap gone = {}
    BY <1>7, <1>8, <1>9, <2>1
  <2>2. CASE Ends(e) \cap gone # {}
    <3>1. PICK id \in Ends(e) : id \in gone
      BY <2>2
    <3>2. id < d.next
      BY <3>1 DEF Sane
    <3> QED
      BY <1>7, <1>8, <1>10, <3>1, <3>2
  <2> QED
    BY <2>1, <2>2
<1> QED
  BY <1>1, <1>7, <1>8, <1>9, <1>10, <1>11 DEF Follows

Serves(p) == IF p = "daemon" THEN DaemonCommands ELSE IndexerCommands

LEMMA SyncCommandIs ==
  ASSUME NEW c \in SyncCommands
  PROVE  c.op = "SetMeta" \/ (c.op = "ReconcileFileSymbols" /\ c.symbols \subseteq Symbols)
  BY DEF SyncCommands

LEMMA ExecuteFollows ==
  ASSUME NEW d, Sane(d), NEW p, NEW c \in Serves(p)
  PROVE  Follows(d, Execute(d, c).tables)
<1> DEFINE reads == {get_node_by_fqn(d, c), list_nodes(d), get_callees_cache_hash(d, c),
                     is_materialized(d, c), get_meta(d), get_neighbors(d, c)}
           writes == {update_node_signature(d, c), set_callees_cache_hash(d, c), mark_materialized(d, c),
                      invalidate_outgoing_calls(d, c), set_meta(d, c)}
<1>1. CASE Execute(d, c) \in reads
  <2> HIDE DEF reads
  <2>1. \A read \in reads : read.tables = d
    BY ReadsFollow DEF reads
  <2> QED
    BY <1>1, <2>1, FollowsItself
<1>2. CASE Execute(d, c) \in writes
  <2> HIDE DEF writes
  <2>1. \A write \in writes : Follows(d, write.tables)
    BY RowWritesFollow DEF writes
  <2> QED
    BY <1>2, <2>1
<1>3. CASE c.op = "UpsertEdge"
  BY <1>3, UpsertEdgeFollows DEF Execute
<1>4. CASE c.op = "UpsertNode"
  BY <1>4, UpsertNodeFollows DEF Execute
<1>5. CASE c.op = "ReconcileFileSymbols"
  <2>1. c \in SyncCommands
    BY <1>5 DEF Serves, DaemonCommands, IndexerCommands, QueryCommands, IndexCommands
  <2>2. c.symbols \subseteq Symbols
    BY <1>5, <2>1, SyncCommandIs
  <2>3. Execute(d, c) = reconcile_file_symbols(d, c)
    BY <1>5 DEF Execute
  <2> QED
    BY <2>2, <2>3, ReconcileFollows
<1>6. \/ c.op \in {"UpsertEdge", "UpsertNode", "ReconcileFileSymbols"}
      \/ c.op \in {"GetNodeByFqn", "ListNodes", "GetNeighbors", "GetMeta", "GetCalleesCacheHash", "IsMaterialized"}
      \/ c.op \in {"SetMeta", "UpdateNodeSignature", "SetCalleesCacheHash", "MarkMaterialized",
                   "InvalidateOutgoingCalls"}
  <2>1. CASE c \in QueryCommands(Nat)
    BY <2>1 DEF QueryCommands
  <2>2. CASE c \in SyncCommands
    BY <2>2, SyncCommandIs
  <2>3. CASE c \in IndexCommands(Nat)
    BY <2>3 DEF IndexCommands
  <2> QED
    BY <2>1, <2>2, <2>3 DEF Serves, DaemonCommands, IndexerCommands
<1>7. CASE c.op \in {"GetNodeByFqn", "ListNodes", "GetNeighbors", "GetMeta", "GetCalleesCacheHash", "IsMaterialized"}
  <2>1. Execute(d, c) \in reads
    BY <1>7 DEF Execute
  <2> QED
    BY <1>1, <2>1
<1>8. CASE c.op \in {"SetMeta", "UpdateNodeSignature", "SetCalleesCacheHash", "MarkMaterialized",
                     "InvalidateOutgoingCalls"}
  <2>1. Execute(d, c) \in writes
    BY <1>8 DEF Execute
  <2> QED
    BY <1>2, <2>1
<1> QED
  BY <1>3, <1>4, <1>5, <1>6, <1>7, <1>8

(***************************************************************************)
(* `semnav index` adds no edge with an occurrence.                         *)
(***************************************************************************)
LEMMA IndexAddsContainment ==
  ASSUME NEW d, Sane(d), NEW c \in IndexerCommands
  PROVE  \A e \in Execute(d, c).tables.edges : e \in d.edges \/ e[3] = "contains"
<1>1. CASE c.op = "UpsertNode"
  BY <1>1, UpsertNodeFollows DEF Execute
<1>2. CASE c.op = "SetMeta"
  <2> DEFINE new == [d EXCEPT !.meta = {c.value}]
  <2>1. new.edges = d.edges
    BY DEF Sane, Record
  <2>2. Execute(d, c).tables = new
    BY <1>2, AnswerIs DEF Execute, set_meta
  <2> QED
    BY <2>1, <2>2
<1>3. CASE c.op = "UpsertEdge"
  <2>1. c.edge[3] = "contains"
    BY <1>3 DEF IndexerCommands, IndexCommands
  <2>2. Execute(d, c).tables.edges \subseteq d.edges \cup {c.edge}
    BY <1>3, UpsertEdgeFollows DEF Execute
  <2> QED
    BY <2>1, <2>2
<1> QED
  BY <1>1, <1>2, <1>3 DEF IndexerCommands, IndexCommands

(***************************************************************************)
(* The channels and the threads: whose commands are where, and what an     *)
(* upsert that found its edge, or did not, knows when it writes.           *)
(***************************************************************************)
Knows(d, c) == c.op = "UpsertEdge" => Ends(c.edge) \subseteq 1..(d.next - 1)

Entry(p) == [task : TasksOf(p), command : Serves(p)]

LineOK(p, line, d) ==
    /\ line \in Seq(Entry(p))
    /\ \A i \in DOMAIN line : Knows(d, line[i].command)
    /\ \A i, j \in DOMAIN line : line[i].task = line[j].task => i = j

WorkOK(p, th, line, d) ==
    \/ th = Receiving
    \/ /\ th.at \in {"run", "insert", "update", "reply"} /\ th.task \in TasksOf(p)
       /\ th.command \in Serves(p) /\ Knows(d, th.command)
       /\ th.at # "reply" => th = [at |-> th.at, task |-> th.task, command |-> th.command]
       /\ \A i \in DOMAIN line : line[i].task # th.task
       /\ th.at \in {"insert", "update"} => th.command.op = "UpsertEdge"
       /\ th.at = "update" => th.command.edge \in d.edges \/ ~(Ends(th.command.edge) \subseteq Ids(d))
       /\ th.at = "insert" /\ th.command.edge[3] \in Sited => th.command.edge \notin d.edges

Working(th, t) == th.at # "recv" /\ th.task = t

TaskOK(t, k, th, line) ==
    /\ k.at \in {"idle", "wait", "done", "dropped"}
    /\ k.at \in {"idle", "done"} => ~Working(th, t) /\ \A i \in DOMAIN line : line[i].task # t
    /\ k.at = "wait" => Working(th, t) \/ \E i \in DOMAIN line : line[i].task = t
    /\ k.at = "wait" /\ Working(th, t) => th.command = k.command
    /\ k.at = "wait" => \A i \in DOMAIN line : line[i].task = t => line[i].command = k.command

UnderwayIn(t, th, line) ==
    (th.at \in {"run", "update", "insert"} /\ th.task = t) \/ \E i \in DOMAIN line : line[i].task = t

CommandIn(t, th, line) ==
    IF th.at # "recv" /\ th.task = t THEN th.command
    ELSE line[CHOOSE i \in DOMAIN line : line[i].task = t].command

View(t, k, th, line) ==
    CASE k.at = "done" -> [at |-> "done", answer |-> k.answer]
      [] k.at = "wait" /\ UnderwayIn(t, th, line) -> [at |-> "pending", command |-> k.command]
      [] k.at = "wait" /\ ~UnderwayIn(t, th, line) -> [at |-> "done", answer |-> th.answer]
      [] k.at = "dropped" /\ UnderwayIn(t, th, line) -> [at |-> "stray", command |-> CommandIn(t, th, line)]
      [] OTHER -> [at |-> "idle"]

LEMMA DaemonServes ==
  ASSUME NEW d, Sane(d), NEW c \in QueryCommands(1..(d.next - 1)) \cup SyncCommands
  PROVE  c \in Serves("daemon") /\ Knows(d, c)
<1> DEFINE ids == 1..(d.next - 1)
<1>1. ids \subseteq Nat
  BY DEF Sane
<1>2. c \in QueryCommands(ids) \cup SyncCommands
  OBVIOUS
<1> SUFFICES c \in DaemonCommands /\ (c.op = "UpsertEdge" => Ends(c.edge) \subseteq ids)
  BY DEF Serves, Knows
<1> HIDE DEF ids
<1>3. CASE c \in QueryCommands(ids)
  <2>1. c \in QueryCommands(Nat)
    BY <1>1, <1>3 DEF QueryCommands
  <2>2. c.op = "UpsertEdge" => Ends(c.edge) \subseteq ids
    BY <1>3 DEF QueryCommands, Ends
  <2> QED
    BY <2>1, <2>2 DEF DaemonCommands
<1>4. CASE c \in SyncCommands
  BY <1>4, SyncCommandIs DEF DaemonCommands
<1> QED
  BY <1>2, <1>3, <1>4

LEMMA IndexerServes ==
  ASSUME NEW d, Sane(d), NEW c \in IndexCommands(1..(d.next - 1))
  PROVE  c \in Serves("index") /\ Knows(d, c)
<1> DEFINE ids == 1..(d.next - 1)
<1>1. ids \subseteq Nat
  BY DEF Sane
<1>2. c \in IndexCommands(ids)
  OBVIOUS
<1> SUFFICES c \in IndexerCommands /\ (c.op = "UpsertEdge" => Ends(c.edge) \subseteq ids)
  BY DEF Serves, Knows
<1> HIDE DEF ids
<1>3. c \in IndexCommands(Nat)
  BY <1>1, <1>2 DEF IndexCommands
<1>4. c.op = "UpsertEdge" => Ends(c.edge) \subseteq ids
  BY <1>2 DEF IndexCommands, Ends
<1> QED
  BY <1>3, <1>4 DEF IndexerCommands

(***************************************************************************)
(* What other writers may do to the tables under a thread.                 *)
(***************************************************************************)
Adds(p, d, new) == p = "daemon" \/ \A e \in new.edges : e \in d.edges \/ e[3] = "contains"

LEMMA LineUnderWrites ==
  ASSUME NEW d, NEW new, Sane(d), Follows(d, new), NEW p, NEW line, LineOK(p, line, d)
  PROVE  LineOK(p, line, new)
<1>1. 1..(d.next - 1) \subseteq 1..(new.next - 1)
  BY DEF Follows, Sane
<1> QED
  BY <1>1 DEF LineOK, Knows

LEMMA WorkUnderWrites ==
  ASSUME NEW d, NEW new, Sane(d), Follows(d, new), NEW p \in Processes, NEW q \in Processes, p # q,
         Adds(p, d, new), NEW th, NEW line, WorkOK(q, th, line, d)
  PROVE  WorkOK(q, th, line, new)
<1>1. SUFFICES ASSUME th # Receiving PROVE WorkOK(q, th, line, new)
  BY DEF WorkOK
<1> DEFINE e == th.command.edge
<1>2. 1..(d.next - 1) \subseteq 1..(new.next - 1) /\ \A id \in 1..(d.next - 1) : id < d.next
  BY DEF Follows, Sane
<1>3. Knows(new, th.command)
  BY <1>1, <1>2 DEF WorkOK, Knows
<1>4. ASSUME th.at = "update" PROVE e \in new.edges \/ ~(Ends(e) \subseteq Ids(new))
  <2>1. Ends(e) \subseteq 1..(d.next - 1)
    BY <1>1, <1>4 DEF WorkOK, Knows
  <2>2. e \in d.edges \/ ~(Ends(e) \subseteq Ids(d))
    BY <1>1, <1>4 DEF WorkOK
  <2> QED
    BY <1>2, <2>1, <2>2 DEF Follows
<1>5. ASSUME th.at = "insert", e[3] \in Sited PROVE e \notin new.edges
  <2>1. th.command.op = "UpsertEdge" /\ th.command \in Serves(q) /\ e \notin d.edges
    BY <1>1, <1>5 DEF WorkOK
  <2>2. q # "index"
    <3>1. SUFFICES ASSUME q = "index" PROVE e[3] = "contains"
      BY <1>5, TablesAssumption
    <3> QED
      BY <2>1, <3>1 DEF Serves, IndexerCommands, IndexCommands
  <2> QED
    BY <1>5, <2>1, <2>2, TablesAssumption DEF Adds, Processes
<1> HIDE DEF e
<1> QED
  BY <1>1, <1>3, <1>4, <1>5 DEF WorkOK, e

(***************************************************************************)
(* What a task sees, from its own state and its thread's.                  *)
(***************************************************************************)
LEMMA SeenIs ==
  /\ Seen = [t \in Tasks |-> View(t, task[t], thread[Owner(t)], channel[Owner(t)])]
  /\ Seen' = [t \in Tasks |-> View(t, task'[t], thread'[Owner(t)], channel'[Owner(t)])]
<1>1. Seen = [t \in Tasks |-> View(t, task[t], thread[Owner(t)], channel[Owner(t)])]
  BY DEF Seen, View, Underway, CommandUnderway
<1>2. Seen' = [t \in Tasks |-> View(t, task'[t], thread'[Owner(t)], channel'[Owner(t)])]
  BY DEF Seen, View, Underway, CommandUnderway
<1> QED
  BY <1>1, <1>2

LEMMA ViewWorked ==
  ASSUME NEW p, NEW d, NEW t, NEW k, NEW th, NEW line, WorkOK(p, th, line, d), TaskOK(t, k, th, line),
         th.at # "recv", th.task = t
  PROVE  /\ k.at \in {"wait", "dropped"} /\ (k.at = "wait" => th.command = k.command)
         /\ th.at # "reply" /\ k.at = "wait" => View(t, k, th, line) = [at |-> "pending", command |-> th.command]
         /\ th.at # "reply" /\ k.at = "dropped" => View(t, k, th, line) = [at |-> "stray", command |-> th.command]
         /\ th.at = "reply" /\ k.at = "wait" => View(t, k, th, line) = [at |-> "done", answer |-> th.answer]
         /\ th.at = "reply" /\ k.at = "dropped" => View(t, k, th, line) = [at |-> "idle"]
<1>1. th.at \in {"run", "insert", "update", "reply"} /\ \A i \in DOMAIN line : line[i].task # t
  BY DEF WorkOK, Receiving
<1>2. k.at \in {"wait", "dropped"} /\ (k.at = "wait" => th.command = k.command)
  BY DEF TaskOK, Working
<1>3. UnderwayIn(t, th, line) <=> th.at # "reply"
  BY <1>1 DEF UnderwayIn
<1>4. CommandIn(t, th, line) = th.command
  BY DEF CommandIn
<1> QED
  BY <1>1, <1>2, <1>3, <1>4 DEF View

LEMMA ViewLined ==
  ASSUME NEW p, NEW d, NEW t, NEW k, NEW th, NEW line, WorkOK(p, th, line, d), LineOK(p, line, d),
         TaskOK(t, k, th, line), NEW i \in DOMAIN line, line[i].task = t
  PROVE  /\ k.at \in {"wait", "dropped"} /\ (k.at = "wait" => line[i].command = k.command)
         /\ k.at = "wait" => View(t, k, th, line) = [at |-> "pending", command |-> line[i].command]
         /\ k.at = "dropped" => View(t, k, th, line) = [at |-> "stray", command |-> line[i].command]
<1>1. ~Working(th, t)
  BY DEF WorkOK, Working, Receiving
<1>2. k.at \in {"wait", "dropped"} /\ (k.at = "wait" => line[i].command = k.command)
  BY DEF TaskOK
<1>3. UnderwayIn(t, th, line)
  BY DEF UnderwayIn
<1>4. CommandIn(t, th, line) = line[i].command
  <2>1. CommandIn(t, th, line) = line[CHOOSE j \in DOMAIN line : line[j].task = t].command
    BY <1>1 DEF CommandIn, Working
  <2>2. \A j \in DOMAIN line : line[j].task = t => j = i
    BY DEF LineOK
  <2>3. (CHOOSE j \in DOMAIN line : line[j].task = t) = i
    BY <2>2
  <2> QED
    BY <2>1, <2>3
<1> QED
  BY <1>2, <1>3, <1>4 DEF View

LEMMA ViewAtRest ==
  ASSUME NEW p, NEW d, NEW t, NEW k, NEW th, NEW line, WorkOK(p, th, line, d),
         TaskOK(t, k, th, line), ~Working(th, t), \A i \in DOMAIN line : line[i].task # t
  PROVE  /\ k.at \in {"idle", "done", "dropped"}
         /\ k.at # "done" => View(t, k, th, line) = [at |-> "idle"]
         /\ k.at = "done" => View(t, k, th, line) = [at |-> "done", answer |-> k.answer]
<1>1. k.at \in {"idle", "done", "dropped"}
  BY DEF TaskOK
<1>2. ~UnderwayIn(t, th, line)
  BY DEF UnderwayIn, Working
<1> QED
  BY <1>1, <1>2 DEF View

(***************************************************************************)
(* Two places where a task's command may be: with the thread that works on *)
(* it, or in line.  A task sees no difference.                             *)
(***************************************************************************)
Placed(t, c, th, line) ==
    \/ th.at \in {"run", "insert", "update"} /\ th.task = t /\ th.command = c
    \/ \E i \in DOMAIN line : line[i].task = t /\ line[i].command = c

Answering(t, th) == th.at = "reply" /\ th.task = t

Same(t, th, line, th2, line2) ==
    /\ \A c : Placed(t, c, th, line) <=> Placed(t, c, th2, line2)
    /\ Answering(t, th) \/ Answering(t, th2) => th2 = th

LEMMA WorkingIs ==
  ASSUME NEW p, NEW d, NEW t, NEW th, NEW line, WorkOK(p, th, line, d)
  PROVE  /\ Working(th, t) <=> Answering(t, th) \/ (th.at \in {"run", "insert", "update"} /\ th.task = t)
         /\ Working(th, t) => \A i \in DOMAIN line : line[i].task # t
         /\ (\E c : Placed(t, c, th, line)) <=>
               (th.at \in {"run", "insert", "update"} /\ th.task = t) \/ \E i \in DOMAIN line : line[i].task = t
<1>1. Working(th, t) <=> Answering(t, th) \/ (th.at \in {"run", "insert", "update"} /\ th.task = t)
  BY DEF WorkOK, Working, Answering, Receiving
<1>2. Working(th, t) => \A i \in DOMAIN line : line[i].task # t
  BY DEF WorkOK, Working, Receiving
<1>3. (\E c : Placed(t, c, th, line)) <=>
         (th.at \in {"run", "insert", "update"} /\ th.task = t) \/ \E i \in DOMAIN line : line[i].task = t
  BY DEF Placed
<1> QED
  BY <1>1, <1>2, <1>3

LEMMA TaskIs ==
  ASSUME NEW p, NEW d, NEW t, NEW k, NEW th, NEW line, WorkOK(p, th, line, d)
  PROVE  TaskOK(t, k, th, line) <=>
            /\ k.at \in {"idle", "wait", "done", "dropped"}
            /\ k.at \in {"idle", "done"} => ~Answering(t, th) /\ \A c : ~Placed(t, c, th, line)
            /\ k.at = "wait" => Answering(t, th) \/ \E c : Placed(t, c, th, line)
            /\ k.at = "wait" /\ Answering(t, th) => th.command = k.command
            /\ k.at = "wait" => \A c : Placed(t, c, th, line) => c = k.command
<1>1. /\ Working(th, t) <=> Answering(t, th) \/ (th.at \in {"run", "insert", "update"} /\ th.task = t)
      /\ (\E c : Placed(t, c, th, line)) <=>
            (th.at \in {"run", "insert", "update"} /\ th.task = t) \/ \E i \in DOMAIN line : line[i].task = t
  BY WorkingIs
<1>2. \A c : Placed(t, c, th, line) <=>
            \/ th.at \in {"run", "insert", "update"} /\ th.task = t /\ th.command = c
            \/ \E i \in DOMAIN line : line[i].task = t /\ line[i].command = c
  BY DEF Placed
<1>3. (\A c : Placed(t, c, th, line) => c = k.command) <=>
            /\ th.at \in {"run", "insert", "update"} /\ th.task = t => th.command = k.command
            /\ \A i \in DOMAIN line : line[i].task = t => line[i].command = k.command
  BY <1>2
<1> QED
  BY <1>1, <1>3 DEF TaskOK

LEMMA ViewOfPlaced ==
  ASSUME NEW p, NEW d, NEW t, NEW k, NEW th, NEW line, WorkOK(p, th, line, d), LineOK(p, line, d),
         TaskOK(t, k, th, line), NEW c, Placed(t, c, th, line)
  PROVE  /\ k.at \in {"wait", "dropped"}
         /\ k.at = "wait" => View(t, k, th, line) = [at |-> "pending", command |-> c]
         /\ k.at = "dropped" => View(t, k, th, line) = [at |-> "stray", command |-> c]
<1>1. CASE th.at \in {"run", "insert", "update"} /\ th.task = t /\ th.command = c
  BY <1>1, ViewWorked
<1>2. CASE \E i \in DOMAIN line : line[i].task = t /\ line[i].command = c
  BY <1>2, ViewLined
<1> QED
  BY <1>1, <1>2 DEF Placed

LEMMA ViewOfNotPlaced ==
  ASSUME NEW p, NEW d, NEW t, NEW k, NEW th, NEW line, WorkOK(p, th, line, d),
         TaskOK(t, k, th, line), \A c : ~Placed(t, c, th, line)
  PROVE  /\ k.at = "wait" => Answering(t, th) /\ View(t, k, th, line) = [at |-> "done", answer |-> th.answer]
         /\ k.at = "done" => View(t, k, th, line) = [at |-> "done", answer |-> k.answer]
         /\ k.at \in {"idle", "dropped"} => View(t, k, th, line) = [at |-> "idle"]
<1>1. /\ ~(th.at \in {"run", "insert", "update"} /\ th.task = t)
      /\ ~(\E i \in DOMAIN line : line[i].task = t)
  BY WorkingIs
<1>2. ~UnderwayIn(t, th, line)
  BY <1>1 DEF UnderwayIn
<1>3. k.at = "wait" => Answering(t, th)
  BY TaskIs
<1> QED
  BY <1>2, <1>3 DEF View

LEMMA SameTask ==
  ASSUME NEW p, NEW d, NEW d2, NEW t, NEW k, NEW th, NEW line, NEW th2, NEW line2,
         WorkOK(p, th, line, d), WorkOK(p, th2, line2, d2), LineOK(p, line, d), LineOK(p, line2, d2),
         TaskOK(t, k, th, line), Same(t, th, line, th2, line2)
  PROVE  TaskOK(t, k, th2, line2) /\ View(t, k, th2, line2) = View(t, k, th, line)
<1>1. TaskOK(t, k, th2, line2)
  <2>1. Answering(t, th) <=> Answering(t, th2)
    BY DEF Same
  <2>2. Answering(t, th2) => th2 = th
    BY DEF Same
  <2>3. \A c : Placed(t, c, th, line) <=> Placed(t, c, th2, line2)
    BY DEF Same
  <2> QED
    BY <2>1, <2>2, <2>3, TaskIs
<1>2. CASE \E c : Placed(t, c, th, line)
  <2>1. PICK c : Placed(t, c, th, line) /\ Placed(t, c, th2, line2)
    BY <1>2 DEF Same
  <2> QED
    BY <1>1, <2>1, ViewOfPlaced
<1>3. CASE \A c : ~Placed(t, c, th, line)
  <2>1. \A c : ~Placed(t, c, th2, line2)
    BY <1>3 DEF Same
  <2>2. k.at \in {"wait", "done", "idle", "dropped"}
    BY DEF TaskOK
  <2>3. Answering(t, th) => th2 = th
    BY DEF Same
  <2>4. /\ k.at = "wait" => Answering(t, th) /\ View(t, k, th, line) = [at |-> "done", answer |-> th.answer]
        /\ k.at = "done" => View(t, k, th, line) = [at |-> "done", answer |-> k.answer]
        /\ k.at \in {"idle", "dropped"} => View(t, k, th, line) = [at |-> "idle"]
    BY <1>3, ViewOfNotPlaced
  <2>5. /\ k.at = "wait" => Answering(t, th2) /\ View(t, k, th2, line2) = [at |-> "done", answer |-> th2.answer]
        /\ k.at = "done" => View(t, k, th2, line2) = [at |-> "done", answer |-> k.answer]
        /\ k.at \in {"idle", "dropped"} => View(t, k, th2, line2) = [at |-> "idle"]
    BY <1>1, <2>1, ViewOfNotPlaced
  <2>6. CASE k.at = "wait"
    BY <1>1, <2>3, <2>4, <2>5, <2>6
  <2>7. CASE k.at = "done"
    BY <1>1, <2>4, <2>5, <2>7
  <2>8. CASE k.at \in {"idle", "dropped"}
    BY <1>1, <2>4, <2>5, <2>8
  <2> QED
    BY <2>2, <2>6, <2>7, <2>8
<1> QED
  BY <1>1, <1>2, <1>3

(***************************************************************************)
(* A line that one command has left.                                       *)
(***************************************************************************)
LeavesOut(line, gone, new) ==
    /\ Len(new) = Len(line) - 1
    /\ \A j \in 1..Len(new) : new[j] = IF j < gone THEN line[j] ELSE line[j + 1]

LEMMA RemovedLeavesOut ==
  ASSUME NEW S, NEW line \in Seq(S), NEW gone \in 1..Len(line)
  PROVE  RemoveAt(line, gone) \in Seq(S) /\ LeavesOut(line, gone, RemoveAt(line, gone))
<1> DEFINE before == SubSeq(line, 1, gone - 1)
           after == SubSeq(line, gone + 1, Len(line))
<1>0. Len(line) \in Nat
  OBVIOUS
<1>1. before \in Seq(S) /\ Len(before) = gone - 1 /\ \A j \in 1..(gone - 1) : before[j] = line[j]
  <2>1. 1 \in 1..(Len(line) + 1) /\ gone - 1 \in 0..Len(line)
    BY <1>0
  <2> QED
    BY <2>1
<1>2. after \in Seq(S) /\ Len(after) = Len(line) - gone
      /\ \A j \in 1..(Len(line) - gone) : after[j] = line[gone + j]
  BY <1>0
<1>3. RemoveAt(line, gone) = before \o after
  BY DEF RemoveAt
<1> HIDE DEF before, after
<1>4. before \o after \in Seq(S) /\ Len(before \o after) = Len(line) - 1
  <2>1. before \o after \in Seq(S)
    BY <1>1, <1>2, ConcatProperties
  <2>2. Len(before \o after) = Len(before) + Len(after)
    BY <1>1, <1>2, ConcatProperties
  <2> QED
    BY <1>0, <1>1, <1>2, <2>1, <2>2
<1>5. ASSUME NEW j \in 1..(Len(line) - 1)
      PROVE  (before \o after)[j] = IF j < gone THEN line[j] ELSE line[j + 1]
  BY <1>0, <1>1, <1>2
<1> QED
  BY <1>3, <1>4, <1>5 DEF LeavesOut

LEMMA TailLeavesOut ==
  ASSUME NEW S, NEW line \in Seq(S), line # <<>>
  PROVE  Tail(line) \in Seq(S) /\ LeavesOut(line, 1, Tail(line)) /\ Head(line) = line[1] /\ 1 \in DOMAIN line
  BY DEF LeavesOut

LEMMA LeftOut ==
  ASSUME NEW p, NEW d, NEW line, LineOK(p, line, d), NEW gone \in 1..Len(line),
         NEW new \in Seq(Entry(p)), LeavesOut(line, gone, new)
  PROVE  /\ LineOK(p, new, d)
         /\ \A j \in DOMAIN new : new[j].task # line[gone].task /\ \E i \in DOMAIN line : new[j] = line[i]
         /\ \A i \in DOMAIN line : i # gone => \E j \in DOMAIN new : new[j] = line[i]
<1>1. line \in Seq(Entry(p)) /\ Len(line) \in Nat /\ Len(new) \in Nat /\ DOMAIN line = 1..Len(line)
      /\ DOMAIN new = 1..Len(new) /\ Len(new) = Len(line) - 1 /\ gone \in 1..Len(line)
  BY DEF LineOK, LeavesOut
<1> DEFINE at(j) == IF j < gone THEN j ELSE j + 1
<1>2. \A j \in DOMAIN new : at(j) \in DOMAIN line /\ at(j) # gone /\ new[j] = line[at(j)]
  BY <1>1 DEF LeavesOut
<1>3. \A i, j \in DOMAIN new : at(i) = at(j) => i = j
  BY <1>1
<1>4. \A i \in DOMAIN line : i # gone => \E j \in DOMAIN new : at(j) = i
  <2> SUFFICES ASSUME NEW i \in DOMAIN line, i # gone PROVE \E j \in DOMAIN new : at(j) = i
    OBVIOUS
  <2>1. CASE i < gone
    BY <1>1, <2>1
  <2>2. CASE i > gone
    <3>1. i - 1 \in DOMAIN new /\ at(i - 1) = i
      BY <1>1, <2>2
    <3> QED
      BY <3>1
  <2> QED
    BY <1>1, <2>1, <2>2
<1> HIDE DEF at
<1>5. LineOK(p, new, d)
  BY <1>1, <1>2, <1>3 DEF LineOK
<1>6. \A j \in DOMAIN new : new[j].task # line[gone].task
  BY <1>1, <1>2 DEF LineOK
<1> QED
  BY <1>2, <1>4, <1>5, <1>6

-----------------------------------------------------------------------------
(***************************************************************************)
(* The inductive invariant.                                                *)
(***************************************************************************)
Gone(p) == channel[p] = <<>> /\ thread[p] = Receiving /\ \A t \in TasksOf(p) : task[t].at = "dropped"

ActorInv ==
    /\ Sane(db)
    /\ DOMAIN channel = Processes /\ DOMAIN thread = Processes /\ DOMAIN process = Processes /\ DOMAIN task = Tasks
    /\ \A p \in Processes : LineOK(p, channel[p], db) /\ WorkOK(p, thread[p], channel[p], db)
    /\ \A t \in Tasks : TaskOK(t, task[t], thread[Owner(t)], channel[Owner(t)])
    /\ \A p \in Processes : process[p] = "down" => Gone(p)

(***************************************************************************)
(* A step of one process.                                                  *)
(***************************************************************************)
Inside(p) ==
    /\ \A q \in Processes \ {p} : channel'[q] = channel[q] /\ thread'[q] = thread[q] /\ process'[q] = process[q]
    /\ \A t \in Tasks \ TasksOf(p) : task'[t] = task[t]
    /\ DOMAIN channel' = Processes /\ DOMAIN thread' = Processes /\ DOMAIN process' = Processes
    /\ DOMAIN task' = Tasks

LEMMA OwnerIs ==
  /\ \A t \in Tasks : Owner(t) \in Processes
  /\ \A p \in Processes : \A t : t \in TasksOf(p) <=> t \in Tasks /\ Owner(t) = p
  BY DEF Owner, Processes, TasksOf

LEMMA SeenInside ==
  ASSUME ActorInv, NEW p \in Processes, Inside(p)
  PROVE  /\ \A t \in Tasks \ TasksOf(p) : Seen'[t] = Seen[t]
         /\ \A t \in TasksOf(p) : /\ Seen[t] = View(t, task[t], thread[p], channel[p])
                                  /\ Seen'[t] = View(t, task'[t], thread'[p], channel'[p])
         /\ \A t \in Tasks \ TasksOf(p) : Owner(t) \in Processes \ {p}
<1>1. \A t \in Tasks : /\ Seen[t] = View(t, task[t], thread[Owner(t)], channel[Owner(t)])
                       /\ Seen'[t] = View(t, task'[t], thread'[Owner(t)], channel'[Owner(t)])
  BY SeenIs
<1>2. \A t \in Tasks \ TasksOf(p) : Owner(t) \in Processes \ {p}
  BY OwnerIs
<1>3. ASSUME NEW t \in Tasks \ TasksOf(p) PROVE Seen'[t] = Seen[t]
  <2>1. thread'[Owner(t)] = thread[Owner(t)] /\ channel'[Owner(t)] = channel[Owner(t)] /\ task'[t] = task[t]
    BY <1>2 DEF Inside
  <2> QED
    BY <1>1, <2>1
<1> QED
  BY <1>1, <1>2, <1>3, OwnerIs

LEMMA StepInside ==
  ASSUME ActorInv, NEW p \in Processes, Inside(p), Follows(db, db'), Adds(p, db, db'),
         LineOK(p, channel'[p], db'), WorkOK(p, thread'[p], channel'[p], db'),
         \A t \in TasksOf(p) : TaskOK(t, task'[t], thread'[p], channel'[p]),
         process'[p] = "down" => Gone(p)'
  PROVE  ActorInv'
<1>1. Sane(db')
  BY DEF Follows
<1>2. ASSUME NEW q \in Processes PROVE LineOK(q, channel'[q], db') /\ WorkOK(q, thread'[q], channel'[q], db')
  <2>1. CASE q = p
    BY <2>1
  <2>2. CASE q # p
    <3>1. thread'[q] = thread[q] /\ channel'[q] = channel[q]
      BY <2>2 DEF Inside
    <3>2. Sane(db) /\ LineOK(q, channel[q], db) /\ WorkOK(q, thread[q], channel[q], db)
      BY DEF ActorInv
    <3> QED
      BY <2>2, <3>1, <3>2, LineUnderWrites, WorkUnderWrites
  <2> QED
    BY <2>1, <2>2
<1>3. ASSUME NEW t \in Tasks PROVE TaskOK(t, task'[t], thread'[Owner(t)], channel'[Owner(t)])
  <2>1. CASE t \in TasksOf(p)
    BY <2>1, OwnerIs
  <2>2. CASE t \notin TasksOf(p)
    <3>1. Owner(t) \in Processes \ {p}
      BY <2>2, OwnerIs
    <3>2. thread'[Owner(t)] = thread[Owner(t)] /\ channel'[Owner(t)] = channel[Owner(t)] /\ task'[t] = task[t]
      BY <2>2, <3>1 DEF Inside
    <3> QED
      BY <3>2 DEF ActorInv
  <2> QED
    BY <2>1, <2>2
<1>4. ASSUME NEW q \in Processes, process'[q] = "down" PROVE Gone(q)'
  <2>1. CASE q = p
    BY <1>4, <2>1
  <2>2. CASE q # p
    <3>1. thread'[q] = thread[q] /\ channel'[q] = channel[q] /\ process'[q] = process[q]
      BY <2>2 DEF Inside
    <3>2. \A t \in TasksOf(q) : task'[t] = task[t]
      BY <2>2, OwnerIs DEF Inside
    <3>3. Gone(q)
      BY <1>4, <3>1 DEF ActorInv
    <3> QED
      BY <3>1, <3>2, <3>3 DEF Gone
  <2> QED
    BY <2>1, <2>2
<1>5. DOMAIN channel' = Processes /\ DOMAIN thread' = Processes /\ DOMAIN process' = Processes /\ DOMAIN task' = Tasks
  BY DEF Inside
<1> QED
  BY <1>1, <1>2, <1>3, <1>4, <1>5 DEF ActorInv

LEMMA SameInside ==
  ASSUME ActorInv, NEW p \in Processes, Inside(p),
         LineOK(p, channel'[p], db'), WorkOK(p, thread'[p], channel'[p], db'),
         NEW t \in TasksOf(p), task'[t] = task[t], Same(t, thread[p], channel[p], thread'[p], channel'[p])
  PROVE  TaskOK(t, task'[t], thread'[p], channel'[p]) /\ Seen'[t] = Seen[t]
<1>1. LineOK(p, channel[p], db) /\ WorkOK(p, thread[p], channel[p], db) /\ TaskOK(t, task[t], thread[p], channel[p])
  BY OwnerIs DEF ActorInv
<1>2. /\ TaskOK(t, task[t], thread'[p], channel'[p])
      /\ View(t, task[t], thread'[p], channel'[p]) = View(t, task[t], thread[p], channel[p])
  BY <1>1, SameTask
<1> QED
  BY <1>2, SeenInside

LEMMA SeenStays ==
  ASSUME \A t \in Tasks : Seen'[t] = Seen[t]
  PROVE  Seen' = Seen
<1> DEFINE old == [t \in Tasks |-> View(t, task[t], thread[Owner(t)], channel[Owner(t)])]
           new == [t \in Tasks |-> View(t, task'[t], thread'[Owner(t)], channel'[Owner(t)])]
<1>1. Seen = old /\ Seen' = new
  BY SeenIs
<1>2. old = [t \in Tasks |-> old[t]] /\ new = [t \in Tasks |-> new[t]]
  OBVIOUS
<1> HIDE DEF old, new
<1> QED
  BY <1>1, <1>2

LEMMA SeenChanges ==
  ASSUME NEW t \in Tasks, NEW x, Seen'[t] = x, \A u \in Tasks \ {t} : Seen'[u] = Seen[u]
  PROVE  Seen' = [Seen EXCEPT ![t] = x]
<1> DEFINE old == [u \in Tasks |-> View(u, task[u], thread[Owner(u)], channel[Owner(u)])]
           new == [u \in Tasks |-> View(u, task'[u], thread'[Owner(u)], channel'[Owner(u)])]
<1>1. Seen = old /\ Seen' = new
  BY SeenIs
<1>2. old = [u \in Tasks |-> old[u]] /\ new = [u \in Tasks |-> new[u]]
  OBVIOUS
<1> HIDE DEF old, new
<1> QED
  BY <1>1, <1>2

(***************************************************************************)
(* The thread's steps.                                                     *)
(***************************************************************************)
LEMMA NothingWritten ==
  ASSUME ActorInv, UNCHANGED db, NEW p
  PROVE  Follows(db, db') /\ Adds(p, db, db')
<1>1. Follows(db, db)
  BY FollowsItself DEF ActorInv
<1>2. Adds(p, db, db)
  BY DEF Adds
<1>3. db' = db
  OBVIOUS
<1> QED
  BY <1>1, <1>2, <1>3

LEMMA ReceiveStep ==
  ASSUME ActorInv, NEW p \in Processes, Receive(p)
  PROVE  ActorInv' /\ Seen' = Seen
<1> DEFINE line == channel[p]
           new == Tail(line)
           th == [at |-> "run", task |-> line[1].task, command |-> line[1].command]
<1>1. LineOK(p, line, db) /\ line \in Seq(Entry(p)) /\ line # <<>> /\ thread[p].at = "recv"
  BY DEF ActorInv, LineOK, Receive
<1>2. /\ new \in Seq(Entry(p)) /\ LeavesOut(line, 1, new) /\ Head(line) = line[1]
      /\ 1 \in 1..Len(line) /\ 1 \in DOMAIN line
  BY <1>1, TailLeavesOut
<1>3. /\ channel' = [channel EXCEPT ![p] = new] /\ thread' = [thread EXCEPT ![p] = th]
      /\ UNCHANGED <<db, task, process>>
  BY <1>2 DEF Receive, Sets
<1> HIDE DEF new, line, th
<1>4. Inside(p) /\ channel'[p] = new /\ thread'[p] = th /\ process'[p] = process[p] /\ thread[p].at = "recv"
      /\ channel[p] = line
  BY <1>1, <1>3 DEF Inside, ActorInv, line
<1>5. /\ LineOK(p, new, db)
      /\ \A j \in DOMAIN new : new[j].task # line[1].task /\ \E i \in DOMAIN line : new[j] = line[i]
      /\ \A i \in DOMAIN line : i # 1 => \E j \in DOMAIN new : new[j] = line[i]
  BY <1>1, <1>2, LeftOut
<1>6. WorkOK(p, th, new, db)
  <2>1. line[1] \in Entry(p) /\ Knows(db, line[1].command)
    BY <1>1, <1>2 DEF LineOK
  <2> QED
    BY <1>5, <2>1 DEF WorkOK, Entry, th
<1>7. ASSUME NEW t \in TasksOf(p) PROVE Same(t, thread[p], line, th, new)
  <2>1. ~Answering(t, thread[p]) /\ ~Answering(t, th)
    BY <1>4 DEF Answering, th
  <2>2. ASSUME NEW c PROVE Placed(t, c, thread[p], line) <=> Placed(t, c, th, new)
    <3>1. Placed(t, c, thread[p], line) <=> \E i \in DOMAIN line : line[i].task = t /\ line[i].command = c
      BY <1>4 DEF Placed
    <3>2. Placed(t, c, th, new) <=> \/ line[1].task = t /\ line[1].command = c
                                    \/ \E i \in DOMAIN new : new[i].task = t /\ new[i].command = c
      BY DEF Placed, th
    <3> QED
      BY <1>2, <1>5, <3>1, <3>2
  <2> QED
    BY <2>1, <2>2 DEF Same
<1>8. LineOK(p, channel'[p], db') /\ WorkOK(p, thread'[p], channel'[p], db')
  BY <1>3, <1>4, <1>5, <1>6
<1>9. ASSUME NEW t \in TasksOf(p) PROVE TaskOK(t, task'[t], thread'[p], channel'[p]) /\ Seen'[t] = Seen[t]
  <2>1. task'[t] = task[t] /\ Same(t, thread[p], channel[p], thread'[p], channel'[p])
    BY <1>3, <1>4, <1>7
  <2> QED
    BY <1>4, <1>8, <2>1, SameInside
<1>10. process[p] # "down"
  BY <1>1 DEF ActorInv, Gone, line
<1>11. ActorInv'
  BY <1>3, <1>4, <1>8, <1>9, <1>10, StepInside, NothingWritten
<1>12. \A t \in Tasks : Seen'[t] = Seen[t]
  BY <1>4, <1>9, SeenInside
<1> QED
  BY <1>11, <1>12, SeenStays

LEMMA SelectEdgeStep ==
  ASSUME ActorInv, NEW p \in Processes, SelectEdge(p)
  PROVE  ActorInv' /\ Seen' = Seen
<1> DEFINE line == channel[p]
           old == thread[p]
           at == IF old.command.edge \in db.edges THEN "update" ELSE "insert"
           th == [at |-> at, task |-> old.task, command |-> old.command]
<1>1. LineOK(p, line, db) /\ WorkOK(p, old, line, db) /\ old.at = "run" /\ old.command.op = "UpsertEdge"
  BY DEF ActorInv, SelectEdge
<1>2. [old EXCEPT !.at = at] = th
  <2>1. old = [at |-> old.at, task |-> old.task, command |-> old.command]
    BY <1>1 DEF WorkOK, Receiving
  <2> QED
    BY <2>1
<1>3. thread' = [thread EXCEPT ![p] = th] /\ UNCHANGED <<db, channel, task, process>>
  BY <1>2 DEF SelectEdge, Sets
<1> HIDE DEF line, old, th
<1>4. Inside(p) /\ channel'[p] = line /\ thread'[p] = th /\ process'[p] = process[p] /\ thread[p] = old
      /\ channel[p] = line
  BY <1>3 DEF Inside, ActorInv, line, old
<1>5. WorkOK(p, th, line, db)
  BY <1>1 DEF WorkOK, th, Receiving
<1>6. ASSUME NEW t \in TasksOf(p) PROVE Same(t, old, line, th, line)
  BY <1>1 DEF Same, Placed, Answering, th
<1>8. LineOK(p, channel'[p], db') /\ WorkOK(p, thread'[p], channel'[p], db')
  BY <1>1, <1>3, <1>4, <1>5
<1>9. ASSUME NEW t \in TasksOf(p) PROVE TaskOK(t, task'[t], thread'[p], channel'[p]) /\ Seen'[t] = Seen[t]
  <2>1. task'[t] = task[t] /\ Same(t, thread[p], channel[p], thread'[p], channel'[p])
    BY <1>3, <1>4, <1>6
  <2> QED
    BY <1>4, <1>8, <2>1, SameInside
<1>10. process[p] # "down"
  BY <1>1 DEF ActorInv, Gone, old, Receiving
<1>11. ActorInv'
  BY <1>3, <1>4, <1>8, <1>9, <1>10, StepInside, NothingWritten
<1>12. \A t \in Tasks : Seen'[t] = Seen[t]
  BY <1>4, <1>9, SeenInside
<1> QED
  BY <1>11, <1>12, SeenStays

(***************************************************************************)
(* A command that has written: whoever called has its answer, though it    *)
(* was not sent yet.                                                       *)
(***************************************************************************)
Ended(at, answer) == IF at = "stray" THEN [at |-> "idle"] ELSE [at |-> "done", answer |-> answer]

LEMMA AnswersStep ==
  ASSUME ActorInv, NEW p \in Processes, thread[p].at \in {"run", "update", "insert"}, NEW done, NEW again,
         Answers(p, done, again), Follows(db, done.tables), Adds(p, db, done.tables)
  PROVE  /\ ActorInv'
         /\ \E t \in Tasks : /\ Seen[t].at \in {"pending", "stray"} /\ Seen[t].command = thread[p].command
                             /\ Seen' = [Seen EXCEPT ![t] = Ended(Seen[t].at, done.answer)]
<1> DEFINE line == channel[p]
           old == thread[p]
           t == old.task
           th == [at |-> "reply", task |-> old.task, command |-> old.command, answer |-> done.answer]
<1>1. LineOK(p, line, db) /\ WorkOK(p, old, line, db) /\ old.at \in {"run", "update", "insert"}
  BY DEF ActorInv
<1>2. /\ thread' = [thread EXCEPT ![p] = th] /\ db' = done.tables /\ UNCHANGED <<channel, task, process>>
  BY DEF Answers, Sets
<1> HIDE DEF line, old, th
<1>3. Inside(p) /\ channel'[p] = line /\ thread'[p] = th /\ process'[p] = process[p] /\ thread[p] = old
      /\ channel[p] = line
  BY <1>2 DEF Inside, ActorInv, line, old
<1>4. t \in TasksOf(p) /\ t \in Tasks /\ TaskOK(t, task[t], old, line)
  BY <1>1, <1>3, OwnerIs DEF WorkOK, Receiving, ActorInv
<1>5. WorkOK(p, th, line, db')
  <2>1. WorkOK(p, th, line, db)
    BY <1>1 DEF WorkOK, th, Receiving
  <2>2. Knows(db', th.command)
    <3>1. Knows(db, th.command)
      BY <2>1 DEF WorkOK, th, Receiving
    <3>2. 1..(db.next - 1) \subseteq 1..(db'.next - 1)
      BY <1>2 DEF Follows, Sane, ActorInv
    <3> QED
      BY <3>1, <3>2 DEF Knows
  <2> QED
    BY <2>1, <2>2 DEF WorkOK, th, Receiving
<1>6. LineOK(p, line, db')
  BY <1>1, <1>2, LineUnderWrites DEF ActorInv
<1>7. LineOK(p, channel'[p], db') /\ WorkOK(p, thread'[p], channel'[p], db')
  BY <1>3, <1>5, <1>6
<1>8. ASSUME NEW u \in TasksOf(p), u # t PROVE TaskOK(u, task'[u], thread'[p], channel'[p]) /\ Seen'[u] = Seen[u]
  <2>1. Same(u, old, line, th, line)
    BY <1>1, <1>8 DEF Same, Placed, Answering, th
  <2>2. task'[u] = task[u] /\ Same(u, thread[p], channel[p], thread'[p], channel'[p])
    BY <1>2, <1>3, <2>1
  <2> QED
    BY <1>3, <1>7, <2>2, SameInside
<1>9. task[t].at \in {"wait", "dropped"} /\ Working(old, t) /\ Working(th, t)
  BY <1>1, <1>4 DEF TaskOK, Working, th
<1>10. TaskOK(t, task[t], th, line)
  BY <1>4, <1>9 DEF TaskOK, th, Working
<1>11. /\ Seen[t] = View(t, task[t], old, line)
       /\ Seen'[t] = View(t, task[t], th, line)
  BY <1>2, <1>3, <1>4, SeenInside
<1>12. /\ Seen[t] = [at |-> IF task[t].at = "wait" THEN "pending" ELSE "stray", command |-> old.command]
       /\ Seen'[t] = IF task[t].at = "wait" THEN [at |-> "done", answer |-> done.answer] ELSE [at |-> "idle"]
  <2>1. Seen[t] = [at |-> IF task[t].at = "wait" THEN "pending" ELSE "stray", command |-> old.command]
    BY <1>1, <1>4, <1>9, <1>11, ViewWorked
  <2>2. th.at = "reply" /\ th.task = t /\ th.answer = done.answer
    BY DEF th
  <2>3. Seen'[t] = IF task[t].at = "wait" THEN [at |-> "done", answer |-> done.answer] ELSE [at |-> "idle"]
    BY <1>5, <1>9, <1>10, <1>11, <2>2, ViewWorked
  <2> QED
    BY <2>1, <2>3
<1>13. Seen'[t] = Ended(Seen[t].at, done.answer) /\ Seen[t].at \in {"pending", "stray"} /\ Seen[t].command = old.command
  BY <1>9, <1>12 DEF Ended
<1>14. process[p] # "down"
  BY <1>1 DEF ActorInv, Gone, old, Receiving
<1>15. \A u \in TasksOf(p) : TaskOK(u, task'[u], thread'[p], channel'[p])
  BY <1>2, <1>3, <1>8, <1>10
<1>16. ActorInv'
  BY <1>2, <1>3, <1>7, <1>14, <1>15, StepInside
<1>17. \A u \in Tasks \ {t} : Seen'[u] = Seen[u]
  BY <1>3, <1>8, SeenInside
<1>18. Seen' = [Seen EXCEPT ![t] = Ended(Seen[t].at, done.answer)]
  BY <1>4, <1>13, <1>17, SeenChanges
<1> QED
  BY <1>3, <1>4, <1>13, <1>16, <1>18

LEMMA RunStep ==
  ASSUME ActorInv, NEW p \in Processes, Run(p)
  PROVE  ActorInv' /\ \E t \in Tasks : Store!Apply(t)
<1> DEFINE c == thread[p].command
           done == Execute(db, c)
<1>1. WorkOK(p, thread[p], channel[p], db) /\ Sane(db) /\ thread[p].at = "run"
  BY DEF ActorInv, Run
<1>2. c \in Serves(p)
  BY <1>1 DEF WorkOK, Receiving
<1>3. Answers(p, done, {})
  BY DEF Run
<1>4. Follows(db, done.tables)
  BY <1>1, <1>2, ExecuteFollows
<1>5. Adds(p, db, done.tables)
  <2>1. p = "daemon" \/ c \in IndexerCommands
    BY <1>2 DEF Serves
  <2> QED
    BY <1>1, <2>1, IndexAddsContainment DEF Adds
<1>6. db' = done.tables /\ losses' = losses
  BY <1>3 DEF Answers, Run, counts
<1> HIDE DEF done
<1>7. PICK t \in Tasks : /\ Seen[t].at \in {"pending", "stray"} /\ Seen[t].command = c
                         /\ Seen' = [Seen EXCEPT ![t] = Ended(Seen[t].at, done.answer)]
  BY <1>1, <1>3, <1>4, <1>5, AnswersStep
<1>8. Store!Apply(t)
  BY <1>6, <1>7 DEF Store!Apply, Store!Becomes, Store!Idle, Ended, done
<1>9. ActorInv'
  BY <1>1, <1>3, <1>4, <1>5, AnswersStep
<1> QED
  BY <1>8, <1>9

LEMMA InsertEdgeStep ==
  ASSUME ActorInv, NEW p \in Processes, InsertEdge(p)
  PROVE  ActorInv' /\ \E t \in Tasks : Store!Apply(t)
<1> DEFINE c == thread[p].command
           e == c.edge
           done == upsert_edge(db, c)
<1>1. WorkOK(p, thread[p], channel[p], db) /\ Sane(db) /\ thread[p].at = "insert"
  BY DEF ActorInv, InsertEdge
<1>2. c \in Serves(p) /\ c.op = "UpsertEdge" /\ (e[3] \in Sited => e \notin db.edges)
  BY <1>1 DEF WorkOK, Receiving
<1>3. done = Execute(db, c)
  BY <1>2 DEF Execute
<1>4. PICK again : Answers(p, done, again)
  BY <1>2 DEF InsertEdge, upsert_edge
<1>5. Follows(db, done.tables)
  BY <1>1, <1>2, <1>3, ExecuteFollows
<1>6. Adds(p, db, done.tables)
  <2>1. p = "daemon" \/ c \in IndexerCommands
    BY <1>2 DEF Serves
  <2> QED
    BY <1>1, <1>3, <2>1, IndexAddsContainment DEF Adds
<1>7. db' = done.tables /\ losses' = losses
  BY <1>4 DEF Answers, InsertEdge, counts
<1> HIDE DEF done
<1>8. PICK t \in Tasks : /\ Seen[t].at \in {"pending", "stray"} /\ Seen[t].command = c
                         /\ Seen' = [Seen EXCEPT ![t] = Ended(Seen[t].at, done.answer)]
  BY <1>1, <1>4, <1>5, <1>6, AnswersStep
<1>9. Store!Apply(t)
  BY <1>3, <1>7, <1>8 DEF Store!Apply, Store!Becomes, Store!Idle, Ended
<1>10. ActorInv'
  BY <1>1, <1>4, <1>5, <1>6, AnswersStep
<1> QED
  BY <1>9, <1>10

LEMMA ReactivateEdgeStep ==
  ASSUME ActorInv, NEW p \in Processes, ReactivateEdge(p)
  PROVE  ActorInv' /\ \E t \in Tasks : Store!Apply(t) \/ Store!Outrun(t)
<1> DEFINE c == thread[p].command
           e == c.edge
           on == db.on \cup ({e} \cap db.edges)
           new == [db EXCEPT !.on = on]
           done == Done(new, {})
<1>1. WorkOK(p, thread[p], channel[p], db) /\ Sane(db) /\ thread[p].at = "update"
  BY DEF ActorInv, ReactivateEdge
<1>2. c.op = "UpsertEdge" /\ (e \in db.edges \/ ~(Ends(e) \subseteq Ids(db)))
  BY <1>1 DEF WorkOK, Receiving
<1>3. Answers(p, done, {})
  BY DEF ReactivateEdge
<1>4. done.tables = new /\ done.answer = [ok |-> TRUE, values |-> {}]
  BY DEF Done
<1> HIDE DEF done
<1>5. Record(new) /\ new.nodes = db.nodes /\ new.edges = db.edges /\ new.next = db.next
  <2> HIDE DEF on
  <2> QED
    BY <1>1 DEF Sane, Record
<1>6. Follows(db, new) /\ Adds(p, db, new)
  <2> HIDE DEF new
  <2> QED
    BY <1>1, <1>5, SameRowsFollow DEF Ids, Adds
<1>7. db' = new /\ losses' = losses
  BY <1>3, <1>4 DEF Answers, ReactivateEdge, counts
<1>8. PICK t \in Tasks : /\ Seen[t].at \in {"pending", "stray"} /\ Seen[t].command = c
                         /\ Seen' = [Seen EXCEPT ![t] = Ended(Seen[t].at, done.answer)]
  BY <1>1, <1>3, <1>4, <1>6, AnswersStep
<1>9. ActorInv'
  BY <1>1, <1>3, <1>4, <1>6, AnswersStep
<1>10. CASE e \in db.edges
  <2>1. Ends(e) \subseteq Ids(db)
    BY <1>1, <1>10 DEF Sane
  <2>2. Execute(db, c) = Done(SwitchedOn(db, e), {})
    BY <1>2, <2>1 DEF Execute, upsert_edge, Ends
  <2>3. SwitchedOn(db, e) = new
    <3> DEFINE lit == db.on \cup {e}
               edges == db.edges \cup {e}
    <3>1. SwitchedOn(db, e) = [db EXCEPT !.edges = edges, !.on = lit]
      BY DEF SwitchedOn
    <3>2. edges = db.edges /\ lit = on
      BY <1>10
    <3> HIDE DEF lit, edges, on
    <3>3. [db EXCEPT !.edges = edges, !.on = lit] = [db EXCEPT !.on = on]
      BY <1>1, <3>2 DEF Sane, Record
    <3> QED
      BY <3>1, <3>3
  <2>4. Execute(db, c).tables = new /\ Execute(db, c).answer = done.answer
    BY <1>4, <2>2, <2>3 DEF Done
  <2>5. Store!Apply(t)
    BY <1>7, <1>8, <2>4 DEF Store!Apply, Store!Becomes, Store!Idle, Ended
  <2> QED
    BY <1>9, <2>5
<1>11. CASE e \notin db.edges
  <2>1. Overtaken(db, c)
    BY <1>2, <1>11 DEF Overtaken, Ends
  <2>2. new = db
    <3>1. on = db.on
      BY <1>11
    <3> HIDE DEF on
    <3> QED
      BY <1>1, <3>1 DEF Sane, Record
  <2>3. Store!Outrun(t)
    BY <1>4, <1>7, <1>8, <2>1, <2>2 DEF Store!Outrun, Store!Becomes, Store!Idle, Ended
  <2> QED
    BY <1>9, <2>3
<1> QED
  BY <1>10, <1>11

LEMMA StatementFailsStep ==
  ASSUME ActorInv, NEW p \in Processes, StatementFails(p)
  PROVE  ActorInv' /\ \E t \in Tasks : Store!Refuse(t)
<1> DEFINE done == Failed(db)
<1>1. Sane(db) /\ thread[p].at \in {"run", "update", "insert"} /\ Answers(p, done, {})
      /\ losses' = losses + 1
  BY DEF ActorInv, StatementFails
<1>2. done.tables = db /\ done.answer = [ok |-> FALSE, values |-> {}]
  BY DEF Failed
<1> HIDE DEF done
<1>3. db' = db
  BY <1>1, <1>2 DEF Answers
<1>4. Follows(db, db) /\ Adds(p, db, db)
  BY <1>1, SameRowsFollow DEF Sane, Adds
<1>5. Follows(db, done.tables) /\ Adds(p, db, done.tables)
  BY <1>2, <1>4
<1>6. PICK t \in Tasks : /\ Seen[t].at \in {"pending", "stray"} /\ Seen[t].command = thread[p].command
                         /\ Seen' = [Seen EXCEPT ![t] = Ended(Seen[t].at, done.answer)]
  BY <1>1, <1>5, AnswersStep
<1>7. Store!Refuse(t)
  BY <1>1, <1>2, <1>3, <1>6 DEF Store!Refuse, Store!Becomes, Store!Idle, Ended
<1>8. ActorInv'
  BY <1>1, <1>5, AnswersStep
<1> QED
  BY <1>7, <1>8

LEMMA ReplyStep ==
  ASSUME ActorInv, NEW p \in Processes, Reply(p)
  PROVE  ActorInv' /\ Seen' = Seen
<1> DEFINE line == channel[p]
           old == thread[p]
           t == old.task
           k == IF task[t].at = "wait" THEN [at |-> "done", answer |-> old.answer] ELSE task[t]
<1>1. LineOK(p, line, db) /\ WorkOK(p, old, line, db) /\ old.at = "reply"
  BY DEF ActorInv, Reply
<1>2. /\ thread' = [thread EXCEPT ![p] = Receiving] /\ UNCHANGED <<db, channel, process>>
      /\ task' = IF task[t].at = "wait" THEN [task EXCEPT ![t] = k] ELSE task
  BY DEF Reply, Sets, Goes, IsAt
<1>3. t \in TasksOf(p) /\ t \in Tasks
  BY <1>1, OwnerIs DEF WorkOK, Receiving
<1> HIDE DEF line, old, k
<1>4. Inside(p) /\ channel'[p] = line /\ thread'[p] = Receiving /\ process'[p] = process[p] /\ thread[p] = old
      /\ channel[p] = line /\ task'[t] = k /\ \A u \in Tasks \ {t} : task'[u] = task[u]
  BY <1>2, <1>3 DEF Inside, ActorInv, line, old, k
<1>5. TaskOK(t, task[t], old, line)
  BY <1>3, <1>4, OwnerIs DEF ActorInv
<1>6. WorkOK(p, Receiving, line, db)
  BY DEF WorkOK
<1>7. LineOK(p, channel'[p], db') /\ WorkOK(p, thread'[p], channel'[p], db')
  BY <1>1, <1>2, <1>4, <1>6
<1>8. ASSUME NEW u \in TasksOf(p), u # t PROVE TaskOK(u, task'[u], thread'[p], channel'[p]) /\ Seen'[u] = Seen[u]
  <2>1. Same(u, old, line, Receiving, line)
    BY <1>1, <1>8 DEF Same, Placed, Answering, Receiving
  <2>2. task'[u] = task[u] /\ Same(u, thread[p], channel[p], thread'[p], channel'[p])
    BY <1>4, <1>8, <2>1, OwnerIs
  <2> QED
    BY <1>4, <1>7, <2>2, SameInside
<1>9. task[t].at \in {"wait", "dropped"} /\ \A i \in DOMAIN line : line[i].task # t
  BY <1>1, <1>5 DEF TaskOK, Working, WorkOK, Receiving
<1>10. TaskOK(t, k, Receiving, line) /\ k.at \in {"done", "dropped"}
  BY <1>9 DEF TaskOK, k, Working, Receiving
<1>11. Seen[t] = View(t, task[t], old, line) /\ Seen'[t] = View(t, k, Receiving, line)
  BY <1>3, <1>4, SeenInside
<1>12. Seen'[t] = IF task[t].at = "wait" THEN [at |-> "done", answer |-> old.answer] ELSE [at |-> "idle"]
  <2>1. ~Working(Receiving, t)
    BY DEF Working, Receiving
  <2>2. Seen'[t] = IF k.at = "done" THEN [at |-> "done", answer |-> k.answer] ELSE [at |-> "idle"]
    BY <1>6, <1>9, <1>10, <1>11, <2>1, ViewAtRest
  <2> QED
    BY <1>9, <2>2 DEF k
<1>13. Seen[t] = IF task[t].at = "wait" THEN [at |-> "done", answer |-> old.answer] ELSE [at |-> "idle"]
  BY <1>1, <1>5, <1>9, <1>11, ViewWorked
<1>14. process[p] # "down"
  BY <1>1, <1>4 DEF ActorInv, Gone, Receiving
<1>15. \A u \in TasksOf(p) : TaskOK(u, task'[u], thread'[p], channel'[p])
  BY <1>4, <1>8, <1>10
<1>16. ActorInv'
  BY <1>2, <1>4, <1>7, <1>14, <1>15, StepInside, NothingWritten
<1>17. \A u \in Tasks : Seen'[u] = Seen[u]
  BY <1>4, <1>8, <1>12, <1>13, SeenInside
<1> QED
  BY <1>16, <1>17, SeenStays

(***************************************************************************)
(* The tasks' steps.                                                       *)
(***************************************************************************)
LEMMA ActorCallStep ==
  ASSUME ActorInv, NEW t \in Tasks, NEW c \in CommandsOf(t), Call(t, c)
  PROVE  ActorInv' /\ Store!Begin(t)
<1> DEFINE p == Owner(t)
           line == channel[p]
           th == thread[p]
           last == [task |-> t, command |-> c]
           new == Append(line, last)
           k == [at |-> "wait", command |-> c]
<1>1. p \in Processes /\ t \in TasksOf(p)
  BY OwnerIs
<1>2. LineOK(p, line, db) /\ WorkOK(p, th, line, db) /\ TaskOK(t, task[t], th, line) /\ Sane(db)
  BY <1>1 DEF ActorInv
<1>3. /\ channel' = [channel EXCEPT ![p] = new] /\ task' = [task EXCEPT ![t] = k]
      /\ process[p] = "up" /\ task[t].at = "idle" /\ UNCHANGED <<db, thread, process, losses>>
  BY DEF Call, IsAt, Goes
<1>4. c \in Serves(p) /\ Knows(db, c) /\ c \in Commands(db)
  <2> DEFINE ids == 1..(db.next - 1)
  <2>1. CASE t = Indexer
    <3>0. CommandsOf(t) = IndexCommands(ids)
      BY <2>1, ActorAssumption DEF CommandsOf
    <3>1. c \in IndexCommands(ids)
      BY <3>0
    <3>2. p = "index"
      BY <2>1 DEF Owner
    <3> QED
      BY <1>2, <3>1, <3>2, IndexerServes DEF Commands
  <2>2. CASE t # Indexer
    <3>1. c \in QueryCommands(ids) \cup SyncCommands
      BY <2>2 DEF CommandsOf
    <3>2. p = "daemon"
      BY <2>2 DEF Owner
    <3> QED
      BY <1>2, <3>1, <3>2, DaemonServes DEF Commands
  <2> QED
    BY <2>1, <2>2
<1> HIDE DEF p, line, th, last, new, k
<1>5. Inside(p) /\ channel'[p] = new /\ thread'[p] = th /\ process'[p] = "up" /\ thread[p] = th
      /\ channel[p] = line /\ task'[t] = k /\ \A u \in Tasks \ {t} : task'[u] = task[u]
  BY <1>1, <1>3 DEF Inside, ActorInv, line, th
<1>6. ~Working(th, t) /\ \A i \in DOMAIN line : line[i].task # t
  BY <1>2, <1>3 DEF TaskOK
<1>7. /\ new \in Seq(Entry(p)) /\ Len(new) = Len(line) + 1 /\ new[Len(line) + 1] = last /\ Len(line) \in Nat
      /\ \A i \in 1..Len(line) : new[i] = line[i]
      /\ DOMAIN line = 1..Len(line) /\ DOMAIN new = 1..(Len(line) + 1)
  <2>1. last \in Entry(p) /\ line \in Seq(Entry(p))
    BY <1>1, <1>2, <1>4 DEF LineOK, Entry, last
  <2> QED
    BY <2>1 DEF new
<1>8. /\ Len(line) + 1 \in DOMAIN new /\ \A i \in DOMAIN line : i \in DOMAIN new
      /\ \A i \in DOMAIN new : i \in DOMAIN line \/ i = Len(line) + 1
  BY <1>7
<1>9. LineOK(p, new, db)
  <2>1. \A i \in DOMAIN new : Knows(db, new[i].command)
    BY <1>2, <1>4, <1>7, <1>8 DEF LineOK, last
  <2>2. \A i, j \in DOMAIN new : new[i].task = new[j].task => i = j
    BY <1>2, <1>6, <1>7, <1>8 DEF LineOK, last
  <2> QED
    BY <1>7, <2>1, <2>2 DEF LineOK
<1>10. WorkOK(p, th, new, db)
  <2>1. \A i \in DOMAIN new : th # Receiving => new[i].task # th.task
    BY <1>2, <1>6, <1>7, <1>8 DEF WorkOK, last, Working, Receiving
  <2> QED
    BY <1>2, <2>1 DEF WorkOK
<1>11. LineOK(p, channel'[p], db') /\ WorkOK(p, thread'[p], channel'[p], db')
  BY <1>3, <1>5, <1>9, <1>10
<1>12. ASSUME NEW u \in TasksOf(p), u # t PROVE TaskOK(u, task'[u], thread'[p], channel'[p]) /\ Seen'[u] = Seen[u]
  <2>1. Same(u, th, line, th, new)
    BY <1>7, <1>8, <1>12 DEF Same, Placed, last
  <2>2. task'[u] = task[u] /\ Same(u, thread[p], channel[p], thread'[p], channel'[p])
    BY <1>1, <1>5, <1>12, <2>1, OwnerIs
  <2> QED
    BY <1>1, <1>5, <1>11, <2>2, SameInside
<1>13. TaskOK(t, k, th, new)
  <2>1. \A i \in DOMAIN new : new[i].task = t => new[i].command = c
    BY <1>6, <1>7, <1>8 DEF last
  <2>2. \E i \in DOMAIN new : new[i].task = t
    BY <1>7, <1>8 DEF last
  <2> QED
    BY <1>6, <2>1, <2>2 DEF TaskOK, k
<1>14. Seen'[t] = [at |-> "pending", command |-> c]
  <2>1. Seen'[t] = View(t, k, th, new)
    BY <1>1, <1>5, SeenInside
  <2>2. Placed(t, c, th, new)
    BY <1>7, <1>8 DEF Placed, last
  <2>3. k.at = "wait"
    BY DEF k
  <2> QED
    BY <1>9, <1>10, <1>13, <2>1, <2>2, <2>3, ViewOfPlaced
<1>15. Seen[t] = [at |-> "idle"]
  <2>1. Seen[t] = View(t, task[t], th, line)
    BY <1>1, <1>5, SeenInside
  <2> QED
    BY <1>2, <1>3, <1>6, <2>1, ViewAtRest
<1>16. ActorInv'
  <2>1. \A u \in TasksOf(p) : TaskOK(u, task'[u], thread'[p], channel'[p])
    BY <1>5, <1>12, <1>13
  <2> QED
    BY <1>1, <1>3, <1>5, <1>11, <2>1, StepInside, NothingWritten
<1>17. \A u \in Tasks \ {t} : Seen'[u] = Seen[u]
  BY <1>1, <1>5, <1>12, SeenInside
<1>18. Seen' = [Seen EXCEPT ![t] = [at |-> "pending", command |-> c]]
  BY <1>14, <1>17, SeenChanges
<1>19. Store!Begin(t)
  BY <1>3, <1>4, <1>14, <1>15, <1>18 DEF Store!Begin, Store!Becomes
<1> QED
  BY <1>16, <1>19

LEMMA ResumeStep ==
  ASSUME ActorInv, NEW t \in Tasks, Resume(t)
  PROVE  ActorInv' /\ Store!End(t)
<1> DEFINE p == Owner(t)
           line == channel[p]
           th == thread[p]
           k == [at |-> "idle"]
<1>1. p \in Processes /\ t \in TasksOf(p)
  BY OwnerIs
<1>2. LineOK(p, line, db) /\ WorkOK(p, th, line, db) /\ TaskOK(t, task[t], th, line) /\ Sane(db)
  BY <1>1 DEF ActorInv
<1>3. task' = [task EXCEPT ![t] = k] /\ task[t].at = "done" /\ UNCHANGED <<db, channel, thread, process, losses>>
  BY DEF Resume, IsAt, Goes
<1> HIDE DEF p, line, th, k
<1>4. Inside(p) /\ channel'[p] = line /\ thread'[p] = th /\ process'[p] = process[p] /\ thread[p] = th
      /\ channel[p] = line /\ task'[t] = k /\ \A u \in Tasks \ {t} : task'[u] = task[u]
  BY <1>1, <1>3 DEF Inside, ActorInv, line, th
<1>5. ~Working(th, t) /\ \A i \in DOMAIN line : line[i].task # t
  BY <1>2, <1>3 DEF TaskOK
<1>6. LineOK(p, channel'[p], db') /\ WorkOK(p, thread'[p], channel'[p], db')
  BY <1>2, <1>3, <1>4
<1>7. ASSUME NEW u \in TasksOf(p), u # t PROVE TaskOK(u, task'[u], thread'[p], channel'[p]) /\ Seen'[u] = Seen[u]
  <2>1. Same(u, th, line, th, line)
    BY DEF Same
  <2>2. task'[u] = task[u] /\ Same(u, thread[p], channel[p], thread'[p], channel'[p])
    BY <1>1, <1>4, <1>7, <2>1, OwnerIs
  <2> QED
    BY <1>1, <1>4, <1>6, <2>2, SameInside
<1>8. TaskOK(t, k, th, line)
  BY <1>5 DEF TaskOK, k
<1>9. Seen[t] = View(t, task[t], th, line) /\ Seen'[t] = View(t, k, th, line)
  BY <1>1, <1>4, SeenInside
<1>10. Seen[t].at = "done"
  BY <1>2, <1>3, <1>5, <1>9, ViewAtRest
<1>11. Seen'[t] = [at |-> "idle"]
  <2>1. k.at = "idle"
    BY DEF k
  <2> QED
    BY <1>2, <1>5, <1>8, <1>9, <2>1, ViewAtRest
<1>12. process'[p] # "down"
  BY <1>1, <1>3, <1>4 DEF ActorInv, Gone
<1>13. ActorInv'
  <2>1. \A u \in TasksOf(p) : TaskOK(u, task'[u], thread'[p], channel'[p])
    BY <1>4, <1>7, <1>8
  <2> QED
    BY <1>1, <1>3, <1>4, <1>6, <1>12, <2>1, StepInside, NothingWritten
<1>14. \A u \in Tasks \ {t} : Seen'[u] = Seen[u]
  BY <1>1, <1>4, <1>7, SeenInside
<1>15. Seen' = [Seen EXCEPT ![t] = [at |-> "idle"]]
  BY <1>11, <1>14, SeenChanges
<1>16. Store!End(t)
  BY <1>3, <1>10, <1>15 DEF Store!End, Store!Becomes, Store!Idle
<1> QED
  BY <1>13, <1>16

LEMMA DropStep ==
  ASSUME ActorInv, NEW t \in Tasks, Drop(t)
  PROVE  ActorInv' /\ (Store!GiveUp(t) \/ Store!End(t) \/ Seen' = Seen)
<1> DEFINE p == Owner(t)
           line == channel[p]
           th == thread[p]
           waits == {i \in DOMAIN line : i > Capacity /\ line[i].task = t}
           gone == CHOOSE i \in waits : TRUE
           new == IF waits = {} THEN line ELSE RemoveAt(line, gone)
           k == [at |-> "dropped"]
<1>1. p \in Processes /\ t \in TasksOf(p)
  BY OwnerIs
<1>2. LineOK(p, line, db) /\ WorkOK(p, th, line, db) /\ TaskOK(t, task[t], th, line) /\ Sane(db)
  BY <1>1 DEF ActorInv
<1>3. /\ task' = [task EXCEPT ![t] = k] /\ process[p] = "stopping" /\ task[t].at # "dropped"
      /\ channel' = (IF waits = {} THEN channel ELSE [channel EXCEPT ![p] = RemoveAt(line, gone)])
      /\ UNCHANGED <<db, thread, process, losses>>
  BY DEF Drop, IsAt, Goes
<1>4. waits # {} => gone \in 1..Len(line) /\ gone \in DOMAIN line /\ line[gone].task = t
  <2>1. waits # {} => gone \in waits
    OBVIOUS
  <2>2. DOMAIN line = 1..Len(line)
    BY <1>2 DEF LineOK
  <2> QED
    BY <2>1, <2>2
<1> HIDE DEF p, line, th, k, waits, gone
<1>5. /\ LineOK(p, new, db)
      /\ \A u, c : u # t => ((\E i \in DOMAIN line : line[i].task = u /\ line[i].command = c)
                               <=> (\E i \in DOMAIN new : new[i].task = u /\ new[i].command = c))
      /\ new = line \/ \A i \in DOMAIN new : new[i].task # t
      /\ \A j \in DOMAIN new : \E i \in DOMAIN line : new[j] = line[i]
  <2>1. CASE waits = {}
    BY <1>2, <2>1
  <2>2. CASE waits # {}
    <3>1. line \in Seq(Entry(p)) /\ gone \in 1..Len(line) /\ new = RemoveAt(line, gone)
      BY <1>2, <1>4, <2>2 DEF LineOK
    <3> HIDE DEF new
    <3>2. new \in Seq(Entry(p)) /\ LeavesOut(line, gone, new)
      BY <3>1, RemovedLeavesOut
    <3>3. /\ LineOK(p, new, db)
          /\ \A j \in DOMAIN new : new[j].task # line[gone].task /\ \E i \in DOMAIN line : new[j] = line[i]
          /\ \A i \in DOMAIN line : i # gone => \E j \in DOMAIN new : new[j] = line[i]
      BY <1>2, <3>1, <3>2, LeftOut
    <3> QED
      BY <1>4, <2>2, <3>3
  <2> QED
    BY <2>1, <2>2
<1>6. Inside(p) /\ channel'[p] = new /\ thread'[p] = th /\ process'[p] = "stopping" /\ thread[p] = th
      /\ channel[p] = line /\ task'[t] = k /\ \A u \in Tasks \ {t} : task'[u] = task[u]
  BY <1>1, <1>3 DEF Inside, ActorInv, line, th
<1> HIDE DEF new
<1>7. WorkOK(p, th, new, db)
  BY <1>2, <1>5 DEF WorkOK
<1>8. LineOK(p, channel'[p], db') /\ WorkOK(p, thread'[p], channel'[p], db')
  BY <1>3, <1>5, <1>6, <1>7
<1>9. ASSUME NEW u \in TasksOf(p), u # t PROVE TaskOK(u, task'[u], thread'[p], channel'[p]) /\ Seen'[u] = Seen[u]
  <2>1. Same(u, th, line, th, new)
    BY <1>5, <1>9 DEF Same, Placed
  <2>2. task'[u] = task[u] /\ Same(u, thread[p], channel[p], thread'[p], channel'[p])
    BY <1>1, <1>6, <1>9, <2>1, OwnerIs
  <2> QED
    BY <1>1, <1>6, <1>8, <2>2, SameInside
<1>10. TaskOK(t, k, th, new) /\ k.at = "dropped"
  BY DEF TaskOK, k
<1>11. Seen[t] = View(t, task[t], th, line) /\ Seen'[t] = View(t, k, th, new)
  BY <1>1, <1>6, SeenInside
<1>12. ActorInv'
  <2>1. \A u \in TasksOf(p) : TaskOK(u, task'[u], thread'[p], channel'[p])
    BY <1>6, <1>9, <1>10
  <2> QED
    BY <1>1, <1>3, <1>6, <1>8, <2>1, StepInside, NothingWritten
<1>13. \A u \in Tasks \ {t} : Seen'[u] = Seen[u]
  BY <1>1, <1>6, <1>9, SeenInside
<1>14. CASE \E c : Placed(t, c, th, new)
  <2>1. PICK c : Placed(t, c, th, new)
    BY <1>14
  <2>2. Placed(t, c, th, line)
    BY <1>5, <2>1 DEF Placed
  <2>3. Seen'[t] = [at |-> "stray", command |-> c]
    BY <1>5, <1>7, <1>10, <1>11, <2>1, ViewOfPlaced
  <2>4. Seen[t] = [at |-> "pending", command |-> c]
    BY <1>2, <1>3, <1>11, <2>2, ViewOfPlaced
  <2>5. Seen'[t] = [Seen[t] EXCEPT !.at = "stray"]
    BY <2>3, <2>4
  <2>6. Seen' = [Seen EXCEPT ![t] = [Seen[t] EXCEPT !.at = "stray"]]
    BY <1>13, <2>5, SeenChanges
  <2>7. Store!GiveUp(t)
    BY <1>3, <2>4, <2>6 DEF Store!GiveUp, Store!Becomes
  <2> QED
    BY <1>12, <2>7
<1>15. CASE \A c : ~Placed(t, c, th, new)
  <2>1. Seen'[t] = [at |-> "idle"]
    BY <1>7, <1>10, <1>11, <1>15, ViewOfNotPlaced
  <2>2. Seen' = [Seen EXCEPT ![t] = [at |-> "idle"]]
    BY <1>13, <2>1, SeenChanges
  <2>3. CASE \E c : Placed(t, c, th, line)
    <3>1. PICK c : Placed(t, c, th, line)
      BY <2>3
    <3>2. Seen[t] = [at |-> "pending", command |-> c]
      BY <1>2, <1>3, <1>11, <3>1, ViewOfPlaced
    <3>3. Store!GiveUp(t)
      BY <1>3, <2>2, <3>2 DEF Store!GiveUp, Store!Becomes, Store!Idle
    <3> QED
      BY <1>12, <3>3
  <2>4. CASE \A c : ~Placed(t, c, th, line)
    <3>1. Seen[t].at = "done" \/ Seen[t] = [at |-> "idle"]
      <4>1. task[t].at \in {"idle", "wait", "done"}
        BY <1>2, <1>3 DEF TaskOK
      <4> QED
        BY <1>2, <1>11, <2>4, <4>1, ViewOfNotPlaced
    <3>2. CASE Seen[t].at = "done"
      <4>1. Store!End(t)
        BY <1>3, <2>2, <3>2 DEF Store!End, Store!Becomes, Store!Idle
      <4> QED
        BY <1>12, <4>1
    <3>3. CASE Seen[t] = [at |-> "idle"]
      BY <1>12, <1>13, <2>1, <3>3, SeenStays
    <3> QED
      BY <3>1, <3>2, <3>3
  <2> QED
    BY <2>3, <2>4
<1> QED
  BY <1>14, <1>15

(***************************************************************************)
(* Processes.                                                              *)
(***************************************************************************)
LEMMA OtherSteps ==
  ASSUME ActorInv, NEW p \in Processes, Stop(p) \/ Exit(p)
  PROVE  ActorInv' /\ Seen' = Seen
<1>1. UNCHANGED <<db, channel, thread, task>> /\ DOMAIN process' = Processes
      /\ \A q \in Processes \ {p} : process'[q] = process[q]
  BY DEF Stop, Exit, ActorInv
<1>2. Inside(p)
  BY <1>1 DEF Inside, ActorInv
<1>3. LineOK(p, channel'[p], db') /\ WorkOK(p, thread'[p], channel'[p], db')
  BY <1>1 DEF ActorInv
<1>4. \A t \in TasksOf(p) : TaskOK(t, task'[t], thread'[p], channel'[p])
  BY <1>1, OwnerIs DEF ActorInv
<1>5. process'[p] = "down" => Gone(p)'
  <2>1. CASE Stop(p)
    BY <2>1 DEF Stop, ActorInv
  <2>2. CASE Exit(p)
    <3>1. channel[p] = <<>> /\ thread[p].at = "recv" /\ \A t \in TasksOf(p) : task[t].at = "dropped"
      BY <2>2 DEF Exit, Handles, IsAt
    <3>2. thread[p] = Receiving
      BY <3>1 DEF ActorInv, WorkOK
    <3> QED
      BY <1>1, <3>1, <3>2 DEF Gone
  <2> QED
    BY <2>1, <2>2
<1>6. ActorInv'
  BY <1>1, <1>2, <1>3, <1>4, <1>5, StepInside, NothingWritten
<1>7. Seen' = Seen
  BY <1>1, SeenIs
<1> QED
  BY <1>6, <1>7

LEMMA AtRestAfter ==
  ASSUME ActorInv, NEW p \in Processes, Inside(p), UNCHANGED db, channel'[p] = <<>>, thread'[p] = Receiving,
         NEW at \in {"idle", "dropped"}, \A t \in TasksOf(p) : task'[t] = [at |-> at],
         process'[p] = "up" \/ at = "dropped"
  PROVE  ActorInv' /\ \A t \in TasksOf(p) : Seen'[t] = [at |-> "idle"]
<1>1. LineOK(p, <<>>, db') /\ WorkOK(p, Receiving, <<>>, db')
  BY DEF LineOK, WorkOK
<1>2. ASSUME NEW t PROVE ~Working(Receiving, t) /\ \A i \in DOMAIN <<>> : <<>>[i].task # t
  BY DEF Working, Receiving
<1>3. ASSUME NEW t \in TasksOf(p) PROVE TaskOK(t, [at |-> at], Receiving, <<>>)
  BY <1>2 DEF TaskOK
<1>4. ASSUME NEW t \in TasksOf(p) PROVE View(t, [at |-> at], Receiving, <<>>) = [at |-> "idle"]
  <2> DEFINE k == [at |-> at]
  <2>1. k.at \in {"idle", "dropped"}
    OBVIOUS
  <2>2. TaskOK(t, k, Receiving, <<>>)
    BY <1>3
  <2> HIDE DEF k
  <2>3. View(t, k, Receiving, <<>>) = [at |-> "idle"]
    BY <1>1, <1>2, <2>1, <2>2, ViewAtRest
  <2> QED
    BY <2>3 DEF k
<1>5. process'[p] = "down" => Gone(p)'
  BY DEF Gone
<1>6. \A t \in TasksOf(p) : TaskOK(t, task'[t], thread'[p], channel'[p])
  BY <1>3
<1>7. LineOK(p, channel'[p], db') /\ WorkOK(p, thread'[p], channel'[p], db')
  BY <1>1
<1>8. ActorInv'
  BY <1>5, <1>6, <1>7, StepInside, NothingWritten
<1>9. \A t \in TasksOf(p) : Seen'[t] = [at |-> "idle"]
  BY <1>4, SeenInside
<1> QED
  BY <1>8, <1>9

LEMMA KillStep ==
  ASSUME ActorInv, NEW p \in Processes, Kill(p)
  PROVE  ActorInv' /\ Store!Die(TasksOf(p))
<1>1. Inside(p) /\ channel'[p] = <<>> /\ thread'[p] = Receiving /\ UNCHANGED db /\ losses' = losses + 1
      /\ \A t \in TasksOf(p) : task'[t] = [at |-> "dropped"]
  BY OwnerIs DEF Kill, Sets, Inside, ActorInv
<1>2. ActorInv' /\ \A t \in TasksOf(p) : Seen'[t] = [at |-> "idle"]
  BY <1>1, AtRestAfter
<1>3. \A t \in Tasks \ TasksOf(p) : Seen'[t] = Seen[t]
  BY <1>1, SeenInside
<1>4. Seen' = [t \in Tasks |-> IF t \in TasksOf(p) THEN [at |-> "idle"] ELSE Seen[t]]
  <2> DEFINE new == [t \in Tasks |-> View(t, task'[t], thread'[Owner(t)], channel'[Owner(t)])]
  <2>1. Seen' = new
    BY SeenIs
  <2>2. new = [t \in Tasks |-> new[t]]
    OBVIOUS
  <2> HIDE DEF new
  <2>3. ASSUME NEW t \in Tasks PROVE new[t] = IF t \in TasksOf(p) THEN [at |-> "idle"] ELSE Seen[t]
    BY <1>2, <1>3, <2>1
  <2> QED
    BY <2>1, <2>2, <2>3
<1> QED
  BY <1>1, <1>2, <1>4 DEF Store!Die, Store!Idle

LEMMA SpawnStep ==
  ASSUME ActorInv, NEW p \in Processes, Spawn(p)
  PROVE  ActorInv' /\ Seen' = Seen
<1>1. Gone(p) /\ LineOK(p, channel[p], db) /\ WorkOK(p, thread[p], channel[p], db)
      /\ \A t \in TasksOf(p) : TaskOK(t, task[t], thread[p], channel[p])
  BY OwnerIs DEF Spawn, ActorInv
<1>2. Inside(p) /\ channel'[p] = <<>> /\ thread'[p] = Receiving /\ UNCHANGED db /\ process'[p] = "up"
      /\ \A t \in TasksOf(p) : task'[t] = [at |-> "idle"]
  BY <1>1, OwnerIs DEF Spawn, Inside, ActorInv, Gone
<1>3. ActorInv' /\ \A t \in TasksOf(p) : Seen'[t] = [at |-> "idle"]
  BY <1>2, AtRestAfter
<1>4. ASSUME NEW t \in TasksOf(p) PROVE Seen[t] = [at |-> "idle"]
  <2>1. Seen[t] = View(t, task[t], thread[p], channel[p]) /\ task[t].at = "dropped"
    BY <1>1, <1>2, SeenInside DEF Gone
  <2>2. ~Working(thread[p], t) /\ \A i \in DOMAIN channel[p] : channel[p][i].task # t
    BY <1>1 DEF Gone, Working, Receiving
  <2> QED
    BY <1>1, <2>1, <2>2, ViewAtRest
<1>5. \A t \in Tasks : Seen'[t] = Seen[t]
  BY <1>2, <1>3, <1>4, SeenInside
<1> QED
  BY <1>3, <1>5, SeenStays

-----------------------------------------------------------------------------
LEMMA InitialIsSane ==
  ASSUME NEW d \in Initial
  PROVE  Sane(d)
<1> DEFINE Sync(from, symbols) == [op |-> "ReconcileFileSymbols", changed |-> {}, symbols |-> symbols]
           Synced(from, symbols) == Execute(from, Sync(from, symbols)).tables
           rows == Synced(NoRows, Symbols)
           cut == [rows EXCEPT !.edges = {}, !.on = {}]
<1>1. Sane(NoRows)
  <2>1. Record(NoRows)
    BY DEF Record, NoRows
  <2>2. Ids(NoRows) = {} /\ NoRows.edges = {} /\ NoRows.next = 1
    BY DEF Ids, NoRows
  <2> QED
    BY <2>1, <2>2 DEF Sane
<1>2. ASSUME NEW from, Sane(from), NEW symbols \in SUBSET Symbols PROVE Sane(Synced(from, symbols))
  <2> DEFINE c == Sync(from, symbols)
  <2>1. c.op = "ReconcileFileSymbols" /\ c.symbols \subseteq Symbols
    OBVIOUS
  <2> HIDE DEF c
  <2>2. Execute(from, c) = reconcile_file_symbols(from, c)
    BY <2>1 DEF Execute
  <2>3. Follows(from, Execute(from, c).tables)
    BY <1>2, <2>1, <2>2, ReconcileFollows
  <2>4. Sane(Execute(from, c).tables)
    BY <2>3 DEF Follows
  <2> QED
    BY <2>4 DEF c
<1>3. Sane(rows)
  BY <1>1, <1>2
<1>4. d = NoRows \/ d = cut \/ d = rows \/ \E s \in Symbols : d = Synced(rows, {s})
  BY DEF Initial
<1> HIDE DEF Synced, rows
<1>5. Sane(cut)
  <2> DEFINE none == {}
             new == [rows EXCEPT !.edges = none, !.on = none]
  <2>0. new = [rows EXCEPT !.edges = none, !.on = none]
    OBVIOUS
  <2> HIDE DEF new, none
  <2>1. Record(new) /\ new.nodes = rows.nodes /\ new.edges = none /\ new.next = rows.next
    BY <1>3, <2>0 DEF Sane, Record
  <2>2. Sane(new)
    BY <1>3, <2>1 DEF Sane, Ids, none
  <2> QED
    BY <2>2 DEF new, none
<1> QED
  BY <1>1, <1>2, <1>3, <1>4, <1>5

LEMMA ActorInits ==
  ASSUME ActorInit
  PROVE  ActorInv /\ Seen = [t \in Tasks |-> [at |-> "idle"]]
<1>1. Sane(db)
  BY InitialIsSane DEF ActorInit
<1>2. ASSUME NEW p \in Processes PROVE LineOK(p, channel[p], db) /\ WorkOK(p, thread[p], channel[p], db)
  BY DEF ActorInit, LineOK, WorkOK
<1>3. ASSUME NEW t \in Tasks
      PROVE  /\ ~Working(thread[Owner(t)], t) /\ \A i \in DOMAIN channel[Owner(t)] : channel[Owner(t)][i].task # t
             /\ task[t].at = "idle"
  BY OwnerIs DEF ActorInit, Working, Receiving
<1>4. \A t \in Tasks : TaskOK(t, task[t], thread[Owner(t)], channel[Owner(t)])
  BY <1>3 DEF TaskOK
<1>5. ActorInv
  BY <1>1, <1>2, <1>4 DEF ActorInv, ActorInit, Gone
<1>6. ASSUME NEW t \in Tasks PROVE View(t, task[t], thread[Owner(t)], channel[Owner(t)]) = [at |-> "idle"]
  <2>1. WorkOK(Owner(t), thread[Owner(t)], channel[Owner(t)], db)
    BY <1>2, OwnerIs
  <2> QED
    BY <1>3, <1>4, <2>1, ViewAtRest
<1>7. Seen = [t \in Tasks |-> [at |-> "idle"]]
  BY <1>6, SeenIs
<1> QED
  BY <1>5, <1>7

(***************************************************************************)
(* The db actor takes one command after the other, each wholly or, with an *)
(* error, not at all, between its call and its answer, and forgets nothing *)
(* it has answered: whatever the number of tasks, the capacity of the      *)
(* channel, the symbols of a file and the rows, with `semnav index` on the *)
(* same file, callers that go away, statements that fail and processes     *)
(* that are killed at any statement.                                       *)
(***************************************************************************)
THEOREM ActorIsAStore == ActorSpec => ImplementsStore
<1>1. ActorInit => ActorInv /\ Store!StoreInit
  BY ActorInits DEF Store!StoreInit, Store!Idle, ActorInit
<1>2. ActorInv /\ [ActorNext]_actorVars => ActorInv' /\ [Store!StoreNext]_(Store!storeVars)
  <2> SUFFICES ASSUME ActorInv, [ActorNext]_actorVars
               PROVE  ActorInv' /\ [Store!StoreNext]_(Store!storeVars)
    OBVIOUS
  <2>1. CASE UNCHANGED actorVars
    <3>1. UNCHANGED <<db, channel, thread, task, process, losses>>
      BY <2>1 DEF actorVars
    <3>2. Seen' = Seen
      BY <3>1, SeenIs
    <3>3. ActorInv'
      BY <3>1 DEF ActorInv, Gone
    <3> QED
      BY <3>1, <3>2, <3>3 DEF Store!storeVars
  <2>2. CASE ActorNext
    <3>1. ASSUME NEW t \in Tasks, TaskStep(t) PROVE ActorInv' /\ [Store!StoreNext]_(Store!storeVars)
      <4>1. CASE \E c \in CommandsOf(t) : Call(t, c)
        BY <4>1, ActorCallStep DEF Store!StoreNext
      <4>2. CASE Resume(t)
        BY <4>2, ResumeStep DEF Store!StoreNext
      <4>3. CASE Drop(t)
        <5>1. UNCHANGED <<db, losses>>
          BY <4>3 DEF Drop
        <5> QED
          BY <4>3, <5>1, DropStep DEF Store!StoreNext, Store!storeVars
      <4> QED
        BY <3>1, <4>1, <4>2, <4>3 DEF TaskStep
    <3>2. ASSUME NEW p \in Processes, ThreadStep(p) \/ Stop(p) \/ Kill(p) \/ Spawn(p)
          PROVE  ActorInv' /\ [Store!StoreNext]_(Store!storeVars)
      <4>1. CASE Receive(p) \/ SelectEdge(p) \/ Reply(p) \/ Stop(p) \/ Exit(p) \/ Spawn(p)
        <5>1. UNCHANGED <<db, losses>>
          BY <4>1 DEF Receive, SelectEdge, Reply, Stop, Exit, Spawn
        <5>2. ActorInv' /\ Seen' = Seen
          BY <4>1, ReceiveStep, SelectEdgeStep, ReplyStep, OtherSteps, SpawnStep
        <5> QED
          BY <5>1, <5>2 DEF Store!storeVars
      <4>2. CASE Run(p)
        BY <4>2, RunStep DEF Store!StoreNext
      <4>3. CASE InsertEdge(p)
        BY <4>3, InsertEdgeStep DEF Store!StoreNext
      <4>4. CASE ReactivateEdge(p)
        BY <4>4, ReactivateEdgeStep DEF Store!StoreNext
      <4>5. CASE Kill(p)
        <5>1. TasksOf(p) \in SUBSET Tasks
          BY DEF TasksOf
        <5> QED
          BY <4>5, <5>1, KillStep DEF Store!StoreNext
      <4>6. CASE StatementFails(p)
        BY <4>6, StatementFailsStep DEF Store!StoreNext
      <4> QED
        BY <3>2, <4>1, <4>2, <4>3, <4>4, <4>5, <4>6 DEF ThreadStep
    <3> QED
      BY <2>2, <3>1, <3>2 DEF ActorNext
  <2> QED
    BY <2>1, <2>2
<1> QED
  BY <1>1, <1>2, PTL DEF ActorSpec, ImplementsStore, Store!StoreSpec

=============================================================================
