----------------------------- MODULE GraphStore -----------------------------
(***************************************************************************)
(* What the db actor promises to those who call it: one command after the  *)
(* other on tables nobody else writes to.  A call takes effect as a whole  *)
(* between its beginning and its answer; a call that its caller has given  *)
(* up still takes effect, unless the process is killed before it did or    *)
(* the database fails; what took effect stays.                             *)
(***************************************************************************)
EXTENDS Naturals

CONSTANTS Initial,         \* what the tables may hold to begin with
          Tasks,           \* who calls
          Commands(_),     \* what may be called when the tables are such
          Execute(_, _),   \* a command on tables: what they are then, and the answer
          Overtaken(_, _)  \* whether these tables have no place left for what a command writes

VARIABLES tables, call, losses

storeVars == <<tables, call, losses>>

Idle == [at |-> "idle"]

StoreInit == tables \in Initial /\ call = [t \in Tasks |-> Idle] /\ losses = 0

Becomes(t, to) == call' = [call EXCEPT ![t] = to]

(* Any command may be called. *)
Begin(t) ==
    LET begun == call'[t] IN
    /\ UNCHANGED <<tables, losses>> /\ call[t].at = "idle"
    /\ begun.at = "pending" /\ begun.command \in Commands(tables)
    /\ Becomes(t, [at |-> "pending", command |-> begun.command])

Apply(t) ==
    /\ call[t].at \in {"pending", "stray"}
    /\ LET done == Execute(tables, call[t].command) IN
       /\ tables' = done.tables
       /\ Becomes(t, IF call[t].at = "stray" THEN Idle ELSE [at |-> "done", answer |-> done.answer])
       /\ UNCHANGED losses

(* A command that was overtaken while it was at work: nothing is left to do. *)
Outrun(t) ==
    /\ call[t].at \in {"pending", "stray"}
    /\ Overtaken(tables, call[t].command)
    /\ Becomes(t, IF call[t].at = "stray" THEN Idle
                  ELSE [at |-> "done", answer |-> [ok |-> TRUE, values |-> {}]])
    /\ UNCHANGED <<tables, losses>>

(* The database fails: nothing is changed, and the caller is told so. *)
Refuse(t) ==
    /\ call[t].at \in {"pending", "stray"}
    /\ losses' = losses + 1
    /\ Becomes(t, IF call[t].at = "stray" THEN Idle
                  ELSE [at |-> "done", answer |-> [ok |-> FALSE, values |-> {}]])
    /\ UNCHANGED tables

End(t) == call[t].at = "done" /\ Becomes(t, Idle) /\ UNCHANGED <<tables, losses>>

GiveUp(t) ==
    /\ call[t].at = "pending"
    /\ \/ Becomes(t, [call[t] EXCEPT !.at = "stray"])   \* accepted already
       \/ Becomes(t, Idle)                              \* not yet accepted
    /\ UNCHANGED <<tables, losses>>

(* A process is killed, and its tasks' calls with it. *)
Die(tasks) ==
    /\ losses' = losses + 1
    /\ call' = [t \in Tasks |-> IF t \in tasks THEN Idle ELSE call[t]]
    /\ UNCHANGED tables

StoreNext ==
    \/ \E t \in Tasks : Begin(t) \/ Apply(t) \/ Outrun(t) \/ Refuse(t) \/ End(t) \/ GiveUp(t)
    \/ \E tasks \in SUBSET Tasks : Die(tasks)

StoreSpec == StoreInit /\ [][StoreNext]_storeVars
=============================================================================
