----------------------------- MODULE ServerHealth -----------------------------
(***************************************************************************)
(* What a language's supervisor promises: the health state machine,        *)
(* without processes, timers or messages.  A server is served while the    *)
(* language is healthy, a streak of failures leads from restarting to      *)
(* down, `down` is left only upwards, and a missing runtime is final.      *)
(***************************************************************************)
EXTENDS Naturals

CONSTANTS Server, None, MaxFailures, MaxCount

VARIABLES health, serving, streak, missing, closed

hvars == <<health, serving, streak, missing, closed>>

Init ==
    /\ health = "not_started" /\ serving = None /\ streak = 0
    /\ missing = FALSE /\ closed = FALSE

Begin ==
    /\ ~closed /\ health = "not_started"
    /\ health' = "starting"
    /\ UNCHANGED <<serving, streak, missing, closed>>

Mendable == health \in {"starting", "restarting", "down"} /\ ~missing /\ ~closed

Up(s) ==
    /\ Mendable
    /\ health' = "healthy" /\ serving' = s /\ streak' = 0
    /\ UNCHANGED <<missing, closed>>

Fail ==
    /\ Mendable \/ (health = "healthy" /\ ~closed)
    /\ serving' = None
    /\ streak' = IF streak < MaxCount THEN streak + 1 ELSE streak
    /\ health' = IF streak' >= MaxFailures THEN "down" ELSE "restarting"
    /\ (health = "down") => (health' = "down")
    /\ UNCHANGED <<missing, closed>>

Missing ==
    /\ Mendable
    /\ health' = "down" /\ serving' = None /\ missing' = TRUE
    /\ UNCHANGED <<streak, closed>>

Close ==
    /\ ~closed
    /\ serving' = None /\ closed' = TRUE
    /\ UNCHANGED <<health, streak, missing>>

Next == Begin \/ (\E s \in Server : Up(s)) \/ Fail \/ Missing \/ Close

Spec == Init /\ [][Next]_hvars
===============================================================================
