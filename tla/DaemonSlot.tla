----------------------------- MODULE DaemonSlot -----------------------------
(***************************************************************************)
(* What the lock promises about one root: the slot of its daemon is free,  *)
(* or one daemon owns it and is starting, serving or ending.  Ownership    *)
(* never passes from one daemon to another without the slot being free in  *)
(* between, and a daemon that has begun to end never serves again.         *)
(***************************************************************************)
CONSTANTS Daemon, None

VARIABLES owner, stage

slotVars == <<owner, stage>>

SlotInit == owner = None /\ stage = "free"

Take(d) ==
    /\ owner = None
    /\ owner' = d
    /\ stage' = "starting"

Serves ==
    /\ stage = "starting"
    /\ stage' = "serving"
    /\ UNCHANGED owner

Ends ==
    /\ stage \in {"starting", "serving"}
    /\ stage' = "ending"
    /\ UNCHANGED owner

(* Released in order, or by the kernel when the process dies. *)
Free ==
    /\ owner # None
    /\ owner' = None
    /\ stage' = "free"

SlotNext == (\E d \in Daemon : Take(d)) \/ Serves \/ Ends \/ Free

SlotSpec == SlotInit /\ [][SlotNext]_slotVars
=============================================================================
