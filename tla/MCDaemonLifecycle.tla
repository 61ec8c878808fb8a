-------------------------- MODULE MCDaemonLifecycle --------------------------
(* Instances of DaemonLifecycle for TLC. *)
EXTENDS DaemonLifecycle, TLC

(* Serves, daemon slots and stop processes are interchangeable. *)
Symmetry == Permutations(Serve) \union Permutations(Daemon) \union Permutations(Stop)
=============================================================================
