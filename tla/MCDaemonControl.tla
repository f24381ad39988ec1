-------------------------- MODULE MCDaemonControl --------------------------
(* Instances of DaemonControl for TLC. *)
EXTENDS DaemonControl, TLC

MCSymmetry == Permutations(Pids)
=============================================================================
