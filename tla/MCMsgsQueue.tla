---------------------------- MODULE MCMsgsQueue ----------------------------
(* Instances of MsgsQueue for TLC. *)
EXTENDS MsgsQueue
=============================================================================
