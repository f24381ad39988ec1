---------------------------- MODULE MCDaemonWiFi ----------------------------
(* Instances of DaemonWiFi for TLC. *)
EXTENDS DaemonWiFi

MCDescriptors == {1, 2}
=============================================================================
