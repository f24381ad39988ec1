-------------------------- MODULE MCBluetoothPhone --------------------------
(* Instances of BluetoothPhone for TLC. *)
EXTENDS BluetoothPhone

CONSTANTS c1, c2

\* One phone has calls enough to fall out of step, the other comes in between.
MCMaxCalls == [c \in Clients |-> IF c = c1 THEN 2 ELSE 1]
MCRequests == 0..2
=============================================================================
