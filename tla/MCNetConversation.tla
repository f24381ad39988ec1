------------------------- MODULE MCNetConversation -------------------------
(* Instances of NetConversation for TLC. *)
EXTENDS NetConversation, TLC

MCDescriptors2 == {1, 2}
MCSymmetry == Permutations(Clients)
=============================================================================
