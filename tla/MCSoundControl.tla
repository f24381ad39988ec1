--------------------------- MODULE MCSoundControl ---------------------------
(* Instances of SoundControl for TLC. *)
EXTENDS SoundControl

\* A coarse mixer, a fine one, and one whose range does not begin at zero.
MCRanges == {[min |-> 0, max |-> 31], [min |-> 0, max |-> 100], [min |-> -20, max |-> 12]}
MCChanges == {-11, -1, 0, 1, 30}
=============================================================================
