------------------------------ MODULE HandOff ------------------------------
(***************************************************************************)
(* What the four buffers of synchronise.c promise together: a slot for one *)
(* request at a time.  A request is put in, it is answered once, and the   *)
(* answer is handed over before the next request goes in.                  *)
(***************************************************************************)
CONSTANTS Messages, NoData

VARIABLES phase, request

TypeOK ==
  /\ phase \in {"free", "asked", "answered"}
  /\ request \in Messages \cup {NoData}

Init == phase = "free" /\ request = NoData

Ask(m) ==
  /\ phase = "free"
  /\ phase' = "asked"
  /\ request' = m

Answer ==
  /\ phase = "asked"
  /\ phase' = "answered"
  /\ UNCHANGED request

HandOver ==
  /\ phase = "answered"
  /\ phase' = "free"
  /\ request' = NoData

Next == Answer \/ HandOver \/ \E m \in Messages : Ask(m)

vars == <<phase, request>>

Safety == Init /\ [][Next]_vars

\* With a dispatcher that answers everything, the slot becomes free again.
Spec == Safety /\ WF_vars(Answer) /\ WF_vars(HandOver)
=============================================================================
