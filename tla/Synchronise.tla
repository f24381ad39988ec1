---------------------------- MODULE Synchronise ----------------------------
(***************************************************************************)
(* The data a network thread and the commands dispatcher share             *)
(* (daemon/net/synchronise.c): one slot for the request that arrived, one  *)
(* for the answer to be sent, and the run status of the network thread.    *)
(* Every function of synchronise.c that takes a mutex is one step; what    *)
(* the code does outside a mutex is left to the modules that do it.        *)
(*                                                                         *)
(* A request is a text.  The model tags it with the client that sent it,   *)
(* and an answer with the request it answers: the program cannot see the   *)
(* tags, the properties need them.                                         *)
(***************************************************************************)
CONSTANTS
  Clients,   \* the connections that remote programs open
  Requests,  \* the request lines they send
  NoData     \* the empty string of a data buffer

Messages == [from : Clients, cmd : Requests]

\* "whole" is FALSE while strcpy() has stored only the head of the text.
Answers == [to : Messages, whole : BOOLEAN]

ASSUME SynchroniseAssumption == NoData \notin Messages \cup Answers

VARIABLES
  runStatus,           \* "RUN" or "STOP"
  receivedDataStatus,  \* "NO_NEW_DATA" or "HAS_NEW_DATA"
  receivedData,        \* the request slot
  sentData             \* the answer slot

syncVars == <<runStatus, receivedDataStatus, receivedData, sentData>>

SyncTypeOK ==
  /\ runStatus \in {"RUN", "STOP"}
  /\ receivedDataStatus \in {"NO_NEW_DATA", "HAS_NEW_DATA"}
  /\ receivedData \in Messages \cup {NoData}
  /\ sentData \in Answers \cup {NoData}

SyncInit ==
  /\ runStatus = "RUN"
  /\ receivedDataStatus = "NO_NEW_DATA"
  /\ receivedData = NoData
  /\ sentData = NoData

setRunStatus(status) == 
  /\ runStatus' = status
  /\ UNCHANGED <<receivedDataStatus, receivedData, sentData>>

setReceivedData(m) ==
  /\ receivedData' = m
  /\ UNCHANGED <<runStatus, receivedDataStatus, sentData>>

setReceivedDataStatus(status) ==
  /\ receivedDataStatus' = status
  /\ UNCHANGED <<runStatus, receivedData, sentData>>

\* Mutant: the status is not reset.
M_takeReceivedData ==
  /\ receivedDataStatus = "HAS_NEW_DATA"
  /\ UNCHANGED syncVars

\* getReceivedData() when there is a new request: under the mutex it only
\* clears the status and returns a pointer; the caller reads the text later.
takeReceivedData ==
  /\ receivedDataStatus = "HAS_NEW_DATA"
  /\ receivedDataStatus' = "NO_NEW_DATA"
  /\ UNCHANGED <<runStatus, receivedData, sentData>>

\* setSentData(): the mutex is held, but getSentData() does not take it, so
\* the reader may see a text longer than one store with only its head copied.
setSentData(m, wholeAtOnce) ==
  /\ sentData' = [to |-> m, whole |-> wholeAtOnce]
  /\ UNCHANGED <<runStatus, receivedDataStatus, receivedData>>

\* The second store of the same strcpy().  If sendData() has cleared the
\* buffer meanwhile, the tail lands behind a zero byte: the text stays empty.
finishSentData ==
  /\ sentData' = IF sentData = NoData THEN NoData
                                      ELSE [sentData EXCEPT !.whole = TRUE]
  /\ UNCHANGED <<runStatus, receivedDataStatus, receivedData>>

\* Mutant: sendData() does not clear the buffer.
M_clearSentData == UNCHANGED syncVars

\* bzero() in sendData(), which takes no mutex.
clearSentData ==
  /\ sentData' = NoData
  /\ UNCHANGED <<runStatus, receivedDataStatus, receivedData>>
=============================================================================
