-------------------------- MODULE NetConversation --------------------------
(***************************************************************************)
(* A request of a WiFi client, from the socket to the commands dispatcher  *)
(* and back.  The network thread (WifiConnection) and the dispatcher       *)
(* thread (CommandsDispatcher::start() with ConnectorWiFi::receive() and   *)
(* send()) run in turn in any order; they meet in the buffers of           *)
(* Synchronise only.  Stopping and changing the port are left to           *)
(* DaemonWiFi, which extends this module.                                  *)
(***************************************************************************)
EXTENDS WifiConnection

CONSTANTS
  Blank,  \* requests that are an empty line
  Long    \* requests whose answer is longer than strcpy() stores at once

ASSUME RequestAssumption == Blank \subseteq Requests /\ Long \subseteq Requests

VARIABLES
  dispPc,  \* the place of the dispatcher thread
  cmd      \* newCommand, the command it executes

dispVars == <<dispPc, cmd>>
vars == <<syncVars, wifiVars, dispVars>>

DispTypeOK ==
  /\ dispPc \in {"loop", "poll", "taken", "exec", "copy", "others"}
  /\ cmd \in Messages \cup {NoData}

TypeOK == SyncTypeOK /\ WifiTypeOK /\ DispTypeOK

DispInit == dispPc = "loop" /\ cmd = NoData

Init == SyncInit /\ WifiInit /\ DispInit
-----------------------------------------------------------------------------
\* The next round of the loop in start().
BeginRound ==
  /\ dispPc = "loop"
  /\ dispPc' = "poll"
  /\ UNCHANGED <<syncVars, wifiVars, cmd>>

\* Mutant: the status is reset outside the test for a new request.
M_PollNothing ==
  /\ dispPc = "poll"
  /\ receivedDataStatus' = "NO_NEW_DATA"
  /\ dispPc' = "others"
  /\ UNCHANGED <<runStatus, receivedData, sentData, wifiVars, cmd>>

\* ConnectorWiFi::receive(): nothing new, or the pointer to the request ...
PollNothing ==
  /\ dispPc = "poll"
  /\ receivedDataStatus = "NO_NEW_DATA"
  /\ dispPc' = "others"
  /\ UNCHANGED <<syncVars, wifiVars, cmd>>

PollRequest ==
  /\ dispPc = "poll"
  /\ takeReceivedData
  /\ dispPc' = "taken"
  /\ UNCHANGED <<wifiVars, cmd>>

\* ... which becomes a string after the mutex has been released.  An empty one
\* is no command: nothing is executed and nothing is sent.
ReadRequest ==
  /\ dispPc = "taken"
  /\ cmd' = receivedData
  /\ dispPc' = IF receivedData.cmd \in Blank THEN "others" ELSE "exec"
  /\ UNCHANGED <<syncVars, wifiVars>>

\* execCommand() and ConnectorWiFi::send().  No WiFi command answers with the
\* empty string: an unknown one answers ERR, the addresses may be "UNKNOWN".
ExecuteCommand ==
  /\ dispPc = "exec"
  /\ setSentData(cmd, cmd.cmd \notin Long)
  /\ dispPc' = IF cmd.cmd \in Long THEN "copy" ELSE "others"
  /\ UNCHANGED <<wifiVars, cmd>>

FinishCopy ==
  /\ dispPc = "copy"
  /\ finishSentData
  /\ dispPc' = "others"
  /\ UNCHANGED <<wifiVars, cmd>>

NetConnectorTurn ==
  PollNothing \/ PollRequest \/ ReadRequest \/ ExecuteCommand \/ FinishCopy

\* Mutant: another connector blocks in receive().
M_OtherConnectorsTurn == dispPc = "others" /\ UNCHANGED vars

\* The turns of the other connectors in the loop of start(); here they bring
\* no command.
OtherConnectorsTurn ==
  /\ dispPc = "others"
  /\ dispPc' = "loop"
  /\ UNCHANGED <<syncVars, wifiVars, cmd>>

Dispatcher == BeginRound \/ NetConnectorTurn \/ OtherConnectorsTurn

Next ==
  \/ NetThread /\ UNCHANGED dispVars
  \/ Dispatcher
  \/ \E c \in Clients : ClientStep(c) /\ UNCHANGED dispVars

Spec == Init /\ [][Next]_vars

\* Both threads are run by the kernel again and again; a client that waits
\* reads what arrives and notices that its connection was closed.  No client
\* has to connect, to ask or to leave.
Fairness ==
  /\ WF_vars(NetThread /\ UNCHANGED dispVars)
  /\ WF_vars(Dispatcher)
  /\ \A c \in Clients :
       /\ WF_vars(ReadAnswer(c) /\ UNCHANGED dispVars)
       /\ WF_vars(FindClosed(c) /\ UNCHANGED dispVars)

FairSpec == Spec /\ Fairness
-----------------------------------------------------------------------------
(* The states of the hand-off, by what is outstanding. *)

\* Nothing is in the buffers, the dispatcher is not working on anything (it
\* may still have to store the tail of an answer that was sent without it).
NothingOutstanding ==
  /\ receivedDataStatus = "NO_NEW_DATA"
  /\ sentData = NoData
  /\ dispPc \notin {"taken", "exec"}

RequestAnnounced ==
  /\ receivedDataStatus = "HAS_NEW_DATA"
  /\ sentData = NoData
  /\ dispPc \notin {"taken", "exec"}

RequestTaken ==
  /\ receivedDataStatus = "NO_NEW_DATA"
  /\ sentData = NoData
  /\ \/ dispPc = "taken"
     \/ dispPc = "exec" /\ cmd = buf /\ cmd.cmd \notin Blank

AnswerOutstanding ==
  /\ receivedDataStatus = "NO_NEW_DATA"
  /\ sentData \in Answers
  /\ sentData.to = buf
  /\ sentData.whole \/ dispPc = "copy"
  /\ dispPc \notin {"taken", "exec"}

\* The inductive invariant of the hand-off.
HandOffInv ==
  /\ netPc \notin {"wait", "send"} => NothingOutstanding
  /\ netPc \in {"received", "posted", "wait", "send"} => buf \in Messages
  /\ netPc \in {"posted", "wait"} => receivedData = buf
  /\ netPc = "wait" =>
       \/ RequestAnnounced
       \/ RequestTaken
       \/ AnswerOutstanding
       \/ NothingOutstanding /\ buf.cmd \in Blank
  /\ netPc = "send" => AnswerOutstanding

\* What the dispatcher executes is the request the network thread is waiting
\* for, although it reads the text outside the mutex and the status is set in
\* another critical section than the text (synchronise.c, SocketsLib.c 480-483).
ExecutesWhatIsAwaited ==
  dispPc = "exec" => netPc = "wait" /\ cmd = buf

\* An answer in the answer slot belongs to the request whose conversation is
\* open: none is left over for the next request, which would be answered with
\* it at once (getSentData() is polled without a mutex, SocketsLib.c 483).
AnswerBelongsToRequest ==
  sentData # NoData => netPc \in {"wait", "send"} /\ sentData.to = buf

\* The network thread waits for an answer that nobody will give only if the
\* request was an empty line: no interleaving of the two threads loses one.
Stranded ==
  /\ netPc = "wait"
  /\ receivedDataStatus = "NO_NEW_DATA"
  /\ sentData = NoData
  /\ dispPc \notin {"taken", "exec"}

OnlyBlankStrands == Stranded => buf.cmd \in Blank

\* An answer is never overwritten by another one before it was sent:
\* setSentData() would silently drop it (synchronise.c 81-83).
AnswerNeverReplaced ==
  [][sentData # NoData => sentData' = NoData \/ sentData'.to = sentData.to]_vars

\* The pair of threads is a slot for one request at a time.
slotPhase ==
  IF netPc \notin {"wait", "send"} THEN "free"
  ELSE IF sentData = NoData THEN "asked" ELSE "answered"

slotRequest == IF netPc \in {"wait", "send"} THEN buf ELSE NoData

Slot == INSTANCE HandOff WITH phase <- slotPhase, request <- slotRequest

\* The slot is never moved out of order (synchronise.c, SocketsLib.c 480-492).
SlotSafety == Slot!Safety

\* ... and it never stays occupied.
SlotSpec == Slot!Spec
-----------------------------------------------------------------------------
(* What a client sees. *)

\* The answer a client reads is the one to the request it waits for.
OwnAnswer ==
  \A c \in Clients :
    client[c] = "waiting" /\ outbox[c] # <<>> => Head(outbox[c]).to = asked[c]

\* Only one client has ever connected, which is how the application is used.
OneClient == \A b, c \in Clients : client[b] # "off" /\ client[c] # "off" => b = c

\* For one client the answers stay in step with its requests, although neither
\* side numbers them (SocketsLib.c 480-492).
OneClientOwnAnswer == OneClient => OwnAnswer

\* For one client closing the descriptor accepted last closes what has ended,
\* and it closes everything that is no longer watched (SocketsLib.c 548).
OneClientClosed ==
  [][OneClient' =>
       \A d \in Descriptors :
         /\ sock[d] \in Clients /\ sock'[d] = NoPeer => client[sock[d]] = "left"
         /\ sock'[d] # NoPeer => d \in master']_vars

\* A client that is alone gets an answer, or leaves.
OneClientAnswered ==
  []OneClient => \A c \in Clients : client[c] = "waiting" ~> client[c] # "waiting"

\* The network thread keeps receiving: the request of a client that stays is
\* taken from its socket, or its connection is closed, however busy the other
\* clients are (one pass of the loop visits every ready descriptor,
\* SocketsLib.c 525-553).
EveryRequestReceived ==
  \A c \in Clients :
    client[c] = "waiting" /\ inbox[c] # <<>>
      ~> client[c] # "waiting" \/ inbox[c] = <<>>
=============================================================================
