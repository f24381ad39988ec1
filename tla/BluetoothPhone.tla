--------------------------- MODULE BluetoothPhone ---------------------------
(***************************************************************************)
(* Phones that use a daemon over Bluetooth (BluetoothConnector.java with   *)
(* BluetoothConversation).  The thread of the user interface writes a      *)
(* command and polls readStr for the answer until a timeout; a thread of   *)
(* its own (ConversationThread) reads whatever arrives into readStr.       *)
(* Commands and answers carry no numbers, so nothing but the order of      *)
(* events tells which answer belongs to which call.                        *)
(*                                                                         *)
(* A client is one connection: of several phones, or of one that connects  *)
(* again with a new connector.                                             *)
(***************************************************************************)
EXTENDS BluetoothConversation

CONSTANTS
  MaxCalls,   \* bound: the calls of each connection
  MaxBacklog  \* MAX_SOCKETS_NUM_WAITED_FOR_ACCEPT

ASSUME PhoneAssumption ==
  /\ MaxCalls \in [Clients -> Nat]
  /\ MaxBacklog \in Nat
  /\ Requests \subseteq Nat
  /\ \A c \in Clients : 1..MaxCalls[c] \subseteq Requests \ {Garbled}

VARIABLES
  phonePc,   \* per client: the place of the user interface's thread
  thread,    \* per client: the place of the conversation's thread
  stopped,   \* per client: the flag of the conversation's thread
  readStr,   \* per client: the text the conversation's thread has read
  calls,     \* per client: the calls made
  timedOut   \* per client: a call has timed out (history)

callVars  == <<calls, timedOut>>
phoneVars == <<phonePc, thread, stopped, readStr, callVars>>
daemonVars == <<syncVars, btVars, dispVars>>
vars == <<daemonVars, linkVars, phoneVars>>

TypeOK ==
  /\ BtTypeOK
  /\ phonePc \in [Clients -> {"off", "idle", "waiting", "clear", "cancel", "closed"}]
  /\ thread \in [Clients -> {"none", "started", "read", "ended"}]
  /\ stopped \in [Clients -> BOOLEAN]
  /\ readStr \in [Clients -> Answers \cup {NoData}]
  /\ calls \in [Clients -> Nat]
  /\ timedOut \in [Clients -> BOOLEAN]

Init ==
  /\ BtInit
  /\ phonePc = [c \in Clients |-> "off"]
  /\ thread = [c \in Clients |-> "none"]
  /\ stopped = [c \in Clients |-> TRUE]
  /\ readStr = [c \in Clients |-> NoData]
  /\ calls = [c \in Clients |-> 0]
  /\ timedOut = [c \in Clients |-> FALSE]
-----------------------------------------------------------------------------
(* The thread of the user interface *)

Move(c, from, to) == phonePc[c] = from /\ phonePc' = [phonePc EXCEPT ![c] = to]

DaemonListens == btPc \notin {"start", "listen", "finish", "ended"}

connect(c) ==
  /\ Move(c, "off", "idle")
  /\ DaemonListens
  /\ Len(backlog) < MaxBacklog
  /\ backlog' = Append(backlog, c)
  /\ link' = [link EXCEPT ![c] = "up"]
  /\ thread' = [thread EXCEPT ![c] = "started"]
  /\ UNCHANGED <<daemonVars, toDaemon, toPhone, stopped, readStr, callVars>>

\* A command is written; on a connection that was closed that throws.
write(c) ==
  /\ Move(c, "idle", "waiting")
  /\ link[c] = "up"
  /\ calls[c] < MaxCalls[c]
  /\ calls' = [calls EXCEPT ![c] = @ + 1]
  /\ toDaemon' = [toDaemon EXCEPT ![c] = Append(@, [from |-> c, cmd |-> calls'[c]])]
  /\ UNCHANGED <<daemonVars, backlog, link, toPhone, thread, stopped, readStr, timedOut>>

\* waitForResponse(): there is a text, which is returned and cleared, ...
SeeResponse(c) ==
  /\ Move(c, "waiting", "clear")
  /\ readStr[c] # NoData
  /\ UNCHANGED <<daemonVars, linkVars, thread, stopped, readStr, callVars>>

\* ... or there has been none for too long; one that comes now is cleared too.
TimeOut(c) ==
  /\ Move(c, "waiting", "clear")
  /\ readStr[c] = NoData
  /\ timedOut' = [timedOut EXCEPT ![c] = TRUE]
  /\ UNCHANGED <<daemonVars, linkVars, thread, stopped, readStr, calls>>

ClearResponse(c) ==
  /\ Move(c, "clear", "idle")
  /\ readStr' = [readStr EXCEPT ![c] = NoData]
  /\ UNCHANGED <<daemonVars, linkVars, thread, stopped, callVars>>

\* Mutant: the flag is left to the thread itself.
M_closeConnection(c) ==
  /\ Move(c, "idle", "cancel")
  /\ UNCHANGED <<daemonVars, linkVars, thread, stopped, readStr, callVars>>

\* closeConnection() calls cancel(), which sets the flag and waits to see it.
closeConnection(c) ==
  /\ Move(c, "idle", "cancel")
  /\ stopped' = [stopped EXCEPT ![c] = TRUE]
  /\ UNCHANGED <<daemonVars, linkVars, thread, readStr, callVars>>

cancel(c) ==
  /\ Move(c, "cancel", "closed")
  /\ stopped[c]
  /\ link' = [link EXCEPT ![c] = IF @ = "up" THEN "left" ELSE @]
  /\ UNCHANGED <<daemonVars, backlog, toDaemon, toPhone, thread, stopped, readStr, callVars>>
-----------------------------------------------------------------------------
(* The conversation's thread *)

Go(c, from, to) == thread[c] = from /\ thread' = [thread EXCEPT ![c] = to]

run(c) ==
  /\ Go(c, "started", "read")
  /\ stopped' = [stopped EXCEPT ![c] = FALSE]
  /\ UNCHANGED <<daemonVars, linkVars, phonePc, readStr, callVars>>

\* One text, or several that have run together, replaces the text before it;
\* then the loop looks at the flag.
read(c) ==
  /\ Go(c, "read", IF stopped[c] THEN "ended" ELSE "read")
  /\ link[c] # "left"
  /\ toPhone[c] # <<>>
  /\ readStr' = [readStr EXCEPT ![c] =
       IF Len(toPhone[c]) = 1 THEN Head(toPhone[c])
       ELSE [to |-> [from |-> c, cmd |-> Garbled], whole |-> TRUE]]
  /\ toPhone' = [toPhone EXCEPT ![c] = <<>>]
  /\ UNCHANGED <<daemonVars, backlog, link, toDaemon, phonePc, stopped, callVars>>

\* Mutant: the exception is caught inside the loop.
M_ReadFails(c) ==
  /\ Go(c, "read", IF stopped[c] THEN "ended" ELSE "read")
  /\ link[c] = "closed" => toPhone[c] = <<>>
  /\ link[c] # "up"
  /\ UNCHANGED <<daemonVars, linkVars, phonePc, stopped, readStr, callVars>>

\* The streams are closed, by the phone or by the daemon: an exception.
ReadFails(c) ==
  /\ Go(c, "read", "ended")
  /\ link[c] = "closed" => toPhone[c] = <<>>
  /\ link[c] # "up"
  /\ UNCHANGED <<daemonVars, linkVars, phonePc, stopped, readStr, callVars>>

ConversationThread(c) == run(c) \/ read(c) \/ ReadFails(c)

WaitForResponse(c) == SeeResponse(c) \/ TimeOut(c) \/ ClearResponse(c)

Phone(c) ==
  \/ connect(c) \/ write(c) \/ WaitForResponse(c) \/ closeConnection(c) \/ cancel(c)
  \/ ConversationThread(c)

Daemon == BtThread \/ BtDispatcher \/ Sigterm

Next ==
  \/ Daemon /\ UNCHANGED phoneVars
  \/ \E c \in Clients : Phone(c)

Spec == Init /\ [][Next]_vars

\* Every thread is run again and again; nobody has to call, to close the
\* connection or to stop the daemon.
Fairness ==
  /\ WF_vars(BtThread /\ UNCHANGED phoneVars)
  /\ WF_vars(BtDispatcher /\ UNCHANGED phoneVars)
  /\ \A c \in Clients :
       /\ WF_vars(ConversationThread(c))
       /\ WF_vars(WaitForResponse(c))
       /\ WF_vars(cancel(c))

FairSpec == Spec /\ Fairness
-----------------------------------------------------------------------------
(* Properties *)

\* The thread of the daemon is held by a request the dispatcher did not answer
\* before it left.
HeldByRequest == btPc = "wait" /\ sentData = NoData /\ dispPc = "join"

\* It is held by a request that was executed with an empty result: nobody has
\* it any more, and nothing will be sent.
HeldByEmptyResult ==
  /\ btPc = "wait" /\ sentData = NoData
  /\ receivedDataStatus = "NO_NEW_DATA" /\ dispPc \notin {"taken", "exec"}

\* It is held by a phone that stays connected and says nothing.
HeldByPhone == btPc = "recv" /\ conn \in Clients /\ link[conn] = "up"

\* One request at a time passes through the buffers (BlueToothLib.c 360-365).
btSlotPhase ==
  IF btPc \notin {"wait", "send"} THEN "free"
  ELSE IF sentData = NoData THEN "asked" ELSE "answered"

Slot == INSTANCE HandOff WITH
  phase <- btSlotPhase,
  request <- IF btPc \in {"wait", "send"} THEN buf ELSE NoData

BtSlotSafety == Slot!Safety

\* A connection gets the answers to its own requests only, in their order,
\* also after another one has ended with a request under way: the answer slot
\* is empty when the next connection is accepted (BlueToothLib.c 300-308).
AnswersInOrder ==
  \A c \in Clients : \A i \in DOMAIN toPhone[c] :
    /\ toPhone[c][i].to.from = c
    /\ \A j \in DOMAIN toPhone[c] :
         i < j /\ Garbled \notin {toPhone[c][i].to.cmd, toPhone[c][j].to.cmd}
           => toPhone[c][i].to.cmd < toPhone[c][j].to.cmd

\* cancel() returns if a call has been answered before: it waits to see the flag
\* it has raised, and run() can lower it afterwards only when it has not begun
\* yet (BluetoothConnector.java 378, 442).
AnsweredCancelReturns ==
  \A c \in Clients :
    phonePc[c] = "cancel" /\ calls[c] > 0 /\ ~timedOut[c] ~> phonePc[c] = "closed"

\* The conversation's thread ends after cancel(), whether or not its flag was
\* lowered again, for the streams are closed.
ThreadEnds == \A c \in Clients : phonePc[c] = "closed" ~> thread[c] = "ended"

\* A stop ends the thread of the daemon unless it came before run(), a phone
\* keeps silent, a request is under way, or one had an empty result
\* (BlueToothLib.c 265, 363, ConnectorBT.cpp 105-109).
OnlyKnownBtHangs ==
  dispPc = "join" ~>
    \/ btPc = "ended" \/ runStatus = "RUN"
    \/ HeldByRequest \/ HeldByEmptyResult \/ HeldByPhone

\* Who waits to be accepted is accepted or reset when the phone before it has
\* left: no end of a connection makes the thread stop accepting.  It does when
\* the thread is held, by a stop or by an empty result that is never sent.
NextIsServed ==
  \A c \in Clients :
    (\E i \in DOMAIN backlog : backlog[i] = c) ~>
      \/ \A i \in DOMAIN backlog : backlog[i] # c
      \/ HeldByRequest \/ HeldByEmptyResult \/ HeldByPhone
=============================================================================
