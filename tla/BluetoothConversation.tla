----------------------- MODULE BluetoothConversation -----------------------
(***************************************************************************)
(* The Bluetooth side of the daemon (BlueToothLib.c, ConnectorBT.cpp): a   *)
(* network thread that serves one connection after the other and meets     *)
(* the commands dispatcher in the buffers of Synchronise.  accept() does   *)
(* not block and polls the run status; the sockets it returns do block,    *)
(* for Linux does not pass O_NONBLOCK on to them (accept(2)).              *)
(*                                                                         *)
(* A connection is two streams of texts without separators: what is        *)
(* unread together is received as one text.  The n-th request of a phone   *)
(* is n, texts that ran together are Garbled.                              *)
(***************************************************************************)
EXTENDS Synchronise, Naturals, Sequences

CONSTANTS
  Garbled,  \* the request that several texts together make
  Stop,     \* the status STOP where a descriptor is expected
  NoConn    \* no descriptor

ASSUME ConnectionAssumption ==
  /\ Garbled \in Requests
  /\ Stop \notin Clients /\ NoConn \notin Clients /\ Stop # NoConn

VARIABLES
  btPc,      \* the place of the network thread
  backlog,   \* the connections nobody has accepted, the first one first
  conn,      \* newSockDescr: a client, Stop or NoConn
  buf,       \* receivedDataArr
  dispPc,    \* the place of the dispatcher
  cmd,       \* newCommand
  told,      \* the dispatcher's shouldStop_
  link,      \* per client: "off", "up", "left" (by it) or "closed" (by the daemon)
  toDaemon,  \* per client: the requests nobody has received
  toPhone    \* per client: the answers nobody has read

btVars   == <<btPc, conn, buf>>
dispVars == <<dispPc, cmd, told>>
linkVars == <<backlog, link, toDaemon, toPhone>>

BtTypeOK ==
  /\ SyncTypeOK
  /\ btPc \in {"start", "listen", "top", "accept", "refused", "recv", "received",
               "posted", "wait", "send", "close", "closeListener", "finish", "ended"}
  /\ backlog \in Seq(Clients)
  /\ conn \in Clients \cup {Stop, NoConn}
  /\ buf \in Messages \cup {NoData}
  /\ dispPc \in {"loop", "taken", "exec", "join", "ended"}
  /\ cmd \in Messages \cup {NoData}
  /\ told \in BOOLEAN
  /\ link \in [Clients -> {"off", "up", "left", "closed"}]
  /\ toDaemon \in [Clients -> Seq(Messages)]
  /\ toPhone \in [Clients -> Seq(Answers)]

BtInit ==
  /\ SyncInit
  /\ btPc = "start" /\ conn = NoConn /\ buf = NoData
  /\ dispPc = "loop" /\ cmd = NoData /\ told = FALSE
  /\ backlog = <<>>
  /\ link = [c \in Clients |-> "off"]
  /\ toDaemon = [c \in Clients |-> <<>>]
  /\ toPhone = [c \in Clients |-> <<>>]

\* All that is unread is received at once.
Together(c, texts) ==
  IF Len(texts) = 1 THEN Head(texts) ELSE [from |-> c, cmd |-> Garbled]
-----------------------------------------------------------------------------
(* The network thread: ConnectorBT::run() around runBtConnection() *)

StartRun ==
  /\ btPc = "start"
  /\ setRunStatus("RUN")
  /\ btPc' = "listen"
  /\ UNCHANGED <<conn, buf, dispVars, linkVars>>

\* Without an adapter there is no socket, or listen() fails.
Listen ==
  /\ btPc = "listen"
  /\ btPc' \in {"top", "finish"}
  /\ UNCHANGED <<syncVars, conn, buf, dispVars, linkVars>>

CheckRunStatus ==
  /\ btPc = "top"
  /\ btPc' = IF runStatus = "STOP" THEN "closeListener" ELSE "accept"
  /\ UNCHANGED <<syncVars, conn, buf, dispVars, linkVars>>

\* acceptBtConn(): a connection that waits, ...
Accept ==
  /\ btPc = "accept"
  /\ backlog # <<>>
  /\ conn' = Head(backlog)
  /\ backlog' = Tail(backlog)
  /\ btPc' = "recv"
  /\ UNCHANGED <<syncVars, buf, dispVars, link, toDaemon, toPhone>>

\* ... or EWOULDBLOCK ...
AcceptNobody ==
  /\ btPc = "accept"
  /\ backlog = <<>>
  /\ btPc' = "refused"
  /\ UNCHANGED <<syncVars, conn, buf, dispVars, linkVars>>

\* Mutant: STOP is not looked at while nobody connects.
M_PollRunStatus ==
  /\ btPc = "refused"
  /\ btPc' = "accept"
  /\ UNCHANGED <<syncVars, conn, buf, dispVars, linkVars>>

\* ... and then another try, or STOP in the place of the descriptor.
PollRunStatus ==
  /\ btPc = "refused"
  /\ \/ runStatus = "RUN" /\ btPc' = "accept" /\ UNCHANGED conn
     \/ runStatus = "STOP" /\ btPc' = "recv" /\ conn' = Stop
  /\ UNCHANGED <<syncVars, buf, dispVars, linkVars>>

\* receiveBtData() from a connection.
Receive ==
  /\ btPc = "recv"
  /\ conn \in Clients
  /\ toDaemon[conn] # <<>>
  /\ buf' = Together(conn, toDaemon[conn])
  /\ toDaemon' = [toDaemon EXCEPT ![conn] = <<>>]
  /\ btPc' = "received"
  /\ UNCHANGED <<syncVars, conn, dispVars, backlog, link, toPhone>>

\* Mutant: the end of a connection is taken for nothing to read.
M_ReceiveEnd ==
  /\ btPc = "recv"
  /\ conn \notin Clients
  /\ btPc' = "close"
  /\ UNCHANGED <<syncVars, conn, buf, dispVars, linkVars>>

\* Its end, or an error: what STOP happens to number is no connection.
ReceiveEnd ==
  /\ btPc = "recv"
  /\ conn \in Clients => toDaemon[conn] = <<>> /\ link[conn] = "left"
  /\ btPc' = "close"
  /\ UNCHANGED <<syncVars, conn, buf, dispVars, linkVars>>

Post ==
  /\ btPc = "received"
  /\ setReceivedData(buf)
  /\ btPc' = "posted"
  /\ UNCHANGED <<conn, buf, dispVars, linkVars>>

Announce ==
  /\ btPc = "posted"
  /\ setReceivedDataStatus("HAS_NEW_DATA")
  /\ btPc' = "wait"
  /\ UNCHANGED <<conn, buf, dispVars, linkVars>>

\* Mutant: the wait ends when the request has been taken.
M_SeeAnswer ==
  /\ btPc = "wait"
  /\ receivedDataStatus = "NO_NEW_DATA"
  /\ btPc' = "send"
  /\ UNCHANGED <<syncVars, conn, buf, dispVars, linkVars>>

\* The busy wait looks at the answer only, not at the run status.
SeeAnswer ==
  /\ btPc = "wait"
  /\ sentData # NoData
  /\ btPc' = "send"
  /\ UNCHANGED <<syncVars, conn, buf, dispVars, linkVars>>

\* sendBtData(): write() fails at the latest when the phone's end is known.
SendAnswer ==
  /\ btPc = "send"
  /\ clearSentData
  /\ toPhone' = [toPhone EXCEPT ![conn] = Append(@, sentData)]
  /\ \/ btPc' = "recv"
     \/ link[conn] = "left" /\ btPc' = "close"
  /\ UNCHANGED <<conn, buf, dispVars, backlog, link, toDaemon>>

CloseConn ==
  /\ btPc = "close"
  /\ link' = IF conn \in Clients THEN [link EXCEPT ![conn] = "closed"] ELSE link
  /\ conn' = NoConn
  /\ btPc' = "top"
  /\ UNCHANGED <<syncVars, buf, dispVars, backlog, toDaemon, toPhone>>

\* Whoever has not been accepted is reset.
CloseListener ==
  /\ btPc = "closeListener"
  /\ link' = [c \in Clients |->
                IF \E i \in DOMAIN backlog : backlog[i] = c THEN "closed" ELSE link[c]]
  /\ backlog' = <<>>
  /\ btPc' = "finish"
  /\ UNCHANGED <<syncVars, conn, buf, dispVars, toDaemon, toPhone>>

FinishRun ==
  /\ btPc = "finish"
  /\ setRunStatus("STOP")
  /\ btPc' = "ended"
  /\ UNCHANGED <<conn, buf, dispVars, linkVars>>

BtThread ==
  \/ StartRun \/ Listen \/ CheckRunStatus \/ Accept \/ AcceptNobody \/ PollRunStatus
  \/ Receive \/ ReceiveEnd \/ Post \/ Announce \/ SeeAnswer \/ SendAnswer
  \/ CloseConn \/ CloseListener \/ FinishRun
-----------------------------------------------------------------------------
(* The dispatcher thread, and SIGTERM *)

PollRequest ==
  /\ dispPc = "loop"
  /\ takeReceivedData
  /\ dispPc' = "taken"
  /\ UNCHANGED <<cmd, told, btVars, linkVars>>

ReadRequest ==
  /\ dispPc = "taken"
  /\ cmd' = receivedData
  /\ dispPc' = "exec"
  /\ UNCHANGED <<syncVars, told, btVars, linkVars>>

\* send() stores a result that is a text, ERR when the request was no command;
\* the command may have been quit.
ExecuteCommand ==
  /\ dispPc = "exec"
  /\ setSentData(cmd, TRUE)
  /\ told' \in {told, TRUE}
  /\ dispPc' = "loop"
  /\ UNCHANGED <<cmd, btVars, linkVars>>

\* An empty result is dropped: that of get_port, which Bluetooth has not, and
\* of an address that could not be read.  The network thread goes on waiting.
DropEmptyResult ==
  /\ dispPc = "exec"
  /\ dispPc' = "loop"
  /\ UNCHANGED <<syncVars, cmd, told, btVars, linkVars>>

\* The loop of start() has ended.
StopConnectors ==
  /\ dispPc = "loop"
  /\ told
  /\ setRunStatus("STOP")
  /\ dispPc' = "join"
  /\ UNCHANGED <<cmd, told, btVars, linkVars>>

Join ==
  /\ dispPc = "join"
  /\ btPc = "ended"
  /\ dispPc' = "ended"
  /\ UNCHANGED <<syncVars, cmd, told, btVars, linkVars>>

BtDispatcher ==
  \/ PollRequest \/ ReadRequest \/ ExecuteCommand \/ DropEmptyResult
  \/ StopConnectors \/ Join

Sigterm ==
  /\ ~told
  /\ told' = TRUE
  /\ UNCHANGED <<syncVars, dispPc, cmd, btVars, linkVars>>
=============================================================================
