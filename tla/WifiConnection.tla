--------------------------- MODULE WifiConnection ---------------------------
(***************************************************************************)
(* The network thread of the WiFi daemon (ConnectorWiFi::run() and         *)
(* runConnection(), conversation(), sendData(), closeSocketConn() of       *)
(* daemon/net/wifi/SocketsLib.c), the descriptors it holds, and the remote *)
(* programs at the other end of the wire.                                  *)
(*                                                                         *)
(* A member of Clients is one TCP connection: a program that reconnects is *)
(* another member.  Closer is the connection of the closing client, which  *)
(* sends "end" and disconnects (daemon/net/wifi/ClosingClient.c).          *)
(* Descriptor numbers are counted from the listening socket's, which is    *)
(* the lowest: it is opened before any client is accepted.                 *)
(***************************************************************************)
EXTENDS Synchronise, Naturals, Sequences

CONSTANTS
  Descriptors,  \* the numbers accept() may return
  Closer,       \* the closing client
  NoPeer,       \* nobody: the other end of a descriptor that is not open
  Ports,        \* the TCP ports
  NoPort,       \* the port of a socket that could not be bound
  End,          \* what recv() yields at the end of a connection: 0 bytes, "end" or an error
  MaxUnread     \* bound: no client sends while another has this many unread answers

Listener == 0
ERR == 0 - 1

Peers == Clients \cup {Closer}

ASSUME WifiAssumption ==
  /\ Descriptors \subseteq Nat \ {Listener}
  /\ Closer \notin Clients
  /\ NoPeer \notin Peers
  /\ NoPort \notin Ports
  /\ End \notin Messages
  /\ MaxUnread \in Nat

VARIABLES
  netPc,        \* the place of the network thread
  boundPort,    \* the port socketDescr is bound to
  listening,    \* the listening socket accepts connections
  master,       \* the connected descriptors select() watches
  ready,        \* those select() returned that this pass has not visited yet
  newSock,      \* newSockDescr: the descriptor accepted last
  connectedIP,  \* the peer whose address is shown as the connected one
  buf,          \* the request conversation() is about
  sock,         \* the peer at the other end of each open descriptor
  backlog,      \* connections the kernel has made that are not accepted yet
  inbox,        \* per client, what it has sent and the daemon has not received
  outbox,       \* per client, the answers it has not read
  client,       \* per client: "off", "idle", "waiting" or "left"
  asked         \* per client, its last request

netVars    == <<netPc, master, ready, newSock, connectedIP, buf>>
kernelVars == <<boundPort, listening, sock, backlog>>
clientVars == <<inbox, outbox, client, asked>>
wifiVars   == <<netVars, kernelVars, clientVars>>

WifiTypeOK ==
  /\ netPc \in {"starting", "listen", "check", "select", "scan", "received",
                "posted", "wait", "send", "closing", "returned", "ended"}
  /\ boundPort \in Ports \cup {NoPort}
  /\ listening \in BOOLEAN
  /\ master \subseteq Descriptors
  /\ ready \subseteq Descriptors \cup {Listener}
  /\ newSock \in Descriptors \cup {ERR}
  /\ connectedIP \in Peers \cup {NoPeer}
  /\ buf \in Messages \cup {NoData}
  /\ sock \in [Descriptors -> Peers \cup {NoPeer}]
  /\ backlog \in Seq(Peers)
  /\ inbox \in [Peers -> Seq(Messages \cup {End})]
  /\ outbox \in [Clients -> Seq(Answers)]
  /\ client \in [Clients -> {"off", "idle", "waiting", "left"}]
  /\ asked \in [Clients -> Messages \cup {NoData}]

WifiInit ==
  /\ netPc = "starting"
  /\ boundPort \in Ports
  /\ listening = FALSE
  /\ master = {}
  /\ ready = {}
  /\ newSock = ERR
  /\ connectedIP = NoPeer
  /\ buf = NoData
  /\ sock = [d \in Descriptors |-> NoPeer]
  /\ backlog = <<>>
  /\ inbox = [p \in Peers |-> IF p = Closer THEN <<End>> ELSE <<>>]
  /\ outbox = [c \in Clients |-> <<>>]
  /\ client = [c \in Clients |-> "off"]
  /\ asked = [c \in Clients |-> NoData]
-----------------------------------------------------------------------------
IsLowest(d, S)  == d \in S /\ \A e \in S : d <= e
IsHighest(d, S) == d \in S /\ \A e \in S : e <= d

FreeDescriptors == {d \in Descriptors : sock[d] = NoPeer}

\* Mutant: the pass ends with the first descriptor it finds ready.
M_RestOfPass(d) == {}

\* What the pass still has to visit after descriptor d.
RestOfPass(d) == ready \ {d}

\* Mutants: the closed number stays in the set, or is taken out of the set
\* without being closed.
M_CloseNewest(watched) ==
  /\ master' = watched
  /\ sock' = [d \in Descriptors |-> IF d = newSock THEN NoPeer ELSE sock[d]]
  /\ ready' = {}
  /\ netPc' = "check"

M_ClearNewest(watched) ==
  /\ master' = watched \ {newSock}
  /\ ready' = {}
  /\ netPc' = "check"
  /\ UNCHANGED sock

\* closeSocketConn(newSockDescr) and the break out of the pass: whichever
\* descriptor the conversation was on, it is the one accepted last that is
\* closed.  Without one (ERR) nothing is closed.
CloseNewest(watched) ==
  /\ master' = watched \ {newSock}
  /\ sock' = [d \in Descriptors |-> IF d = newSock THEN NoPeer ELSE sock[d]]
  /\ ready' = {}
  /\ netPc' = "check"
-----------------------------------------------------------------------------
\* run() sets the status before anything else, whatever stop() has set it to.
\* runConnection() returns at once when the socket was not bound.
StartRun ==
  /\ netPc = "starting"
  /\ netPc' = IF boundPort = NoPort THEN "returned" ELSE "listen"
  /\ setRunStatus("RUN")
  /\ UNCHANGED <<master, ready, newSock, connectedIP, buf, kernelVars, clientVars>>

\* Mutant: the status is set when the socket listens.
M_Listen ==
  /\ netPc = "listen"
  /\ netPc' = "check"
  /\ listening' = TRUE
  /\ newSock' = ERR
  /\ setRunStatus("RUN")
  /\ UNCHANGED <<master, ready, connectedIP, buf, boundPort, sock, backlog, clientVars>>

Listen ==
  /\ netPc = "listen"
  /\ netPc' = "check"
  /\ listening' = TRUE
  /\ newSock' = ERR
  /\ UNCHANGED <<syncVars, master, ready, connectedIP, buf, boundPort, sock, backlog,
                 clientVars>>

CheckRunStatus ==
  /\ netPc = "check"
  /\ netPc' = IF runStatus = "STOP" THEN "closing" ELSE "select"
  /\ UNCHANGED <<syncVars, master, ready, newSock, connectedIP, buf, kernelVars, clientVars>>

\* select() blocks until the listener or a watched descriptor can be read.
Select ==
  /\ netPc = "select"
  /\ ready' = {d \in master : inbox[sock[d]] # <<>>}
                \cup {l \in {Listener} : backlog # <<>>}
  /\ ready' # {}
  /\ netPc' = "scan"
  /\ UNCHANGED <<syncVars, master, newSock, connectedIP, buf, kernelVars, clientVars>>

\* accept() blocks until there is a connection and takes the lowest free
\* number; without one it fails and the connection stays in the backlog.
Accept ==
  /\ netPc = "scan"
  /\ IsLowest(Listener, ready)
  /\ backlog # <<>>
  /\ \/ \E d \in FreeDescriptors :
          /\ IsLowest(d, FreeDescriptors)
          /\ newSock' = d
          /\ sock' = [sock EXCEPT ![d] = Head(backlog)]
          /\ backlog' = Tail(backlog)
          /\ master' = master \cup {d}
          /\ connectedIP' = Head(backlog)
     \/ /\ FreeDescriptors = {}
        /\ newSock' = ERR
        /\ UNCHANGED <<sock, backlog, master, connectedIP>>
  /\ ready' = RestOfPass(Listener)
  /\ netPc' = IF ready' = {} THEN "check" ELSE "scan"
  /\ UNCHANGED <<syncVars, buf, boundPort, listening, clientVars>>

\* conversation() when recv(), which blocks until something has arrived,
\* yields the end of the connection.
ReceiveEnd ==
  /\ netPc = "scan"
  /\ \E d \in master :
       /\ IsLowest(d, ready)
       /\ inbox[sock[d]] # <<>>
       /\ Head(inbox[sock[d]]) = End
       /\ CloseNewest(master \ {d})
  /\ UNCHANGED <<syncVars, newSock, connectedIP, buf, boundPort, listening,
                 backlog, clientVars>>

\* conversation() when recv() yields a request.  All that has arrived is taken
\* as one line: of several requests only the first is a command, the others
\* are its parameters.
ReceiveRequest ==
  /\ netPc = "scan"
  /\ \E d \in master :
       /\ IsLowest(d, ready)
       /\ inbox[sock[d]] # <<>>
       /\ Head(inbox[sock[d]]) # End
       /\ buf' = Head(inbox[sock[d]])
       /\ inbox' = [inbox EXCEPT ![sock[d]] =
                       IF @[Len(@)] = End THEN <<End>> ELSE <<>>]
       /\ ready' = RestOfPass(d)
  /\ netPc' = "received"
  /\ UNCHANGED <<syncVars, master, newSock, connectedIP, kernelVars, outbox, client, asked>>

PostRequest ==
  /\ netPc = "received"
  /\ netPc' = "posted"
  /\ setReceivedData(buf)
  /\ UNCHANGED <<master, ready, newSock, connectedIP, buf, kernelVars, clientVars>>

AnnounceRequest ==
  /\ netPc = "posted"
  /\ netPc' = "wait"
  /\ setReceivedDataStatus("HAS_NEW_DATA")
  /\ UNCHANGED <<master, ready, newSock, connectedIP, buf, kernelVars, clientVars>>

\* Mutant: the wait is given up before there is an answer.
M_SeeAnswer ==
  /\ netPc = "wait"
  /\ netPc' = "send"
  /\ UNCHANGED <<syncVars, master, ready, newSock, connectedIP, buf, kernelVars, clientVars>>

\* The busy wait of conversation() ends when the answer slot is not empty; it
\* looks at nothing else.
SeeAnswer ==
  /\ netPc = "wait"
  /\ sentData # NoData
  /\ netPc' = "send"
  /\ UNCHANGED <<syncVars, master, ready, newSock, connectedIP, buf, kernelVars, clientVars>>

\* send() may fail when the peer has left.
SendMayFail(d) == sock[d] \in Clients => client[sock[d]] = "left"

\* sendData() to every watched descriptor: the first one empties the answer
\* slot, the others are sent zero bytes.  The result is the one of the last
\* descriptor.
SendAnswer ==
  /\ netPc = "send"
  /\ clearSentData
  /\ \E d \in master :
       /\ IsLowest(d, master)
       /\ outbox' = [c \in Clients |->
                       IF sock[d] = c /\ client[c] # "left"
                       THEN Append(outbox[c], sentData) ELSE outbox[c]]
  /\ \E d \in master :
       /\ IsHighest(d, master)
       /\ \/ /\ netPc' = IF ready = {} THEN "check" ELSE "scan"
             /\ UNCHANGED <<master, ready, sock>>
          \/ /\ SendMayFail(d)
             /\ CloseNewest(master)
  /\ UNCHANGED <<newSock, connectedIP, buf, boundPort, listening, backlog, inbox,
                 client, asked>>

\* closeSocketConn(sockDescr) after the loop.  Only the listener is closed:
\* connections not accepted yet are reset, accepted ones stay open.
CloseListener ==
  /\ netPc = "closing"
  /\ netPc' = "returned"
  /\ boundPort' = NoPort
  /\ listening' = FALSE
  /\ backlog' = <<>>
  /\ client' = [c \in Clients |->
                  IF \E i \in DOMAIN backlog : backlog[i] = c
                  THEN "left" ELSE client[c]]
  /\ UNCHANGED <<syncVars, master, ready, newSock, connectedIP, buf, sock,
                 inbox, outbox, asked>>

FinishRun ==
  /\ netPc = "returned"
  /\ netPc' = "ended"
  /\ setRunStatus("STOP")
  /\ UNCHANGED <<master, ready, newSock, connectedIP, buf, kernelVars, clientVars>>

NetThread ==
  \/ StartRun \/ Listen \/ CheckRunStatus \/ Select \/ Accept
  \/ ReceiveEnd \/ ReceiveRequest \/ PostRequest \/ AnnounceRequest
  \/ SeeAnswer \/ SendAnswer \/ CloseListener \/ FinishRun
-----------------------------------------------------------------------------
\* The remote programs: each sends a request and waits for its answer.
Connect(c) ==
  /\ client[c] = "off"
  /\ listening
  /\ client' = [client EXCEPT ![c] = "idle"]
  /\ backlog' = Append(backlog, c)
  /\ UNCHANGED <<syncVars, netVars, boundPort, listening, sock, inbox, outbox, asked>>

SendRequest(c, r) ==
  /\ client[c] = "idle"
  /\ \A b \in Clients : Len(outbox[b]) < MaxUnread
  /\ client' = [client EXCEPT ![c] = "waiting"]
  /\ asked' = [asked EXCEPT ![c] = [from |-> c, cmd |-> r]]
  /\ inbox' = [inbox EXCEPT ![c] = Append(@, [from |-> c, cmd |-> r])]
  /\ UNCHANGED <<syncVars, netVars, kernelVars, outbox>>

ReadAnswer(c) ==
  /\ client[c] = "waiting"
  /\ outbox[c] # <<>>
  /\ client' = [client EXCEPT ![c] = "idle"]
  /\ outbox' = [outbox EXCEPT ![c] = Tail(@)]
  /\ UNCHANGED <<syncVars, netVars, kernelVars, inbox, asked>>

\* A client may go at any time, also while it waits; what it has sent is
\* followed by the end of the connection.
Leave(c) ==
  /\ client[c] \in {"idle", "waiting"}
  /\ client' = [client EXCEPT ![c] = "left"]
  /\ inbox' = [inbox EXCEPT ![c] = Append(@, End)]
  /\ UNCHANGED <<syncVars, netVars, kernelVars, outbox, asked>>

\* A client whose connection the daemon has closed finds out.
Connected(c) ==
  \/ \E d \in Descriptors : sock[d] = c
  \/ \E i \in DOMAIN backlog : backlog[i] = c

FindClosed(c) ==
  /\ client[c] \in {"idle", "waiting"}
  /\ ~Connected(c)
  /\ outbox[c] = <<>>
  /\ client' = [client EXCEPT ![c] = "left"]
  /\ UNCHANGED <<syncVars, netVars, kernelVars, inbox, outbox, asked>>

ClientStep(c) ==
  \/ Connect(c) \/ ReadAnswer(c) \/ Leave(c) \/ FindClosed(c)
  \/ \E r \in Requests : SendRequest(c, r)
-----------------------------------------------------------------------------
(* Property *)

\* What select() watches is open: a closed number would make it fail and end
\* the network thread (SocketsLib.c 521).
WatchesOpenDescriptors == \A d \in master : sock[d] # NoPeer
=============================================================================
