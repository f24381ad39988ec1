------------------------- MODULE BluetoothPhoneProofs -------------------------
(***************************************************************************)
(* What holds of a daemon and its phones over Bluetooth for any number of  *)
(* connections and calls: the types, the hand-off of a request between the *)
(* two threads, and the order of the answers.                              *)
(***************************************************************************)
EXTENDS BluetoothPhone, SequenceTheorems, TLAPS

\* The network thread has a request of its connection.
Busy == btPc \in {"received", "posted", "wait", "send"}

Unanswered == receivedDataStatus = "NO_NEW_DATA" /\ sentData = NoData
Announced  == receivedDataStatus = "HAS_NEW_DATA" /\ sentData = NoData
AnswerSet  == receivedDataStatus = "NO_NEW_DATA" /\ sentData = [to |-> buf, whole |-> TRUE]
Executing  == dispPc \in {"taken", "exec"}

\* The states of the hand-off: nothing outstanding, a request that is announced,
\* that is executed, that is answered, and that had an empty result.
HandOffInv ==
  /\ Busy => conn \in Clients /\ buf \in Messages /\ buf.from = conn
  /\ btPc \in {"posted", "wait"} => receivedData = buf
  /\ btPc \notin {"wait", "send"} => Unanswered /\ ~Executing
  /\ btPc = "wait" =>
       \/ Announced /\ ~Executing
       \/ Unanswered /\ Executing /\ (dispPc = "exec" => cmd = buf)
       \/ AnswerSet /\ ~Executing
       \/ Unanswered /\ ~Executing
  /\ btPc = "send" => AnswerSet /\ ~Executing

OwnRequests == \A c \in Clients : \A i \in DOMAIN toDaemon[c] : toDaemon[c][i].from = c

Inv == TypeOK /\ HandOffInv /\ OwnRequests

LEMMA InvInit == Init => Inv
<1> SUFFICES ASSUME Init PROVE Inv
  OBVIOUS
<1> USE DEF Init, BtInit, SyncInit
<1>1. toDaemon \in [Clients -> Seq(Messages)] /\ toPhone \in [Clients -> Seq(Answers)] /\ backlog \in Seq(Clients)
  OBVIOUS
<1>2. BtTypeOK
  BY <1>1 DEF BtTypeOK, SyncTypeOK
<1>3. TypeOK
  BY <1>2 DEF TypeOK
<1>4. HandOffInv /\ OwnRequests
  BY DEF HandOffInv, OwnRequests, Busy, Unanswered, Executing
<1> QED
  BY <1>3, <1>4 DEF Inv

\* An answer to a message is an answer, and no answer is no data.
LEMMA AnswerTypes ==
  /\ \A m \in Messages : [to |-> m, whole |-> TRUE] \in Answers
  /\ \A a \in Answers : a # NoData /\ a.to \in Messages
  /\ \A c \in Clients : [from |-> c, cmd |-> Garbled] \in Messages
BY SynchroniseAssumption, ConnectionAssumption DEF Answers, Messages

\* What is received is a message of the client.
LEMMA TogetherType ==
  ASSUME NEW c \in Clients, NEW texts \in Seq(Messages), texts # <<>>,
         \A i \in DOMAIN texts : texts[i].from = c
  PROVE  Together(c, texts) \in Messages /\ Together(c, texts).from = c
<1>1. Head(texts) \in Messages /\ Head(texts).from = c
  BY HeadTailProperties
<1> QED
  BY <1>1, AnswerTypes DEF Together, Messages

LEMMA BtThreadTypeStep ==
  ASSUME Inv, BtThread
  PROVE  BtTypeOK'
<1> USE DEF Inv, TypeOK, BtTypeOK, SyncTypeOK, syncVars, btVars, dispVars, linkVars
<1>1. CASE StartRun \/ FinishRun
  BY <1>1 DEF StartRun, FinishRun, setRunStatus
<1>2. CASE Listen \/ CheckRunStatus \/ AcceptNobody \/ PollRunStatus \/ ReceiveEnd \/ SeeAnswer
  BY <1>2 DEF Listen, CheckRunStatus, AcceptNobody, PollRunStatus, ReceiveEnd, SeeAnswer
<1>3. CASE Accept
  <2>1. Head(backlog) \in Clients /\ Tail(backlog) \in Seq(Clients)
    BY <1>3, HeadTailProperties DEF Accept
  <2> QED
    BY <1>3, <2>1 DEF Accept
<1>4. CASE Receive
  <2>1. conn \in Clients /\ toDaemon[conn] \in Seq(Messages) /\ toDaemon[conn] # <<>>
    BY <1>4 DEF Receive
  <2>2. buf' \in Messages
    BY <1>4, <2>1, TogetherType DEF Receive, OwnRequests
  <2>3. toDaemon' \in [Clients -> Seq(Messages)]
    <3>1. <<>> \in Seq(Messages)
      OBVIOUS
    <3> QED
      BY <1>4, <3>1 DEF Receive
  <2> QED
    BY <1>4, <2>1, <2>2, <2>3 DEF Receive
<1>5. CASE Post
  BY <1>5 DEF Post, setReceivedData
<1>6. CASE Announce
  BY <1>6 DEF Announce, setReceivedDataStatus
<1>7. CASE SendAnswer
  <2>1. conn \in Clients /\ sentData \in Answers
    BY <1>7, AnswerTypes DEF SendAnswer, HandOffInv, Busy, AnswerSet
  <2>2. toPhone' \in [Clients -> Seq(Answers)]
    <3>1. toPhone[conn] \in Seq(Answers)
      BY <2>1
    <3>2. Append(toPhone[conn], sentData) \in Seq(Answers)
      BY <2>1, <3>1
    <3> QED
      BY <1>7, <3>2 DEF SendAnswer
  <2> QED
    BY <1>7, <2>2 DEF SendAnswer, clearSentData
<1>8. CASE CloseConn
  BY <1>8 DEF CloseConn
<1>9. CASE CloseListener
  <2>1. backlog' \in Seq(Clients)
    BY <1>9 DEF CloseListener
  <2>2. link' \in [Clients -> {"off", "up", "left", "closed"}]
    BY <1>9 DEF CloseListener
  <2> QED
    BY <1>9, <2>1, <2>2 DEF CloseListener
<1> QED
  BY <1>1, <1>2, <1>3, <1>4, <1>5, <1>6, <1>7, <1>8, <1>9 DEF BtThread

LEMMA DispatcherTypeStep ==
  ASSUME Inv, BtDispatcher \/ Sigterm
  PROVE  BtTypeOK'
<1> USE DEF Inv, TypeOK, BtTypeOK, SyncTypeOK, syncVars, btVars, dispVars, linkVars
<1>1. CASE PollRequest \/ ReadRequest
  BY <1>1 DEF PollRequest, ReadRequest, takeReceivedData
<1>2. CASE ExecuteCommand
  <2>1. cmd \in Messages
    BY <1>2 DEF ExecuteCommand, HandOffInv, Busy, Executing
  <2>2. sentData' \in Answers
    BY <1>2, <2>1, AnswerTypes DEF ExecuteCommand, setSentData
  <2>3. told' \in BOOLEAN /\ dispPc' = "loop"
    BY <1>2 DEF ExecuteCommand
  <2>4. UNCHANGED <<runStatus, receivedDataStatus, receivedData, cmd, btVars, linkVars>>
    BY <1>2 DEF ExecuteCommand, setSentData
  <2> QED
    BY <2>2, <2>3, <2>4
<1>3. CASE DropEmptyResult \/ StopConnectors \/ Join \/ Sigterm
  BY <1>3 DEF DropEmptyResult, StopConnectors, Join, Sigterm, setRunStatus
<1> QED
  BY <1>1, <1>2, <1>3 DEF BtDispatcher

\* The daemon keeps the hand-off in one of its states.
LEMMA DaemonHandOffStep ==
  ASSUME Inv, Daemon
  PROVE  HandOffInv' /\ OwnRequests'
<1> USE DEF Inv, TypeOK, BtTypeOK, SyncTypeOK, syncVars, btVars, dispVars, linkVars
<1>1. OwnRequests'
  <2>1. CASE Receive
    BY <2>1 DEF Receive, OwnRequests
  <2>2. CASE ~Receive
    <3>1. toDaemon' = toDaemon
      BY <2>2 DEF Daemon, BtThread, BtDispatcher, Sigterm, StartRun, Listen, CheckRunStatus, Accept, AcceptNobody,
                  PollRunStatus, ReceiveEnd, Post, Announce, SeeAnswer, SendAnswer, CloseConn, CloseListener,
                  FinishRun, PollRequest, ReadRequest, ExecuteCommand, DropEmptyResult, StopConnectors, Join
    <3> QED
      BY <3>1 DEF OwnRequests
  <2> QED
    BY <2>1, <2>2
<1>2. CASE Listen \/ CheckRunStatus \/ Accept \/ AcceptNobody \/ PollRunStatus \/ ReceiveEnd \/ CloseConn \/ CloseListener
  <2>1. UNCHANGED <<syncVars, buf, dispVars>> /\ ~Busy /\ ~Busy'
    BY <1>2 DEF Busy, Listen, CheckRunStatus, Accept, AcceptNobody, PollRunStatus, ReceiveEnd, CloseConn, CloseListener
  <2> QED
    BY <1>1, <2>1 DEF HandOffInv, Busy, Unanswered, Executing
<1>3. CASE StartRun \/ FinishRun
  BY <1>1, <1>3 DEF StartRun, FinishRun, setRunStatus, HandOffInv, Busy, Unanswered, Executing
<1>4. CASE Receive
  <2>1. conn \in Clients /\ toDaemon[conn] \in Seq(Messages) /\ toDaemon[conn] # <<>>
    BY <1>4 DEF Receive
  <2>2. buf' \in Messages /\ buf'.from = conn
    BY <1>4, <2>1, TogetherType DEF Receive, OwnRequests
  <2> QED
    BY <1>1, <1>4, <2>1, <2>2 DEF Receive, HandOffInv, Busy, Unanswered, Executing
<1>5. CASE Post
  BY <1>1, <1>5 DEF Post, setReceivedData, HandOffInv, Busy, Unanswered, Executing
<1>6. CASE Announce
  BY <1>1, <1>6 DEF Announce, setReceivedDataStatus, HandOffInv, Busy, Unanswered, Announced, Executing
<1>7. CASE SeeAnswer
  BY <1>1, <1>7 DEF SeeAnswer, HandOffInv, Busy, Unanswered, Announced, AnswerSet, Executing
<1>8. CASE SendAnswer
  BY <1>1, <1>8 DEF SendAnswer, clearSentData, HandOffInv, Busy, Unanswered, AnswerSet, Executing
<1>9. CASE PollRequest
  BY <1>1, <1>9 DEF PollRequest, takeReceivedData, HandOffInv, Busy, Unanswered, Announced, AnswerSet, Executing
<1>10. CASE ReadRequest
  BY <1>1, <1>10 DEF ReadRequest, HandOffInv, Busy, Unanswered, Announced, AnswerSet, Executing
<1>11. CASE ExecuteCommand
  BY <1>1, <1>11 DEF ExecuteCommand, setSentData, HandOffInv, Busy, Unanswered, Announced, AnswerSet, Executing
<1>12. CASE StopConnectors \/ Join \/ Sigterm
  <2>1. /\ UNCHANGED <<receivedDataStatus, receivedData, sentData, cmd, btPc, conn, buf>>
        /\ (~Executing' /\ ~Executing) \/ UNCHANGED dispPc
    BY <1>12 DEF StopConnectors, Join, Sigterm, setRunStatus, Executing
  <2> QED
    BY <1>1, <2>1 DEF HandOffInv, Busy, Unanswered, Announced, AnswerSet, Executing
<1>13. CASE DropEmptyResult
  BY <1>1, <1>13 DEF DropEmptyResult, HandOffInv, Busy, Unanswered, Announced, AnswerSet, Executing
<1> QED
  BY <1>2, <1>3, <1>4, <1>5, <1>6, <1>7, <1>8, <1>9, <1>10, <1>11, <1>12, <1>13 DEF Daemon, BtThread, BtDispatcher

\* The phones do not touch the daemon, and keep their own types.
LEMMA PhoneTypeStep ==
  ASSUME Inv, NEW c \in Clients, Phone(c)
  PROVE  TypeOK' /\ OwnRequests' /\ UNCHANGED daemonVars
<1> USE DEF Inv, TypeOK, BtTypeOK, linkVars, callVars
<1>1. UNCHANGED daemonVars
  BY DEF Phone, connect, write, WaitForResponse, SeeResponse, TimeOut, ClearResponse, closeConnection, cancel,
         ConversationThread, run, read, ReadFails
<1>2. SyncTypeOK' /\ UNCHANGED <<btPc, conn, buf, dispPc, cmd, told>>
  BY <1>1 DEF daemonVars, syncVars, btVars, dispVars, SyncTypeOK
<1>3. CASE connect(c)
  <2>1. backlog' \in Seq(Clients)
    BY <1>3 DEF connect
  <2> QED
    BY <1>1, <1>2, <1>3, <2>1 DEF connect, Move, OwnRequests
<1>4. CASE write(c)
  <2>1. calls[c] \in Nat /\ MaxCalls[c] \in Nat /\ calls'[c] = calls[c] + 1 /\ calls' \in [Clients -> Nat]
    <3>1. calls[c] \in Nat /\ MaxCalls[c] \in Nat
      BY PhoneAssumption
    <3>2. calls' = [calls EXCEPT ![c] = calls[c] + 1] /\ calls \in [Clients -> Nat] /\ calls[c] + 1 \in Nat
      BY <1>4, <3>1 DEF write
    <3> QED
      BY ONLY <3>1, <3>2
  <2>2. calls'[c] \in 1..MaxCalls[c]
    BY <1>4, <2>1 DEF write
  <2> DEFINE m == [from |-> c, cmd |-> calls'[c]]
  <2>3. m \in Messages
    BY <2>2, PhoneAssumption DEF Messages
  <2>4. toDaemon[c] \in Seq(Messages) /\ Append(toDaemon[c], m) \in Seq(Messages)
    BY <2>3
  <2>5. toDaemon' \in [Clients -> Seq(Messages)] /\ OwnRequests'
    <3>1. toDaemon' = [toDaemon EXCEPT ![c] = Append(toDaemon[c], m)]
      BY <1>4 DEF write
    <3>2. \A i \in DOMAIN Append(toDaemon[c], m) : Append(toDaemon[c], m)[i].from = c
      BY <2>3, <2>4, AppendProperties DEF OwnRequests
    <3> HIDE DEF m
    <3> QED
      BY <2>4, <3>1, <3>2 DEF OwnRequests
  <2>6. UNCHANGED <<backlog, link, toPhone, thread, stopped, readStr, timedOut>> /\ Move(c, "idle", "waiting")
    BY <1>4 DEF write
  <2> HIDE DEF m
  <2> QED
    BY <1>1, <1>2, <2>1, <2>5, <2>6 DEF Move
<1>5. CASE SeeResponse(c) \/ TimeOut(c) \/ ClearResponse(c) \/ closeConnection(c)
  <2>1. UNCHANGED <<backlog, link, toDaemon, toPhone, thread, calls>>
        /\ phonePc' \in [Clients -> {"off", "idle", "waiting", "clear", "cancel", "closed"}]
        /\ readStr' \in [Clients -> Answers \cup {NoData}]
    BY <1>5 DEF SeeResponse, TimeOut, ClearResponse, closeConnection, Move
  <2>2. \E b \in BOOLEAN : timedOut' = timedOut \/ timedOut' = [timedOut EXCEPT ![c] = b]
    BY <1>5 DEF SeeResponse, TimeOut, ClearResponse, closeConnection
  <2>3. \E b \in BOOLEAN : stopped' = stopped \/ stopped' = [stopped EXCEPT ![c] = b]
    BY <1>5 DEF SeeResponse, TimeOut, ClearResponse, closeConnection
  <2>4. stopped' \in [Clients -> BOOLEAN] /\ timedOut' \in [Clients -> BOOLEAN]
    BY <2>2, <2>3
  <2> QED
    BY <1>1, <1>2, <2>1, <2>4 DEF OwnRequests
<1>6. CASE cancel(c)
  BY <1>1, <1>2, <1>6 DEF cancel, Move, OwnRequests
<1>7. CASE run(c) \/ ReadFails(c)
  <2>1. UNCHANGED <<backlog, link, toDaemon, toPhone, phonePc, readStr, calls, timedOut>>
        /\ thread' \in [Clients -> {"none", "started", "read", "ended"}]
    BY <1>7 DEF run, ReadFails, Go
  <2>2. \E b \in BOOLEAN : stopped' = stopped \/ stopped' = [stopped EXCEPT ![c] = b]
    BY <1>7 DEF run, ReadFails
  <2>3. stopped' \in [Clients -> BOOLEAN]
    BY <2>2
  <2> QED
    BY <1>1, <1>2, <2>1, <2>3 DEF OwnRequests
<1>8. CASE read(c)
  <2>1. toPhone[c] \in Seq(Answers) /\ Head(toPhone[c]) \in Answers
    BY <1>8, HeadTailProperties DEF read
  <2>2. [to |-> [from |-> c, cmd |-> Garbled], whole |-> TRUE] \in Answers
    BY AnswerTypes
  <2>3. readStr' \in [Clients -> Answers \cup {NoData}]
    BY <1>8, <2>1, <2>2 DEF read
  <2>4. toPhone' \in [Clients -> Seq(Answers)]
    <3>1. <<>> \in Seq(Answers)
      OBVIOUS
    <3> QED
      BY <1>8, <3>1 DEF read
  <2>5. UNCHANGED <<backlog, link, toDaemon, phonePc, stopped, calls, timedOut>>
        /\ thread' \in [Clients -> {"none", "started", "read", "ended"}]
    BY <1>8 DEF read, Go
  <2> QED
    BY <1>1, <1>2, <2>3, <2>4, <2>5 DEF OwnRequests
<1> HIDE DEF Inv, TypeOK, BtTypeOK, linkVars, callVars
<1> QED
  BY <1>3, <1>4, <1>5, <1>6, <1>7, <1>8 DEF Phone, WaitForResponse, ConversationThread

LEMMA InvStep ==
  ASSUME Inv, Next
  PROVE  Inv'
<1>1. CASE Daemon /\ UNCHANGED phoneVars
  <2>1. BtTypeOK'
    BY <1>1, BtThreadTypeStep, DispatcherTypeStep DEF Daemon
  <2> QED
    BY <1>1, <2>1, DaemonHandOffStep DEF Inv, TypeOK, phoneVars, callVars
<1>2. ASSUME NEW c \in Clients, Phone(c) PROVE Inv'
  <2>1. TypeOK' /\ OwnRequests' /\ UNCHANGED daemonVars
    BY <1>2, PhoneTypeStep
  <2>2. HandOffInv'
    BY <2>1 DEF Inv, HandOffInv, Busy, Unanswered, Announced, AnswerSet, Executing, daemonVars, syncVars, btVars, dispVars
  <2> QED
    BY <2>1, <2>2 DEF Inv
<1> QED
  BY <1>1, <1>2 DEF Next

THEOREM Invariance == Spec => []Inv
<1>1. Inv /\ [Next]_vars => Inv'
  <2>1. ASSUME Inv, UNCHANGED vars PROVE Inv'
    BY <2>1 DEF Inv, TypeOK, BtTypeOK, SyncTypeOK, HandOffInv, OwnRequests, Busy, Unanswered, Announced, AnswerSet,
                Executing, vars, daemonVars, phoneVars, callVars, syncVars, btVars, dispVars, linkVars
  <2> QED
    BY <2>1, InvStep
<1> QED
  BY <1>1, InvInit, PTL DEF Spec

\* Every variable keeps its type, whatever the phones do and however long the daemon
\* takes to answer.
THEOREM BtTypeCorrect == Spec => []TypeOK
BY Invariance, PTL DEF Inv
-----------------------------------------------------------------------------
(* The two threads implement the slot for one request. *)

\* Outside a conversation the slot is free; within one it moves only with the
\* place of the network thread, its request or the emptiness of sentData.
LEMMA SlotStutters ==
  ASSUME \/ btPc \notin {"wait", "send"} /\ btPc' \notin {"wait", "send"}
         \/ UNCHANGED <<btPc, buf, sentData>>
  PROVE  UNCHANGED Slot!vars
BY DEF btSlotPhase, Slot!vars

\* Every step of the daemon's threads and of the phones is one of the abstract slot
\* or does not move it, also when a stop or an empty result leaves a request
\* unanswered (BlueToothLib.c, 360-365, ConnectorBT.cpp, 105-109).
THEOREM BtSlotImplemented == Spec => BtSlotSafety
<1>1. Init => Slot!Init
  BY DEF Init, BtInit, Slot!Init, btSlotPhase
<1>2. Inv /\ [Next]_vars => [Slot!Next]_(Slot!vars)
  <2> SUFFICES ASSUME Inv, [Next]_vars
               PROVE  Slot!Next \/ UNCHANGED Slot!vars
    OBVIOUS
  <2>1. CASE UNCHANGED vars
    BY <2>1, SlotStutters DEF vars, daemonVars, syncVars, btVars
  <2>2. CASE Announce
    <3>1. buf \in Messages /\ buf' = buf /\ btPc = "posted" /\ btPc' = "wait" /\ sentData' = NoData
      BY <2>2 DEF Announce, setReceivedDataStatus, Inv, HandOffInv, Busy, Unanswered
    <3>2. Slot!Ask(buf)
      BY <3>1 DEF Slot!Ask, btSlotPhase
    <3> QED
      BY <3>1, <3>2 DEF Slot!Next
  <2>3. CASE SeeAnswer
    BY <2>3 DEF SeeAnswer, syncVars, btSlotPhase, Slot!vars
  <2>4. CASE SendAnswer
    <3>1. btPc = "send" /\ btPc' \notin {"wait", "send"} /\ sentData # NoData
      BY <2>4, AnswerTypes DEF SendAnswer, Inv, HandOffInv, Busy, AnswerSet
    <3> QED
      BY <3>1 DEF Slot!Next, Slot!HandOver, btSlotPhase
  <2>5. CASE BtThread /\ ~Announce /\ ~SeeAnswer /\ ~SendAnswer
    <3>1. btPc \notin {"wait", "send"} /\ btPc' \notin {"wait", "send"}
      BY <2>5 DEF BtThread, StartRun, Listen, CheckRunStatus, Accept, AcceptNobody, PollRunStatus, Receive,
                  ReceiveEnd, Post, CloseConn, CloseListener, FinishRun
    <3> QED
      BY <3>1, SlotStutters
  <2>6. CASE ExecuteCommand
    <3>1. btPc = "wait" /\ sentData = NoData /\ cmd = buf /\ buf \in Messages /\ UNCHANGED <<btPc, buf>>
      BY <2>6 DEF ExecuteCommand, Inv, HandOffInv, Busy, Unanswered, Announced, AnswerSet, Executing, btVars
    <3>2. sentData' # NoData
      BY <2>6, <3>1, AnswerTypes DEF ExecuteCommand, setSentData
    <3> QED
      BY <3>1, <3>2 DEF Slot!Next, Slot!Answer, btSlotPhase
  <2>7. CASE PollRequest \/ ReadRequest \/ DropEmptyResult \/ StopConnectors \/ Join \/ Sigterm
    <3>1. UNCHANGED <<btPc, buf, sentData>>
      BY <2>7 DEF PollRequest, ReadRequest, DropEmptyResult, StopConnectors, Join, Sigterm, takeReceivedData, setRunStatus,
                  syncVars, btVars
    <3> QED
      BY <3>1, SlotStutters
  <2>8. ASSUME NEW c \in Clients, Phone(c) PROVE UNCHANGED Slot!vars
    <3>1. UNCHANGED <<btPc, buf, sentData>>
      BY <2>8, PhoneTypeStep DEF daemonVars, syncVars, btVars
    <3> QED
      BY <3>1, SlotStutters
  <2> QED
    BY <2>1, <2>2, <2>3, <2>4, <2>5, <2>6, <2>7, <2>8 DEF Next, Daemon, BtDispatcher
<1> QED
  BY <1>1, <1>2, Invariance, PTL DEF Spec, BtSlotSafety, Slot!Safety
-----------------------------------------------------------------------------
(* The order of the answers *)

\* A command that comes before everything its phone has still to be read.
Early(c, n) ==
  n # Garbled => n <= calls[c] /\ \A j \in DOMAIN toDaemon[c] : n < toDaemon[c][j].cmd

Before(m, n) == Garbled \notin {m, n} => m < n

\* On each connection what is answered comes before what is being answered, and
\* that before what is unread.
InOrder(c) ==
  /\ \A j \in DOMAIN toDaemon[c] : toDaemon[c][j].cmd <= calls[c]
  /\ \A i \in DOMAIN toPhone[c] :
       /\ toPhone[c][i].to.from = c
       /\ Early(c, toPhone[c][i].to.cmd)
       /\ \A j \in DOMAIN toPhone[c] : i < j => Before(toPhone[c][i].to.cmd, toPhone[c][j].to.cmd)
       /\ Busy /\ conn = c => Before(toPhone[c][i].to.cmd, buf.cmd)
  /\ Busy /\ conn = c => Early(c, buf.cmd)

OrderInv == \A c \in Clients : InOrder(c)

LEMMA OrderInit == Init => OrderInv
<1> SUFFICES ASSUME Init, NEW c \in Clients PROVE InOrder(c)
  BY DEF OrderInv
<1>1. toDaemon[c] = <<>> /\ toPhone[c] = <<>> /\ ~Busy
  BY DEF Init, BtInit, Busy
<1>2. DOMAIN toDaemon[c] = {} /\ DOMAIN toPhone[c] = {}
  BY <1>1
<1> QED
  BY <1>1, <1>2 DEF InOrder

\* Commands are numbers.
LEMMA CommandTypes == \A m \in Messages : m.cmd \in Nat /\ m.from \in Clients
BY PhoneAssumption DEF Messages

\* A step that neither receives, nor answers, nor calls.
LEMMA OrderKept ==
  ASSUME OrderInv, UNCHANGED <<toDaemon, toPhone, calls>>,
         Busy' => Busy /\ UNCHANGED <<conn, buf>>
  PROVE  OrderInv'
<1> SUFFICES ASSUME NEW c \in Clients PROVE InOrder(c)'
  BY DEF OrderInv
<1>1. InOrder(c)
  BY DEF OrderInv
<1> QED
  BY <1>1 DEF InOrder, Early, Before

\* All that is unread becomes one request.
LEMMA ReceiveOrder ==
  ASSUME Inv, OrderInv, Receive, UNCHANGED phoneVars
  PROVE  OrderInv'
<1> SUFFICES ASSUME NEW c \in Clients PROVE InOrder(c)'
  BY DEF OrderInv
<1>1. InOrder(c) /\ toPhone' = toPhone /\ calls' = calls /\ conn' = conn /\ conn \in Clients
  BY DEF OrderInv, Receive, phoneVars, callVars
<1>2. CASE conn # c
  <2>1. toDaemon'[c] = toDaemon[c]
    BY <1>2 DEF Receive, Inv, TypeOK, BtTypeOK
  <2> QED
    BY <1>1, <1>2, <2>1 DEF InOrder, Early, Before
<1>3. CASE conn = c
  <2>1. toDaemon'[c] = <<>> /\ toDaemon[c] # <<>> /\ buf' = Together(c, toDaemon[c]) /\ toDaemon[c] \in Seq(Messages)
    BY <1>3 DEF Receive, Inv, TypeOK, BtTypeOK
  <2>2. DOMAIN toDaemon'[c] = {}
    BY <2>1
  <2>3. 1 \in DOMAIN toDaemon[c] /\ Head(toDaemon[c]) = toDaemon[c][1]
    BY <2>1
  <2>4. buf'.cmd = Garbled \/ buf'.cmd = toDaemon[c][1].cmd
    BY <2>1, <2>3 DEF Together
  <2>5. Early(c, buf.cmd)'
    BY <1>1, <2>2, <2>3, <2>4 DEF Early, InOrder
  <2>6. \A i \in DOMAIN toPhone[c] : Before(toPhone[c][i].to.cmd, buf'.cmd)
    BY <1>1, <2>3, <2>4 DEF Early, InOrder, Before
  <2> QED
    BY <1>1, <2>2, <2>5, <2>6 DEF InOrder, Early, Before
<1> QED
  BY <1>2, <1>3

\* The answer goes behind those that are unread.
LEMMA SendOrder ==
  ASSUME Inv, OrderInv, SendAnswer, UNCHANGED phoneVars
  PROVE  OrderInv'
<1> SUFFICES ASSUME NEW c \in Clients PROVE InOrder(c)'
  BY DEF OrderInv
<1>1. InOrder(c) /\ toDaemon' = toDaemon /\ calls' = calls /\ conn' = conn /\ buf' = buf
  BY DEF OrderInv, SendAnswer, phoneVars, callVars
<1>2. Busy /\ ~Busy' /\ conn \in Clients /\ buf \in Messages /\ buf.from = conn /\ sentData.to = buf
      /\ sentData \in Answers
  BY AnswerTypes DEF SendAnswer, Busy, Inv, HandOffInv, AnswerSet
<1>3. CASE conn # c
  <2>1. toPhone'[c] = toPhone[c]
    BY <1>3 DEF SendAnswer, Inv, TypeOK, BtTypeOK
  <2> QED
    BY <1>1, <1>2, <2>1 DEF InOrder, Early, Before
<1>4. CASE conn = c
  <2>1. toPhone'[c] = Append(toPhone[c], sentData) /\ toPhone[c] \in Seq(Answers)
    BY <1>4 DEF SendAnswer, Inv, TypeOK, BtTypeOK
  <2> DEFINE n == Len(toPhone[c])
  <2>2. /\ n \in Nat /\ DOMAIN toPhone[c] = 1..n /\ DOMAIN toPhone'[c] = 1..(n + 1)
        /\ \A i \in 1..n : toPhone'[c][i] = toPhone[c][i]
        /\ toPhone'[c][n + 1] = sentData
    BY <1>2, <2>1, AppendProperties
  <2> HIDE DEF n
  <2>3. Early(c, buf.cmd) /\ \A i \in 1..n : Before(toPhone[c][i].to.cmd, buf.cmd)
    BY <1>1, <1>2, <1>4, <2>2 DEF InOrder
  <2>4. \A i \in 1..(n + 1) : toPhone'[c][i].to.from = c /\ Early(c, toPhone[c][i].to.cmd)'
    <3> SUFFICES ASSUME NEW i \in 1..(n + 1)
                 PROVE  toPhone'[c][i].to.from = c /\ Early(c, toPhone[c][i].to.cmd)'
      OBVIOUS
    <3>1. CASE i = n + 1
      BY <1>1, <1>2, <1>4, <2>2, <2>3, <3>1 DEF Early
    <3>2. CASE i # n + 1
      <4>1. i \in 1..n
        BY <2>2, <3>2
      <4> QED
        BY <1>1, <2>2, <4>1 DEF Early, InOrder
    <3> QED
      BY <3>1, <3>2
  <2>5. \A i, j \in 1..(n + 1) : i < j => Before(toPhone'[c][i].to.cmd, toPhone'[c][j].to.cmd)
    <3> SUFFICES ASSUME NEW i \in 1..(n + 1), NEW j \in 1..(n + 1), i < j
                 PROVE  Before(toPhone'[c][i].to.cmd, toPhone'[c][j].to.cmd)
      OBVIOUS
    <3>1. i \in 1..n
      BY <2>2
    <3>2. CASE j = n + 1
      BY <1>2, <2>2, <2>3, <3>1, <3>2
    <3>3. CASE j # n + 1
      <4>1. j \in 1..n
        BY <2>2, <3>3
      <4> QED
        BY <1>1, <2>2, <3>1, <4>1 DEF InOrder
    <3> QED
      BY <3>2, <3>3
  <2> QED
    BY <1>1, <1>2, <2>2, <2>4, <2>5 DEF InOrder
<1> QED
  BY <1>3, <1>4

\* A new call has the highest number yet.
LEMMA WriteOrder ==
  ASSUME Inv, OrderInv, NEW p \in Clients, write(p), Inv'
  PROVE  OrderInv'
<1> SUFFICES ASSUME NEW c \in Clients PROVE InOrder(c)'
  BY DEF OrderInv
<1>1. InOrder(c) /\ toPhone' = toPhone /\ conn' = conn /\ buf' = buf /\ btPc' = btPc
  BY DEF OrderInv, write, daemonVars, btVars
<1>2. CASE c # p
  <2>1. toDaemon'[c] = toDaemon[c] /\ calls'[c] = calls[c]
    BY <1>2 DEF write, Inv, TypeOK, BtTypeOK
  <2> QED
    BY <1>1, <2>1 DEF InOrder, Early, Before, Busy
<1>3. CASE c = p
  <2> DEFINE new == [from |-> c, cmd |-> calls'[c]]
             n == Len(toDaemon[c])
  <2>1. calls[c] \in Nat /\ calls'[c] = calls[c] + 1
    BY <1>3 DEF write, Inv, TypeOK
  <2>2. toDaemon'[c] = Append(toDaemon[c], new) /\ toDaemon[c] \in Seq(Messages)
    BY <1>3 DEF write, Inv, TypeOK, BtTypeOK
  <2>3. /\ n \in Nat /\ DOMAIN toDaemon[c] = 1..n /\ DOMAIN toDaemon'[c] = 1..(n + 1)
        /\ \A j \in 1..n : toDaemon'[c][j] = toDaemon[c][j]
        /\ toDaemon'[c][n + 1] = new
    BY <2>2
  <2> HIDE DEF n
  <2>4. toDaemon'[c][n + 1].cmd = calls[c] + 1
    BY <2>1, <2>3
  <2>5. \A j \in 1..n : toDaemon[c][j].cmd \in Nat /\ toDaemon[c][j].cmd <= calls[c]
    BY <1>1, <2>2, <2>3, CommandTypes DEF InOrder
  <2>6. \A j \in DOMAIN toDaemon'[c] : toDaemon'[c][j].cmd <= calls'[c]
    <3> SUFFICES ASSUME NEW j \in 1..(n + 1) PROVE toDaemon'[c][j].cmd <= calls'[c]
      BY <2>3
    <3>1. j = n + 1 \/ j \in 1..n
      BY <2>3
    <3> QED
      BY <2>1, <2>3, <2>4, <2>5, <3>1
  <2>7. ASSUME NEW k \in Nat, Early(c, k) PROVE Early(c, k)'
    <3> SUFFICES ASSUME k # Garbled PROVE k <= calls'[c] /\ \A j \in 1..(n + 1) : k < toDaemon'[c][j].cmd
      BY <2>3 DEF Early
    <3>1. k <= calls[c] /\ \A j \in 1..n : k < toDaemon[c][j].cmd
      BY <2>3, <2>7 DEF Early
    <3>2. \A j \in 1..(n + 1) : j = n + 1 \/ j \in 1..n
      BY <2>3
    <3> QED
      BY <2>1, <2>3, <2>4, <3>1, <3>2
  <2>8. \A i \in DOMAIN toPhone[c] : toPhone[c][i].to.cmd \in Nat
    <3>1. toPhone[c] \in Seq(Answers)
      BY DEF Inv, TypeOK, BtTypeOK
    <3> QED
      BY <3>1, AnswerTypes, CommandTypes
  <2>9. Busy => buf.cmd \in Nat
    BY CommandTypes DEF Inv, HandOffInv
  <2>10. \A i \in DOMAIN toPhone[c] : Early(c, toPhone[c][i].to.cmd)'
    <3> SUFFICES ASSUME NEW i \in DOMAIN toPhone[c] PROVE Early(c, toPhone[c][i].to.cmd)'
      OBVIOUS
    <3>1. Early(c, toPhone[c][i].to.cmd)
      BY <1>1 DEF InOrder
    <3> QED
      BY <1>1, <2>7, <2>8, <3>1
  <2>11. Busy' /\ conn' = c => Early(c, buf.cmd)'
    <3>1. Busy' /\ conn' = c => Busy /\ Early(c, buf.cmd)
      BY <1>1 DEF InOrder, Busy
    <3> QED
      BY <1>1, <2>7, <2>9, <3>1
  <2> QED
    BY <1>1, <2>6, <2>10, <2>11 DEF InOrder, Before, Busy
<1> QED
  BY <1>2, <1>3

LEMMA OrderStep ==
  ASSUME Inv, OrderInv, Next
  PROVE  OrderInv'
<1>1. CASE Daemon /\ UNCHANGED phoneVars
  <2>1. CASE Receive
    BY <1>1, <2>1, ReceiveOrder
  <2>2. CASE SendAnswer
    BY <1>1, <2>2, SendOrder
  <2>3. CASE ~Receive /\ ~SendAnswer
    <3>1. UNCHANGED <<toDaemon, toPhone, calls>> /\ (Busy' => Busy /\ UNCHANGED <<conn, buf>>)
      BY <1>1, <2>3
      DEF Daemon, BtThread, BtDispatcher, Sigterm, StartRun, Listen, CheckRunStatus, Accept, AcceptNobody,
          PollRunStatus, ReceiveEnd, Post, Announce, SeeAnswer, CloseConn, CloseListener, FinishRun, PollRequest,
          ReadRequest, ExecuteCommand, DropEmptyResult, StopConnectors, Join, Busy, phoneVars, callVars, linkVars, btVars
    <3> QED
      BY <3>1, OrderKept
  <2> QED
    BY <2>1, <2>2, <2>3
<1>2. ASSUME NEW p \in Clients, Phone(p) PROVE OrderInv'
  <2>1. UNCHANGED <<btPc, conn, buf>>
    BY <1>2, PhoneTypeStep DEF daemonVars, btVars
  <2>2. CASE write(p)
    BY <2>2, WriteOrder, InvStep
  <2>3. CASE read(p)
    <3> SUFFICES ASSUME NEW c \in Clients PROVE InOrder(c)'
      BY DEF OrderInv
    <3>1. InOrder(c) /\ toDaemon' = toDaemon /\ calls' = calls
          /\ (toPhone'[c] = toPhone[c] \/ toPhone'[c] = <<>>)
      BY <2>3 DEF OrderInv, read, callVars, Inv, TypeOK, BtTypeOK
    <3>2. CASE toPhone'[c] = <<>>
      <4>1. DOMAIN toPhone'[c] = {}
        BY <3>2
      <4> QED
        BY <2>1, <3>1, <4>1 DEF InOrder, Early, Busy
    <3>3. CASE toPhone'[c] = toPhone[c]
      BY <2>1, <3>1, <3>3 DEF InOrder, Early, Before, Busy
    <3> QED
      BY <3>1, <3>2, <3>3
  <2>4. CASE ~write(p) /\ ~read(p)
    <3>1. UNCHANGED <<toDaemon, toPhone, calls>>
      BY <1>2, <2>4 DEF Phone, connect, WaitForResponse, SeeResponse, TimeOut, ClearResponse, closeConnection, cancel,
                        ConversationThread, run, ReadFails, linkVars, callVars
    <3> QED
      BY <2>1, <3>1, OrderKept DEF Busy
  <2> QED
    BY <2>2, <2>3, <2>4
<1> QED
  BY <1>1, <1>2 DEF Next

\* For any number of connections and calls, and whatever has timed out or run together:
\* a phone gets the answers to its own requests only, in their order, also after a
\* connection that ended with a request under way (BlueToothLib.c, 300-308).
THEOREM OrderCorrect == Spec => []AnswersInOrder
<1>1. Inv /\ OrderInv /\ [Next]_vars => OrderInv'
  <2>1. ASSUME OrderInv, UNCHANGED vars PROVE OrderInv'
    <3>1. UNCHANGED <<toDaemon, toPhone, calls, btPc, conn, buf>>
      BY <2>1 DEF vars, daemonVars, linkVars, phoneVars, callVars, btVars
    <3> QED
      BY <2>1, <3>1, OrderKept DEF Busy
  <2> QED
    BY <2>1, OrderStep
<1>2. OrderInv => AnswersInOrder
  BY DEF OrderInv, InOrder, Before, AnswersInOrder
<1> QED
  BY <1>1, <1>2, Invariance, OrderInit, PTL DEF Spec
=============================================================================
