-------------------------- MODULE DaemonWiFiProofs --------------------------
(***************************************************************************)
(* Proofs about the WiFi daemon, for any sets of clients, requests, ports  *)
(* and descriptors.                                                        *)
(*                                                                         *)
(* First the parts every specification of it shares: the types of the      *)
(* network thread and its clients, the state of the hand-off after a step  *)
(* of the network thread or of the dispatcher, and the slot both           *)
(* implement.  On them rest the theorems about NetConversation, where the  *)
(* daemon runs undisturbed (Spec), and about DaemonWiFi, where the         *)
(* dispatcher stops and restarts the network thread (DaemonSpec).          *)
(***************************************************************************)
EXTENDS DaemonWiFi, SequenceTheorems, TLAPS

-----------------------------------------------------------------------------
(* What the network thread and its clients keep by themselves: the types,  *)
(* the sockets select() watches, and what the thread holds at each place.  *)
(* The proofs about the whole daemon build on it too.                      *)

WifiInv ==
  /\ SyncTypeOK
  /\ WifiTypeOK
  /\ WatchesOpenDescriptors
  /\ netPc \in {"received", "posted"} => buf \in Messages
  /\ netPc = "send" => sentData \in Answers

LEMMA WifiInvInit == SyncInit /\ WifiInit => WifiInv
<1> SUFFICES ASSUME SyncInit, WifiInit PROVE WifiInv
  OBVIOUS
<1> USE DEF SyncInit, WifiInit
<1>1. SyncTypeOK
  BY DEF SyncTypeOK
<1>2. inbox \in [Peers -> Seq(Messages \cup {End})]
  <2>1. <<>> \in Seq(Messages \cup {End}) /\ <<End>> \in Seq(Messages \cup {End})
    OBVIOUS
  <2> QED
    BY <2>1
<1>3. outbox \in [Clients -> Seq(Answers)] /\ backlog \in Seq(Peers)
  OBVIOUS
<1> QED
  BY <1>1, <1>2, <1>3 DEF WifiInv, WatchesOpenDescriptors, WifiTypeOK, ERR

\* The types after a step of the network thread.  A message is taken from a
\* socket only where the invariant says that the socket is open, and an answer
\* only where it says that there is one.
LEMMA NetTypeStep ==
  ASSUME WifiInv, NetThread
  PROVE  SyncTypeOK' /\ WifiTypeOK'
<1> USE SynchroniseAssumption, WifiAssumption
     DEF WifiInv, SyncTypeOK, WifiTypeOK, Peers, ERR, Listener,
         syncVars, netVars, kernelVars, clientVars, wifiVars
<1>1. CASE StartRun
  BY <1>1 DEF StartRun, setRunStatus
<1>2. CASE Listen
  BY <1>2 DEF Listen
<1>3. CASE CheckRunStatus
  BY <1>3 DEF CheckRunStatus
<1>4. CASE Select
  <2>1. ready' \subseteq Descriptors \cup {Listener}
    BY <1>4 DEF Select
  <2> QED
    BY <1>4, <2>1 DEF Select
<1>5. CASE Accept
  <2>1. Head(backlog) \in Peers /\ Tail(backlog) \in Seq(Peers)
    BY <1>5, HeadTailProperties DEF Accept
  <2>2. ready' \subseteq Descriptors \cup {Listener} /\ netPc' \in {"check", "scan"}
    BY <1>5 DEF Accept, RestOfPass
  <2>3. CASE newSock' = ERR /\ UNCHANGED <<sock, backlog, master, connectedIP>>
    BY <1>5, <2>2, <2>3 DEF Accept
  <2>4. ASSUME NEW d \in FreeDescriptors,
               newSock' = d,
               sock' = [sock EXCEPT ![d] = Head(backlog)],
               backlog' = Tail(backlog),
               master' = master \cup {d},
               connectedIP' = Head(backlog)
        PROVE  SyncTypeOK' /\ WifiTypeOK'
    BY <1>5, <2>1, <2>2, <2>4 DEF Accept, FreeDescriptors
  <2> QED
    BY <1>5, <2>3, <2>4 DEF Accept
<1>6. CASE ReceiveEnd
  BY <1>6 DEF ReceiveEnd, CloseNewest
<1>7. CASE ReceiveRequest
  <2>1. PICK d \in master :
          /\ inbox[sock[d]] # <<>>
          /\ Head(inbox[sock[d]]) # End
          /\ buf' = Head(inbox[sock[d]])
          /\ inbox' = [inbox EXCEPT ![sock[d]] =
                          IF @[Len(@)] = End THEN <<End>> ELSE <<>>]
          /\ ready' = RestOfPass(d)
    BY <1>7 DEF ReceiveRequest
  <2>2. inbox[sock[d]] \in Seq(Messages \cup {End})
    BY DEF WatchesOpenDescriptors
  <2>3. buf' \in Messages
    BY <2>1, <2>2, HeadTailProperties
  <2>4. <<>> \in Seq(Messages \cup {End}) /\ <<End>> \in Seq(Messages \cup {End})
    OBVIOUS
  <2>5. inbox' \in [Peers -> Seq(Messages \cup {End})]
    BY <2>1, <2>4
  <2>6. ready' \subseteq Descriptors \cup {Listener}
    BY <2>1 DEF RestOfPass
  <2> QED
    BY <1>7, <2>3, <2>5, <2>6 DEF ReceiveRequest
<1>8. CASE PostRequest
  BY <1>8 DEF PostRequest, setReceivedData
<1>9. CASE AnnounceRequest
  BY <1>9 DEF AnnounceRequest, setReceivedDataStatus
<1>10. CASE SeeAnswer
  BY <1>10 DEF SeeAnswer
<1>11. CASE SendAnswer
  <2>1. \A c \in Clients : Append(outbox[c], sentData) \in Seq(Answers)
    BY <1>11, AppendProperties DEF SendAnswer
  <2>2. outbox' \in [Clients -> Seq(Answers)]
    BY <1>11, <2>1 DEF SendAnswer
  <2>3. /\ master' \subseteq Descriptors
        /\ ready' \subseteq Descriptors \cup {Listener}
        /\ sock' \in [Descriptors -> Peers \cup {NoPeer}]
        /\ netPc' \in {"check", "scan"}
    BY <1>11 DEF SendAnswer, CloseNewest
  <2> QED
    BY <1>11, <2>2, <2>3 DEF SendAnswer, clearSentData
<1>12. CASE CloseListener
  <2>1. client' \in [Clients -> {"off", "idle", "waiting", "left"}]
    BY <1>12 DEF CloseListener
  <2>2. backlog' \in Seq(Peers)
    BY <1>12 DEF CloseListener
  <2>3. /\ netPc' = "returned" /\ boundPort' = NoPort /\ listening' = FALSE
        /\ UNCHANGED <<syncVars, master, ready, newSock, connectedIP, buf, sock,
                       inbox, outbox, asked>>
    BY <1>12 DEF CloseListener
  <2> QED
    BY <2>1, <2>2, <2>3
<1>13. CASE FinishRun
  BY <1>13 DEF FinishRun, setRunStatus
<1> QED
  BY <1>1, <1>2, <1>3, <1>4, <1>5, <1>6, <1>7, <1>8, <1>9, <1>10, <1>11, <1>12,
     <1>13 DEF NetThread

\* Only accept() puts a number into the set select() watches, and every close
\* takes it out.
LEMMA NetWatchStep ==
  ASSUME WifiInv, NetThread
  PROVE  WatchesOpenDescriptors'
<1> USE WifiAssumption DEF WifiInv, WatchesOpenDescriptors, netVars, kernelVars
<1>1. CASE UNCHANGED <<master, sock>>
  BY <1>1
<1>2. ASSUME NEW watched, watched \subseteq master, CloseNewest(watched)
      PROVE  WatchesOpenDescriptors'
  BY <1>2 DEF CloseNewest, WifiTypeOK
<1>3. CASE Accept
  <2>1. Head(backlog) \in Peers
    BY <1>3, HeadTailProperties DEF Accept, WifiTypeOK
  <2>2. ASSUME NEW d \in FreeDescriptors,
               sock' = [sock EXCEPT ![d] = Head(backlog)],
               master' = master \cup {d}
        PROVE  WatchesOpenDescriptors'
    BY <2>1, <2>2 DEF FreeDescriptors, WifiTypeOK
  <2> QED
    BY <1>1, <1>3, <2>2 DEF Accept
<1>4. CASE ReceiveEnd
  BY <1>2, <1>4 DEF ReceiveEnd
<1>5. CASE SendAnswer
  BY <1>1, <1>2, <1>5 DEF SendAnswer
<1>6. CASE ~Accept /\ ~ReceiveEnd /\ ~SendAnswer
  BY <1>1, <1>6
  DEF NetThread, StartRun, Listen, CheckRunStatus, Select, ReceiveRequest, PostRequest,
      AnnounceRequest, SeeAnswer, CloseListener, FinishRun
<1> QED
  BY <1>3, <1>4, <1>5, <1>6

\* A line is a message as soon as it is received, and the busy wait ends with
\* an answer only.
LEMMA NetHeldStep ==
  ASSUME WifiInv, NetThread
  PROVE  /\ netPc' \in {"received", "posted"} => buf' \in Messages
         /\ netPc' = "send" => sentData' \in Answers
<1> USE DEF WifiInv, SyncTypeOK, syncVars, netVars
<1>1. CASE ReceiveRequest
  <2>1. PICK d \in master :
          /\ inbox[sock[d]] # <<>>
          /\ Head(inbox[sock[d]]) # End
          /\ buf' = Head(inbox[sock[d]])
    BY <1>1 DEF ReceiveRequest
  <2>2. inbox[sock[d]] \in Seq(Messages \cup {End})
    BY DEF WatchesOpenDescriptors, WifiTypeOK
  <2>3. buf' \in Messages
    BY <2>1, <2>2, HeadTailProperties
  <2> QED
    BY <1>1, <2>3 DEF ReceiveRequest
<1>2. CASE PostRequest
  BY <1>2 DEF PostRequest
<1>3. CASE SeeAnswer
  BY <1>3 DEF SeeAnswer
<1>4. CASE ~ReceiveRequest /\ ~PostRequest /\ ~SeeAnswer
  <2>1. netPc' \notin {"received", "posted", "send"}
    BY <1>4 DEF NetThread, StartRun, Listen, CheckRunStatus, Select, Accept, ReceiveEnd,
                CloseNewest, AnnounceRequest, SendAnswer, CloseListener, FinishRun
  <2> QED
    BY <2>1
<1> QED
  BY <1>1, <1>2, <1>3, <1>4

LEMMA NetThreadStep ==
  ASSUME WifiInv, NetThread
  PROVE  WifiInv'
BY NetTypeStep, NetWatchStep, NetHeldStep DEF WifiInv

\* The steps of the clients.
LEMMA ClientStepInv ==
  ASSUME WifiInv, NEW c \in Clients, ClientStep(c)
  PROVE  WifiInv'
<1> USE SynchroniseAssumption, WifiAssumption
     DEF WifiInv, SyncTypeOK, WifiTypeOK, Peers, WatchesOpenDescriptors,
         syncVars, netVars, kernelVars, clientVars, wifiVars
<1>1. CASE Connect(c)
  <2>1. Append(backlog, c) \in Seq(Peers)
    BY AppendProperties
  <2> QED
    BY <1>1, <2>1 DEF Connect
<1>2. CASE ReadAnswer(c)
  <2>1. Tail(outbox[c]) \in Seq(Answers)
    BY <1>2, HeadTailProperties DEF ReadAnswer
  <2> QED
    BY <1>2, <2>1 DEF ReadAnswer
<1>3. CASE Leave(c)
  <2>1. Append(inbox[c], End) \in Seq(Messages \cup {End})
    BY AppendProperties
  <2> QED
    BY <1>3, <2>1 DEF Leave
<1>4. CASE FindClosed(c)
  BY <1>4 DEF FindClosed
<1>5. ASSUME NEW r \in Requests, SendRequest(c, r)
      PROVE  WifiInv'
  <2>1. [from |-> c, cmd |-> r] \in Messages
    BY DEF Messages
  <2>2. Append(inbox[c], [from |-> c, cmd |-> r]) \in Seq(Messages \cup {End})
    BY <2>1, AppendProperties
  <2> QED
    BY <1>5, <2>1, <2>2 DEF SendRequest
<1> QED
  BY <1>1, <1>2, <1>3, <1>4, <1>5 DEF ClientStep
-----------------------------------------------------------------------------
(* The network thread with a dispatcher *)

Inv ==
  /\ TypeOK
  /\ WatchesOpenDescriptors
  /\ HandOffInv

LEMMA TypeInit == Init => TypeOK /\ WatchesOpenDescriptors
<1>1. Init => WifiInv
  BY WifiInvInit DEF Init
<1> QED
  BY <1>1 DEF WifiInv, TypeOK, DispTypeOK, DispInit, Init

LEMMA ImpliesWifiInv == Inv => WifiInv
BY DEF Inv, TypeOK, WifiInv, HandOffInv, AnswerOutstanding

\* The steps of the dispatcher.
LEMMA DispatcherTypeStep ==
  ASSUME Inv, Dispatcher
  PROVE  TypeOK'
<1> USE SynchroniseAssumption, WifiAssumption
     DEF Inv, TypeOK, SyncTypeOK, WifiTypeOK, DispTypeOK,
         syncVars, netVars, kernelVars, clientVars, wifiVars
<1>1. CASE BeginRound
  BY <1>1 DEF BeginRound
<1>2. CASE PollNothing
  BY <1>2 DEF PollNothing
<1>3. CASE PollRequest
  BY <1>3 DEF PollRequest, takeReceivedData
<1>4. CASE ReadRequest
  BY <1>4 DEF ReadRequest
<1>5. CASE ExecuteCommand
  <2>1. cmd \in Messages
    BY <1>5 DEF ExecuteCommand, HandOffInv, NothingOutstanding, RequestAnnounced,
                RequestTaken, AnswerOutstanding
  <2>2. sentData' \in Answers
    BY <1>5, <2>1 DEF ExecuteCommand, setSentData, Answers
  <2> QED
    BY <1>5, <2>2 DEF ExecuteCommand, setSentData
<1>6. CASE FinishCopy
  <2>1. sentData' \in Answers \cup {NoData}
    BY <1>6 DEF FinishCopy, finishSentData, Answers
  <2> QED
    BY <1>6, <2>1 DEF FinishCopy, finishSentData
<1>7. CASE OtherConnectorsTurn
  BY <1>7 DEF OtherConnectorsTurn
<1> QED
  BY <1>1, <1>2, <1>3, <1>4, <1>5, <1>6, <1>7 DEF Dispatcher, NetConnectorTurn

\* The types hold after every step; those of the network thread and of the
\* clients are WifiConnection's.
LEMMA TypeStep ==
  ASSUME Inv, [Next]_vars
  PROVE  TypeOK' /\ WatchesOpenDescriptors'
<1> USE DEF Inv, TypeOK, DispTypeOK, WatchesOpenDescriptors
<1>1. CASE UNCHANGED vars
  BY <1>1 DEF SyncTypeOK, WifiTypeOK, vars, syncVars, netVars, kernelVars, clientVars,
              wifiVars, dispVars
<1>2. CASE NetThread /\ UNCHANGED dispVars
  BY <1>2, ImpliesWifiInv, NetThreadStep DEF WifiInv, dispVars
<1>3. CASE Dispatcher
  <2>1. UNCHANGED wifiVars
    BY <1>3 DEF Dispatcher, NetConnectorTurn, BeginRound, PollNothing, PollRequest, ReadRequest,
                ExecuteCommand, FinishCopy, OtherConnectorsTurn
  <2> QED
    BY <1>3, <2>1, DispatcherTypeStep DEF wifiVars, netVars, kernelVars
<1>4. ASSUME NEW c \in Clients, ClientStep(c), UNCHANGED dispVars
      PROVE  TypeOK' /\ WatchesOpenDescriptors'
  BY <1>4, ImpliesWifiInv, ClientStepInv DEF WifiInv, dispVars
<1> QED
  BY <1>1, <1>2, <1>3, <1>4 DEF Next

-----------------------------------------------------------------------------
LEMMA HandOffInit == Init => HandOffInv
BY DEF Init, SyncInit, WifiInit, DispInit, HandOffInv, NothingOutstanding

\* The network thread posts only when nothing is outstanding, waits until the
\* answer is there, and clears it when it sends it.
LEMMA NetHandOffStep ==
  ASSUME WifiInv, HandOffInv, NetThread, UNCHANGED dispVars
  PROVE  HandOffInv'
<1> USE DEF HandOffInv, NothingOutstanding, RequestAnnounced, RequestTaken,
        AnswerOutstanding, syncVars, dispVars
<1>1. CASE StartRun
  BY <1>1 DEF StartRun, setRunStatus
<1>2. CASE Listen
  BY <1>2 DEF Listen
<1>3. CASE CheckRunStatus
  BY <1>3 DEF CheckRunStatus
<1>4. CASE Select
  BY <1>4 DEF Select
<1>5. CASE Accept
  BY <1>5 DEF Accept
<1>6. CASE ReceiveEnd
  BY <1>6 DEF ReceiveEnd, CloseNewest
<1>7. CASE ReceiveRequest
  <2>1. buf' \in Messages
    <3>1. PICK d \in master :
            /\ inbox[sock[d]] # <<>>
            /\ Head(inbox[sock[d]]) # End
            /\ buf' = Head(inbox[sock[d]])
      BY <1>7 DEF ReceiveRequest
    <3>2. inbox[sock[d]] \in Seq(Messages \cup {End})
      BY DEF WatchesOpenDescriptors, WifiInv, WifiTypeOK
    <3> QED
      BY <3>1, <3>2, HeadTailProperties
  <2> QED
    BY <1>7, <2>1 DEF ReceiveRequest
<1>8. CASE PostRequest
  BY <1>8 DEF PostRequest, setReceivedData, netVars
<1>9. CASE AnnounceRequest
  BY <1>9 DEF AnnounceRequest, setReceivedDataStatus
<1>10. CASE SeeAnswer
  BY <1>10 DEF SeeAnswer
<1>11. CASE SendAnswer
  BY <1>11 DEF SendAnswer, clearSentData, CloseNewest
<1>12. CASE CloseListener
  BY <1>12 DEF CloseListener
<1>13. CASE FinishRun
  BY <1>13 DEF FinishRun, setRunStatus
<1> QED
  BY <1>1, <1>2, <1>3, <1>4, <1>5, <1>6, <1>7, <1>8, <1>9, <1>10, <1>11, <1>12,
     <1>13 DEF NetThread

\* The dispatcher takes what was announced, and it alone answers; a text that
\* is read outside the mutex is the one that was announced, because the
\* network thread waits meanwhile.
LEMMA DispatcherHandOffStep ==
  ASSUME HandOffInv, Dispatcher
  PROVE  HandOffInv'
<1> USE SynchroniseAssumption
     DEF HandOffInv, NothingOutstanding, RequestAnnounced, RequestTaken,
        AnswerOutstanding, syncVars, wifiVars, netVars
<1>1. CASE BeginRound
  BY <1>1 DEF BeginRound
<1>2. CASE PollNothing
  BY <1>2 DEF PollNothing
<1>3. CASE PollRequest
  BY <1>3 DEF PollRequest, takeReceivedData
<1>4. CASE ReadRequest
  BY <1>4 DEF ReadRequest
<1>5. CASE ExecuteCommand
  <2>1. cmd \in Messages /\ cmd = buf /\ netPc = "wait"
    BY <1>5 DEF ExecuteCommand
  <2>2. sentData' \in Answers /\ sentData'.to = buf
    BY <1>5, <2>1 DEF ExecuteCommand, setSentData, Answers
  <2>3. sentData'.whole \/ dispPc' = "copy"
    BY <1>5 DEF ExecuteCommand, setSentData
  <2> QED
    BY <1>5, <2>1, <2>2, <2>3 DEF ExecuteCommand, setSentData
<1>6. CASE FinishCopy
  BY <1>6 DEF FinishCopy, finishSentData, Answers
<1>7. CASE OtherConnectorsTurn
  BY <1>7 DEF OtherConnectorsTurn
<1> QED
  BY <1>1, <1>2, <1>3, <1>4, <1>5, <1>6, <1>7 DEF Dispatcher, NetConnectorTurn

LEMMA HandOffStep ==
  ASSUME Inv, [Next]_vars
  PROVE  HandOffInv'
<1> USE DEF Inv, HandOffInv, NothingOutstanding, RequestAnnounced, RequestTaken,
        AnswerOutstanding, syncVars, wifiVars, netVars, dispVars
<1>1. CASE UNCHANGED vars
  BY <1>1 DEF vars
<1>2. ASSUME NEW c \in Clients, ClientStep(c), UNCHANGED dispVars
      PROVE  HandOffInv'
  BY <1>2 DEF ClientStep, Connect, ReadAnswer, Leave, FindClosed, SendRequest
<1> HIDE DEF HandOffInv
<1> QED
  BY <1>1, <1>2, ImpliesWifiInv, NetHandOffStep, DispatcherHandOffStep DEF Next

-----------------------------------------------------------------------------
THEOREM Invariance == Spec => []Inv
<1>1. Init => Inv
  <2>1. Init => WatchesOpenDescriptors
    BY DEF Init, WifiInit, WatchesOpenDescriptors
  <2> QED
    BY <2>1, TypeInit, HandOffInit DEF Inv
<1>2. Inv /\ [Next]_vars => Inv'
  BY TypeStep, HandOffStep DEF Inv
<1> QED
  BY <1>1, <1>2, PTL DEF Spec

\* Every variable has its type: no message is read from an empty socket and no
\* answer is sent that is not one.
THEOREM TypeCorrect == Spec => []TypeOK
BY Invariance, PTL DEF Inv

\* What the state of the hand-off says about the three buffers.
LEMMA HandOffImplies ==
  HandOffInv => ExecutesWhatIsAwaited /\ AnswerBelongsToRequest /\ OnlyBlankStrands
<1> USE SynchroniseAssumption
     DEF HandOffInv, NothingOutstanding, RequestAnnounced, RequestTaken, AnswerOutstanding
<1>1. HandOffInv => ExecutesWhatIsAwaited
  BY DEF ExecutesWhatIsAwaited
<1>2. HandOffInv => AnswerBelongsToRequest
  BY DEF AnswerBelongsToRequest
<1>3. HandOffInv => OnlyBlankStrands
  BY DEF OnlyBlankStrands, Stranded
<1> QED
  BY <1>1, <1>2, <1>3

\* The hand-off between the two threads is always in one of its proper states.
THEOREM HandOffCorrect == Spec => []HandOffInv
BY Invariance, PTL DEF Inv

\* select() is never given a number that is not open.
THEOREM WatchCorrect == Spec => []WatchesOpenDescriptors
BY Invariance, PTL DEF Inv

\* The dispatcher executes the request the network thread is waiting for.
THEOREM ExecutionCorrect == Spec => []ExecutesWhatIsAwaited
BY HandOffImplies, HandOffCorrect, PTL

\* No answer is left over for a later request.
THEOREM AnswerCorrect == Spec => []AnswerBelongsToRequest
BY HandOffImplies, HandOffCorrect, PTL

\* No interleaving of the two threads loses a request that is not empty.
THEOREM StrandedCorrect == Spec => []OnlyBlankStrands
BY HandOffImplies, HandOffCorrect, PTL
-----------------------------------------------------------------------------
\* An answer is put into an empty slot, its text is completed, and it is
\* taken out: the network thread ...
LEMMA NetKeepsAnswer ==
  ASSUME NetThread
  PROVE  sentData' \in {sentData, NoData}
BY DEF NetThread, StartRun, Listen, CheckRunStatus, Select, Accept, ReceiveEnd, ReceiveRequest,
       PostRequest, AnnounceRequest, SeeAnswer, SendAnswer, CloseListener, FinishRun,
       setRunStatus, setReceivedData, setReceivedDataStatus, clearSentData, syncVars

\* ... and the dispatcher.
LEMMA DispatcherKeepsAnswer ==
  ASSUME HandOffInv, Dispatcher, sentData # NoData
  PROVE  sentData'.to = sentData.to
<1>1. sentData \in Answers /\ dispPc # "exec"
  BY DEF HandOffInv, NothingOutstanding, RequestAnnounced, RequestTaken, AnswerOutstanding
<1>2. CASE FinishCopy
  BY <1>1, <1>2 DEF FinishCopy, finishSentData, Answers
<1>3. CASE ~FinishCopy
  BY <1>1, <1>3
  DEF Dispatcher, NetConnectorTurn, BeginRound, PollNothing, PollRequest, ReadRequest,
      ExecuteCommand, OtherConnectorsTurn, takeReceivedData, syncVars
<1> QED
  BY <1>2, <1>3

\* An answer stays in the slot until it is sent.
THEOREM AnswerStays == Spec => AnswerNeverReplaced
<1>1. Inv /\ [Next]_vars =>
        [sentData # NoData => sentData' = NoData \/ sentData'.to = sentData.to]_vars
  <2> SUFFICES ASSUME Inv, [Next]_vars, sentData # NoData
               PROVE  sentData' = NoData \/ sentData'.to = sentData.to
    OBVIOUS
  <2>1. CASE UNCHANGED sentData
    BY <2>1
  <2>2. ASSUME NEW c \in Clients, ClientStep(c) PROVE UNCHANGED sentData
    BY <2>2 DEF ClientStep, Connect, ReadAnswer, Leave, FindClosed, SendRequest, syncVars
  <2>3. UNCHANGED vars => UNCHANGED sentData
    BY DEF vars, syncVars
  <2> QED
    BY <2>1, <2>2, <2>3, NetKeepsAnswer, DispatcherKeepsAnswer DEF Next, Inv
<1> QED
  BY <1>1, Invariance, PTL DEF Spec, AnswerNeverReplaced
-----------------------------------------------------------------------------
(* The two threads implement the slot for one request. *)

\* Outside a conversation the slot is free; within one it moves only with the
\* place of the network thread, its request or the emptiness of sentData.
LEMMA SlotStutters ==
  ASSUME \/ netPc \notin {"wait", "send"} /\ netPc' \notin {"wait", "send"}
         \/ UNCHANGED <<netPc, buf>> /\ (sentData = NoData <=> sentData' = NoData)
  PROVE  UNCHANGED Slot!vars
BY DEF slotPhase, slotRequest, Slot!vars

\* Announcing a request asks it.
LEMMA AnnouncingAsks ==
  ASSUME HandOffInv, AnnounceRequest
  PROVE  \E m \in Messages : Slot!Ask(m)
<1> USE DEF AnnounceRequest, setReceivedDataStatus, HandOffInv, NothingOutstanding
<1>1. buf \in Messages /\ buf' = buf /\ netPc = "posted" /\ netPc' = "wait"
  OBVIOUS
<1>2. sentData' = NoData
  OBVIOUS
<1>3. Slot!Ask(buf)
  BY <1>1, <1>2 DEF Slot!Ask, slotPhase, slotRequest
<1> QED
  BY <1>1, <1>3

\* Sending the answer hands it over.
LEMMA SendingHandsOver ==
  ASSUME HandOffInv, SendAnswer
  PROVE  Slot!HandOver
<1>1. netPc = "send" /\ sentData # NoData
  BY SynchroniseAssumption DEF SendAnswer, HandOffInv, AnswerOutstanding
<1>2. netPc' \in {"check", "scan"}
  BY DEF SendAnswer, CloseNewest
<1> QED
  BY <1>1, <1>2 DEF Slot!HandOver, slotPhase, slotRequest

LEMMA NetMovesSlot ==
  ASSUME HandOffInv, NetThread
  PROVE  Slot!Next \/ UNCHANGED Slot!vars
<1>1. CASE AnnounceRequest
  BY <1>1, AnnouncingAsks DEF Slot!Next
<1>2. CASE SeeAnswer
  BY <1>2 DEF SeeAnswer, syncVars, slotPhase, slotRequest, Slot!vars
<1>3. CASE SendAnswer
  BY <1>3, SendingHandsOver DEF Slot!Next
<1>4. CASE ~AnnounceRequest /\ ~SeeAnswer /\ ~SendAnswer
  <2>1. netPc \notin {"wait", "send"} /\ netPc' \notin {"wait", "send"}
    BY <1>4
    DEF NetThread, StartRun, Listen, CheckRunStatus, Select, Accept, ReceiveEnd,
        ReceiveRequest, PostRequest, CloseListener, FinishRun, CloseNewest
  <2> QED
    BY <2>1, SlotStutters
<1> QED
  BY <1>1, <1>2, <1>3, <1>4

\* The first store of the answer answers it, whatever its length.
LEMMA ExecutingAnswers ==
  ASSUME HandOffInv, ExecuteCommand
  PROVE  Slot!Answer
<1>1. netPc = "wait" /\ sentData = NoData /\ cmd = buf /\ buf \in Messages
  BY DEF ExecuteCommand, HandOffInv, NothingOutstanding, RequestAnnounced, RequestTaken,
         AnswerOutstanding
<1>2. sentData' \in Answers
  BY <1>1 DEF ExecuteCommand, setSentData, Answers
<1>3. UNCHANGED <<netPc, buf>>
  BY DEF ExecuteCommand, wifiVars, netVars
<1> QED
  BY <1>1, <1>2, <1>3, SynchroniseAssumption DEF Slot!Answer, slotPhase, slotRequest

LEMMA DispatcherMovesSlot ==
  ASSUME HandOffInv, Dispatcher
  PROVE  Slot!Next \/ UNCHANGED Slot!vars
<1>1. CASE ExecuteCommand
  BY <1>1, ExecutingAnswers DEF Slot!Next
<1>2. CASE FinishCopy
  <2>1. sentData = NoData \/ sentData \in Answers
    BY DEF HandOffInv, NothingOutstanding, RequestAnnounced, RequestTaken, AnswerOutstanding
  <2>2. UNCHANGED <<netPc, buf>> /\ (sentData = NoData <=> sentData' = NoData)
    BY <1>2, <2>1, SynchroniseAssumption
    DEF FinishCopy, finishSentData, wifiVars, netVars, Answers
  <2> QED
    BY <2>2, SlotStutters
<1>3. CASE ~ExecuteCommand /\ ~FinishCopy
  <2>1. UNCHANGED <<netPc, buf, sentData>>
    BY <1>3
    DEF Dispatcher, NetConnectorTurn, BeginRound, PollNothing, PollRequest, ReadRequest,
        OtherConnectorsTurn, takeReceivedData, syncVars, wifiVars, netVars
  <2> QED
    BY <2>1, SlotStutters
<1> QED
  BY <1>1, <1>2, <1>3

LEMMA ClientKeepsSlot ==
  ASSUME NEW c \in Clients, ClientStep(c)
  PROVE  UNCHANGED <<netPc, buf, syncVars>> /\ UNCHANGED Slot!vars
<1>1. UNCHANGED <<netPc, buf, syncVars>>
  BY DEF ClientStep, Connect, ReadAnswer, Leave, FindClosed, SendRequest, netVars
<1> QED
  BY <1>1, SlotStutters DEF syncVars

\* The two threads implement the slot for one request: every step of theirs is
\* one of the slot or does not move it.
THEOREM SlotImplemented == Spec => SlotSafety
<1>1. Init => Slot!Init
  BY DEF Init, WifiInit, Slot!Init, slotPhase, slotRequest
<1>2. Inv /\ [Next]_vars => [Slot!Next]_(Slot!vars)
  <2> SUFFICES ASSUME Inv, [Next]_vars
               PROVE  Slot!Next \/ UNCHANGED Slot!vars
    OBVIOUS
  <2>1. CASE UNCHANGED vars
    BY <2>1, SlotStutters DEF vars, syncVars, wifiVars, netVars
  <2> QED
    BY <2>1, NetMovesSlot, DispatcherMovesSlot, ClientKeepsSlot DEF Next, Inv
<1> QED
  BY <1>1, <1>2, Invariance, PTL DEF Spec, SlotSafety, Slot!Safety
-----------------------------------------------------------------------------
(* A client that is alone: nothing of an earlier request is under way when  *)
(* it asks the next one.                                                    *)

InConversation == netPc \in {"received", "posted", "wait", "send"}

\* Where the request a client waits for may be: in its socket, with the network
\* thread, or answered.
Unread(c)   == inbox[c] = <<asked[c]>> /\ outbox[c] = <<>> /\ ~InConversation
Served(c)   == inbox[c] = <<>> /\ outbox[c] = <<>> /\ InConversation /\ buf = asked[c]
Answered(c) == /\ inbox[c] = <<>> /\ ~InConversation
               /\ \/ outbox[c] = <<>>
                  \/ \E a \in Answers : outbox[c] = <<a>> /\ a.to = asked[c]

Silent == inbox[Closer] = <<End>>

Unconnected ==
  \A b \in Clients : client[b] = "off" =>
    /\ inbox[b] = <<>> /\ outbox[b] = <<>>
    /\ \A d \in Descriptors : sock[d] # b
    /\ \A i \in DOMAIN backlog : backlog[i] # b

SomebodyAsked == InConversation => \E c \in Clients : client[c] # "off"

InStep ==
  OneClient => \A c \in Clients :
    /\ client[c] = "idle" => inbox[c] = <<>> /\ outbox[c] = <<>> /\ ~InConversation
    /\ client[c] = "waiting" =>
         asked[c] \in Messages /\ (Unread(c) \/ Served(c) \/ Answered(c))

AloneInv == Inv /\ Silent /\ Unconnected /\ SomebodyAsked /\ InStep

LEMMA AloneInit == Init => Silent /\ Unconnected /\ SomebodyAsked /\ InStep
BY WifiAssumption
DEF Init, WifiInit, Silent, Unconnected, SomebodyAsked, InStep, InConversation, Peers

\* A client that has connected stays one that has.
LEMMA OnceConnected ==
  ASSUME Inv, [Next]_vars
  PROVE  /\ \A c \in Clients : client[c] # "off" => client'[c] # "off"
         /\ OneClient' => OneClient
<1>1. \A c \in Clients : client[c] # "off" => client'[c] # "off"
  <2> USE DEF Inv, TypeOK, WifiTypeOK
  <2>1. CASE UNCHANGED client
    BY <2>1
  <2>2. CASE CloseListener
    BY <2>2 DEF CloseListener
  <2>3. ASSUME NEW b \in Clients, ClientStep(b)
        PROVE  \A c \in Clients : client[c] # "off" => client'[c] # "off"
    BY <2>3 DEF ClientStep, Connect, ReadAnswer, Leave, FindClosed, SendRequest
  <2>4. CASE NetThread /\ ~CloseListener
    BY <2>1, <2>4
    DEF NetThread, StartRun, Listen, CheckRunStatus, Select, Accept, ReceiveEnd,
        ReceiveRequest, PostRequest, AnnounceRequest, SeeAnswer, SendAnswer, FinishRun, clientVars
  <2>5. CASE Dispatcher \/ UNCHANGED vars
    BY <2>1, <2>5
    DEF Dispatcher, NetConnectorTurn, BeginRound, PollNothing, PollRequest, ReadRequest,
        ExecuteCommand, FinishCopy, OtherConnectorsTurn, vars, wifiVars, clientVars
  <2> QED
    BY <2>2, <2>3, <2>4, <2>5 DEF Next
<1> QED
  BY <1>1 DEF OneClient

\* The steps of the network thread that neither receive, nor send, nor close.
LEMMA QuietNetStep ==
  ASSUME AloneInv, NetThread, ~Accept, ~ReceiveEnd, ~ReceiveRequest, ~SendAnswer, ~CloseListener
  PROVE  Silent' /\ Unconnected' /\ SomebodyAsked' /\ InStep'
<1>1. /\ UNCHANGED <<sock, backlog, inbox, outbox, client, asked, buf>>
      /\ InConversation' <=> InConversation
  BY DEF NetThread, StartRun, Listen, CheckRunStatus, Select, PostRequest, AnnounceRequest,
         SeeAnswer, FinishRun, InConversation, kernelVars, clientVars
<1> QED
  BY <1>1 DEF AloneInv, Silent, Unconnected, SomebodyAsked, InStep, Unread, Served, Answered, OneClient

\* The request that is received is the one its client waits for: every other
\* client is silent.
LEMMA AloneReceives ==
  ASSUME AloneInv, ReceiveRequest
  PROVE  Silent' /\ Unconnected' /\ SomebodyAsked' /\ InStep'
<1> USE DEF AloneInv, Inv, TypeOK, WifiTypeOK
<1>1. PICK d \in master :
        /\ inbox[sock[d]] # <<>>
        /\ Head(inbox[sock[d]]) # End
        /\ buf' = Head(inbox[sock[d]])
        /\ inbox' = [inbox EXCEPT ![sock[d]] = IF @[Len(@)] = End THEN <<End>> ELSE <<>>]
  BY DEF ReceiveRequest
<1>2. sock[d] \in Peers /\ sock[d] # Closer
  <2>1. Head(<<End>>) = End
    OBVIOUS
  <2> QED
    BY <1>1, <2>1 DEF WatchesOpenDescriptors, Silent
<1>3. PICK c \in Clients : c = sock[d]
  BY <1>2 DEF Peers
<1>4. client[c] # "off"
  BY <1>1, <1>3 DEF Unconnected
<1>5. /\ UNCHANGED <<client, outbox, asked, sock, backlog>>
      /\ netPc = "scan" /\ netPc' = "received"
  BY DEF ReceiveRequest, kernelVars
<1>6. \A b \in Peers : b # c => inbox'[b] = inbox[b]
  BY <1>1, <1>3
<1>7. Silent' /\ Unconnected' /\ SomebodyAsked'
  BY <1>2, <1>3, <1>4, <1>5, <1>6, WifiAssumption
  DEF Silent, Unconnected, SomebodyAsked, Peers
<1>8. ASSUME OneClient' PROVE InStep'
  <2>1. OneClient
    BY <1>5, <1>8 DEF OneClient
  <2>2. ~InConversation /\ InConversation'
    BY <1>5 DEF InConversation
  <2>3. \A b \in Clients : client[b] # "off" => b = c
    BY <1>4, <2>1 DEF OneClient
  <2>4. client[c] # "idle"
    BY <1>1, <1>3, <2>1 DEF InStep
  <2>5. CASE client[c] = "waiting"
    <3>1. asked[c] \in Messages /\ inbox[c] = <<asked[c]>> /\ outbox[c] = <<>>
      BY <1>1, <1>3, <2>1, <2>2, <2>5 DEF InStep, Unread, Served, Answered
    <3>2. Head(<<asked[c]>>) = asked[c] /\ Len(<<asked[c]>>) = 1
          /\ <<asked[c]>>[1] = asked[c] /\ asked[c] # End
      BY <3>1, WifiAssumption
    <3>3. buf' = asked[c] /\ inbox'[c] = <<>>
      BY <1>1, <1>2, <1>3, <3>1, <3>2
    <3>4. asked'[c] \in Messages /\ Served(c)'
      BY <1>5, <2>2, <3>1, <3>3 DEF Served
    <3> HIDE DEF AloneInv
    <3> QED
      BY <1>5, <2>3, <2>5, <3>4 DEF InStep
  <2>6. CASE client[c] \notin {"idle", "waiting"}
    BY <1>5, <2>3, <2>6 DEF InStep
  <2> QED
    BY <2>4, <2>5, <2>6
<1> QED
  BY <1>7, <1>8 DEF InStep

\* The answer goes to the only connection there is.
LEMMA AloneSends ==
  ASSUME AloneInv, SendAnswer
  PROVE  Silent' /\ Unconnected' /\ SomebodyAsked' /\ InStep'
<1> USE DEF AloneInv, Inv, TypeOK, WifiTypeOK
<1>1. PICK d \in master :
        outbox' = [c \in Clients |-> IF sock[d] = c /\ client[c] # "left"
                                     THEN Append(outbox[c], sentData) ELSE outbox[c]]
  BY DEF SendAnswer
<1>2. /\ UNCHANGED <<inbox, client, asked, buf, backlog>>
      /\ netPc = "send" /\ netPc' \in {"check", "scan"}
      /\ \A e \in Descriptors : sock'[e] \in {sock[e], NoPeer}
  BY DEF SendAnswer, CloseNewest
<1>3. InConversation /\ ~InConversation'
  BY <1>2 DEF InConversation
<1>4. sentData \in Answers /\ sentData.to = buf
  BY <1>2 DEF HandOffInv, AnswerOutstanding
<1>5. d \in Descriptors /\ NoPeer \notin Clients
  BY WifiAssumption DEF Peers
<1>6. Silent' /\ Unconnected' /\ SomebodyAsked'
  BY <1>1, <1>2, <1>3, <1>5 DEF Silent, Unconnected, SomebodyAsked
<1>7. ASSUME OneClient', NEW c \in Clients, client'[c] \in {"idle", "waiting"}
      PROVE  client'[c] = "waiting" /\ asked'[c] \in Messages /\ Answered(c)'
  <2>1. OneClient
    BY <1>2, <1>7 DEF OneClient
  <2>2. client[c] = "waiting" /\ asked[c] \in Messages /\ Served(c)
    BY <1>2, <1>3, <1>7, <2>1 DEF InStep, Unread, Answered
  <2>2a. outbox[c] = <<>>
    BY <2>2 DEF Served
  <2>3. outbox'[c] = <<>> \/ outbox'[c] = <<sentData>>
    <3>1. Append(<<>>, sentData) = <<sentData>>
      OBVIOUS
    <3> QED
      BY <1>1, <2>2a, <3>1
  <2> QED
    BY <1>2, <1>3, <1>4, <2>2, <2>3 DEF Answered, Served
<1> QED
  BY <1>6, <1>7 DEF InStep

LEMMA AloneNetStep ==
  ASSUME AloneInv, NetThread
  PROVE  Silent' /\ Unconnected' /\ SomebodyAsked' /\ InStep'
<1>1. CASE Accept
  <2> USE <1>1 DEF AloneInv, Inv, TypeOK, WifiTypeOK
  <2>1. /\ UNCHANGED <<inbox, outbox, client, asked, buf>>
        /\ ~InConversation /\ ~InConversation'
    BY DEF Accept, clientVars, InConversation
  <2>2. Silent' /\ SomebodyAsked' /\ InStep'
    <3>1. OneClient' => OneClient
      BY <2>1 DEF OneClient
    <3> HIDE DEF Inv
    <3> QED
      BY <2>1, <3>1 DEF AloneInv, Silent, SomebodyAsked, InStep, Unread, Served, Answered
  <2>3. ASSUME UNCHANGED <<sock, backlog>>
        PROVE  Unconnected'
    BY <2>1, <2>3 DEF AloneInv, Unconnected
  <2>4. ASSUME NEW e \in FreeDescriptors, sock' = [sock EXCEPT ![e] = Head(backlog)],
               backlog' = Tail(backlog)
        PROVE  Unconnected'
    <3> SUFFICES ASSUME NEW b \in Clients, client[b] = "off"
                 PROVE  /\ \A d \in Descriptors : sock'[d] # b
                        /\ \A i \in DOMAIN backlog' : backlog'[i] # b
      BY <2>1 DEF AloneInv, Unconnected
    <3>1. backlog \in Seq(Peers) /\ backlog # <<>>
      BY DEF Accept
    <3>2. Head(backlog) = backlog[1] /\ 1 \in DOMAIN backlog
      BY <3>1
    <3>3. \A i \in DOMAIN Tail(backlog) : i + 1 \in DOMAIN backlog /\ Tail(backlog)[i] = backlog[i + 1]
      BY <3>1
    <3> QED
      BY <2>4, <3>2, <3>3 DEF AloneInv, Unconnected
  <2> QED
    BY <2>2, <2>3, <2>4 DEF Accept
<1>2. CASE ReceiveEnd
  <2>1. /\ UNCHANGED <<inbox, outbox, client, asked, buf, backlog>>
        /\ ~InConversation /\ ~InConversation'
        /\ \A e \in Descriptors : sock'[e] \in {sock[e], NoPeer}
    BY <1>2 DEF ReceiveEnd, CloseNewest, clientVars, InConversation
  <2>2. NoPeer \notin Clients
    BY WifiAssumption DEF Peers
  <2> QED
    BY <2>1, <2>2 DEF AloneInv, Silent, Unconnected, SomebodyAsked, InStep, Unread, Served,
                      Answered, OneClient
<1>3. CASE CloseListener
  <2>1. /\ UNCHANGED <<inbox, outbox, asked, buf, sock>> /\ backlog' = <<>>
        /\ ~InConversation /\ ~InConversation'
        /\ \A c \in Clients : client'[c] \in {client[c], "left"}
    BY <1>3 DEF CloseListener, InConversation
  <2>2. Silent' /\ Unconnected' /\ SomebodyAsked'
    <3>1. \A b : \A i \in DOMAIN <<>> : <<>>[i] # b
      OBVIOUS
    <3> QED
      BY <2>1, <3>1 DEF AloneInv, Silent, Unconnected, SomebodyAsked
  <2>3. OneClient' => OneClient
    BY <2>1 DEF OneClient
  <2>4. InStep'
    BY <2>1, <2>3 DEF AloneInv, InStep, Unread, Served, Answered
  <2> QED
    BY <2>2, <2>4
<1> QED
  BY <1>1, <1>2, <1>3, QuietNetStep, AloneReceives, AloneSends

\* A client asks only when nothing is under way, and reads the one answer.
LEMMA AloneClientStep ==
  ASSUME AloneInv, [Next]_vars, NEW c \in Clients, ClientStep(c), UNCHANGED dispVars
  PROVE  Silent' /\ Unconnected' /\ SomebodyAsked' /\ InStep'
<1> USE DEF AloneInv, Inv, TypeOK, WifiTypeOK
<1>1. c \in Peers /\ c # Closer /\ \A b \in Clients : b \in Peers
  BY WifiAssumption DEF Peers
<1>2. /\ UNCHANGED <<sock, buf>>
      /\ InConversation' <=> InConversation
      /\ \A b \in Clients \ {c} : client'[b] = client[b] /\ outbox'[b] = outbox[b] /\ asked'[b] = asked[b]
      /\ \A p \in Peers \ {c} : inbox'[p] = inbox[p]
  BY <1>1 DEF ClientStep, Connect, ReadAnswer, Leave, FindClosed, SendRequest, InConversation,
              netVars, kernelVars
<1>3. client'[c] # "off"
  BY DEF ClientStep, Connect, ReadAnswer, Leave, FindClosed, SendRequest
<1>4. backlog' = backlog \/ backlog' = Append(backlog, c)
  BY DEF ClientStep, Connect, ReadAnswer, Leave, FindClosed, SendRequest, kernelVars
<1>5. \A i \in DOMAIN backlog' : (i \in DOMAIN backlog /\ backlog'[i] = backlog[i]) \/ backlog'[i] = c
  <2>1. backlog \in Seq(Peers) /\ Append(backlog, c) \in Seq(Peers)
    BY <1>1, AppendProperties
  <2>2. /\ DOMAIN Append(backlog, c) = 1 .. Len(backlog) + 1 /\ DOMAIN backlog = 1 .. Len(backlog)
        /\ Len(backlog) \in Nat
        /\ \A i \in 1 .. Len(backlog) : Append(backlog, c)[i] = backlog[i]
        /\ Append(backlog, c)[Len(backlog) + 1] = c
    BY ONLY <1>1, <2>1, AppendProperties
  <2>3. \A i \in DOMAIN Append(backlog, c) :
          (i \in DOMAIN backlog /\ Append(backlog, c)[i] = backlog[i]) \/ Append(backlog, c)[i] = c
    BY ONLY <2>2
  <2> QED
    BY ONLY <1>4, <2>3
<1>6. Silent' /\ SomebodyAsked'
  BY <1>1, <1>2, <1>3 DEF Silent, SomebodyAsked, Peers
<1>7. Unconnected'
  <2> SUFFICES ASSUME NEW b \in Clients, client'[b] = "off"
               PROVE  /\ inbox'[b] = <<>> /\ outbox'[b] = <<>>
                      /\ \A d \in Descriptors : sock'[d] # b
                      /\ \A i \in DOMAIN backlog' : backlog'[i] # b
    BY DEF Unconnected
  <2>1. b # c /\ b \in Peers \ {c} /\ client[b] = "off"
    BY <1>1, <1>2, <1>3
  <2>2. Unconnected
    OBVIOUS
  <2> QED
    BY ONLY <1>2, <1>5, <2>1, <2>2, b \in Clients DEF Unconnected
<1>8. ASSUME OneClient'
      PROVE  /\ client'[c] = "idle" => inbox'[c] = <<>> /\ outbox'[c] = <<>> /\ ~InConversation'
             /\ client'[c] = "waiting" =>
                  asked'[c] \in Messages /\ (Unread(c)' \/ Served(c)' \/ Answered(c)')
  <2>1. OneClient
    BY <1>8, OnceConnected
  <2>2. CASE Connect(c)
    <3>1. \A b \in Clients : client[b] = "off"
      BY <1>2, <1>3, <1>8, <2>2 DEF OneClient, Connect
    <3>2. inbox[c] = <<>> /\ outbox[c] = <<>> /\ ~InConversation
      BY <3>1 DEF Unconnected, SomebodyAsked
    <3>3. inbox' = inbox /\ outbox' = outbox /\ client'[c] = "idle"
      BY <2>2 DEF Connect
    <3> QED
      BY ONLY <1>2, <3>2, <3>3
  <2>3. CASE ReadAnswer(c)
    <3>1. inbox[c] = <<>> /\ ~InConversation /\ \E a \in Answers : outbox[c] = <<a>>
      BY <2>1, <2>3 DEF ReadAnswer, InStep, Unread, Served, Answered
    <3>2. \A a : Tail(<<a>>) = <<>>
      OBVIOUS
    <3>3. inbox' = inbox /\ outbox'[c] = Tail(outbox[c]) /\ client'[c] = "idle"
      BY <2>3 DEF ReadAnswer
    <3> QED
      BY ONLY <1>2, <3>1, <3>2, <3>3
  <2>4. CASE Leave(c) \/ FindClosed(c)
    BY <2>4 DEF Leave, FindClosed
  <2>5. ASSUME NEW r \in Requests, SendRequest(c, r)
        PROVE  client'[c] = "waiting" /\ asked'[c] \in Messages /\ Unread(c)'
    <3>1. inbox[c] = <<>> /\ outbox[c] = <<>> /\ ~InConversation
      BY <2>1, <2>5 DEF SendRequest, InStep
    <3>2. DEFINE m == [from |-> c, cmd |-> r]
    <3>3. m \in Messages /\ Append(<<>>, m) = <<m>>
      BY DEF Messages
    <3>4. /\ client'[c] = "waiting" /\ asked'[c] = m /\ inbox'[c] = Append(inbox[c], m)
          /\ outbox'[c] = outbox[c]
      BY <1>1, <2>5 DEF SendRequest
    <3>5. inbox'[c] = <<asked'[c]>> /\ outbox'[c] = <<>>
      BY <3>1, <3>3, <3>4
    <3>6. ~InConversation'
      BY ONLY <1>2, <3>1
    <3> QED
      BY <3>3, <3>4, <3>5, <3>6 DEF Unread
  <2> QED
    BY <2>2, <2>3, <2>4, <2>5 DEF ClientStep
<1>9. ASSUME OneClient', NEW b \in Clients, b # c PROVE client'[b] = "off"
  BY <1>3, <1>9 DEF OneClient
<1> QED
  BY <1>6, <1>7, <1>8, <1>9 DEF InStep

LEMMA AloneStep ==
  ASSUME AloneInv, [Next]_vars
  PROVE  AloneInv'
<1>1. Inv'
  BY TypeStep, HandOffStep DEF AloneInv, Inv
<1>2. CASE Dispatcher \/ UNCHANGED vars
  <2>1. UNCHANGED wifiVars
    BY <1>2 DEF Dispatcher, NetConnectorTurn, BeginRound, PollNothing, PollRequest, ReadRequest,
                ExecuteCommand, FinishCopy, OtherConnectorsTurn, vars
  <2> QED
    BY <1>1, <2>1 DEF AloneInv, Silent, Unconnected, SomebodyAsked, InStep, InConversation, Unread,
       Served, Answered, OneClient, wifiVars, netVars, kernelVars, clientVars
<1>3. CASE NetThread
  BY <1>1, <1>3, AloneNetStep DEF AloneInv
<1>4. ASSUME NEW c \in Clients, ClientStep(c), UNCHANGED dispVars
      PROVE  AloneInv'
  BY <1>1, <1>4, AloneClientStep DEF AloneInv
<1> QED
  BY <1>2, <1>3, <1>4 DEF Next

\* A client that is alone reads the answers to its own requests, in any number
\* of conversations and whenever it leaves.
THEOREM AloneCorrect == Spec => []OneClientOwnAnswer
<1>1. Init => AloneInv
  BY AloneInit, TypeInit, HandOffInit DEF AloneInv, Inv
<1>2. AloneInv => OneClientOwnAnswer
  <2> SUFFICES ASSUME AloneInv, OneClient, NEW c \in Clients, client[c] = "waiting", outbox[c] # <<>>
               PROVE  Head(outbox[c]).to = asked[c]
    BY DEF OneClientOwnAnswer, OwnAnswer
  <2>1. PICK a \in Answers : outbox[c] = <<a>> /\ a.to = asked[c]
    BY DEF AloneInv, InStep, Unread, Served, Answered
  <2>2. Head(<<a>>) = a
    OBVIOUS
  <2> QED
    BY <2>1, <2>2
<1> QED
  BY <1>1, <1>2, AloneStep, PTL DEF Spec
-----------------------------------------------------------------------------
(* The descriptor of a client that is alone. *)

\* Nobody told the network thread to stop: the closing client never connects.
NoCloser ==
  /\ \A d \in Descriptors : sock[d] # Closer
  /\ \A i \in DOMAIN backlog : backlog[i] # Closer

\* The end of a connection arrives when its client has left.
Ends == \A c \in Clients : \A i \in DOMAIN inbox[c] : inbox[c][i] = End => client[c] = "left"

\* The only connection there has ever been is in the backlog or on the descriptor
\* accepted last, which is watched.
OneConnection ==
  OneClient =>
    /\ \A d \in Descriptors : sock[d] # NoPeer =>
         d \in master /\ newSock = d /\ backlog = <<>> /\ netPc \notin {"starting", "listen"}
    /\ Len(backlog) <= 1

ClosedInv == AloneInv /\ NoCloser /\ Ends /\ OneConnection

\* What a step may close under one client, and what it may leave open.
ClosesProperly ==
  OneClient' =>
    \A d \in Descriptors :
      /\ sock[d] \in Clients /\ sock'[d] = NoPeer => client[sock[d]] = "left"
      /\ sock'[d] # NoPeer => d \in master'

LEMMA ClosedInit == Init => NoCloser /\ Ends /\ OneConnection
<1> SUFFICES ASSUME Init PROVE NoCloser /\ Ends /\ OneConnection
  OBVIOUS
<1>1. \A c \in Clients : inbox[c] = <<>>
  BY WifiAssumption DEF Init, WifiInit, Peers
<1>2. NoPeer # Closer
  BY WifiAssumption DEF Peers
<1>3. Ends
  <2>1. \A i \in DOMAIN <<>> : FALSE
    OBVIOUS
  <2> QED
    BY <1>1, <2>1 DEF Ends
<1>4. (\A d \in Descriptors : sock[d] = NoPeer) /\ backlog = <<>> /\ Len(backlog) = 0
  BY DEF Init, WifiInit
<1> QED
  BY <1>2, <1>3, <1>4 DEF NoCloser, OneConnection

\* A step that opens and closes nothing.
LEMMA NothingClosed ==
  ASSUME ClosedInv, OneClient' => OneClient,
         UNCHANGED <<sock, backlog, master>>,
         \/ newSock' = newSock /\ (netPc' \in {"starting", "listen"} => netPc \in {"starting", "listen"})
         \/ netPc \in {"starting", "listen"}
  PROVE  NoCloser' /\ OneConnection' /\ ClosesProperly
<1>1. NoCloser'
  BY DEF ClosedInv, NoCloser
<1>2. OneConnection'
  BY DEF ClosedInv, OneConnection
<1>3. ClosesProperly
  <2> SUFFICES ASSUME OneClient', NEW d \in Descriptors
               PROVE  /\ sock[d] \in Clients /\ sock[d] = NoPeer => FALSE
                      /\ sock[d] # NoPeer => d \in master
    BY DEF ClosesProperly
  <2>1. NoPeer \notin Clients
    BY WifiAssumption DEF Peers
  <2> QED
    BY <2>1 DEF ClosedInv, OneConnection
<1> QED
  BY <1>1, <1>2, <1>3

LEMMA AcceptClosed ==
  ASSUME ClosedInv, Accept, OneClient' => OneClient
  PROVE  NoCloser' /\ OneConnection' /\ ClosesProperly
<1>1. backlog \in Seq(Peers) /\ backlog # <<>> /\ sock \in [Descriptors -> Peers \cup {NoPeer}] /\ netPc = "scan"
  BY DEF ClosedInv, AloneInv, Inv, TypeOK, WifiTypeOK, Accept
<1>2. CASE UNCHANGED <<sock, backlog, master>>
  <2>1. \A d \in Descriptors : OneClient => sock[d] = NoPeer
    BY <1>1 DEF ClosedInv, OneConnection
  <2>2. NoCloser'
    BY <1>2 DEF ClosedInv, NoCloser
  <2>3. OneConnection'
    BY <1>2, <2>1 DEF ClosedInv, OneConnection
  <2>4. NoPeer \notin Clients
    BY WifiAssumption DEF Peers
  <2>5. ClosesProperly
    BY <1>2, <2>1, <2>4 DEF ClosesProperly
  <2> QED
    BY <2>2, <2>3, <2>5
<1>3. ASSUME NEW d \in FreeDescriptors, newSock' = d, sock' = [sock EXCEPT ![d] = Head(backlog)],
             backlog' = Tail(backlog), master' = master \cup {d}
      PROVE  NoCloser' /\ OneConnection' /\ ClosesProperly
  <2>1. /\ d \in Descriptors /\ sock[d] = NoPeer /\ sock'[d] = Head(backlog)
        /\ \A e \in Descriptors : e # d => sock'[e] = sock[e]
    BY <1>1, <1>3 DEF FreeDescriptors
  <2>2. /\ Head(backlog) = backlog[1] /\ 1 \in DOMAIN backlog
        /\ \A i \in DOMAIN Tail(backlog) : i + 1 \in DOMAIN backlog /\ Tail(backlog)[i] = backlog[i + 1]
    BY <1>1
  <2>3. NoCloser'
    BY <1>3, <2>1, <2>2 DEF ClosedInv, NoCloser
  <2>4. OneClient => Tail(backlog) = <<>>
    <3> SUFFICES ASSUME OneClient PROVE Tail(backlog) = <<>>
      OBVIOUS
    <3>1. Len(backlog) <= 1 /\ Len(backlog) \in Nat
      BY <1>1, LenProperties DEF ClosedInv, OneConnection
    <3>2. Tail(backlog) \in Seq(Peers) /\ Len(Tail(backlog)) = Len(backlog) - 1
      BY <1>1, HeadTailProperties
    <3>3. Len(Tail(backlog)) = 0
      BY <3>1, <3>2, LenProperties
    <3> QED
      BY <3>2, <3>3, EmptySeq
  <2>5. OneClient => \A e \in Descriptors : sock[e] = NoPeer
    BY <1>1 DEF ClosedInv, OneConnection
  <2>6. OneConnection'
    <3> SUFFICES ASSUME OneClient
                 PROVE  /\ \A e \in Descriptors : sock'[e] # NoPeer =>
                             e \in master' /\ newSock' = e /\ backlog' = <<>> /\ netPc' \notin {"starting", "listen"}
                        /\ Len(backlog') <= 1
      BY DEF OneConnection
    <3>1. netPc' \notin {"starting", "listen"}
      BY DEF Accept
    <3>2. backlog' = <<>> /\ Len(<<>>) = 0
      BY <1>3, <2>4
    <3> QED
      BY <1>3, <2>1, <2>5, <3>1, <3>2
  <2>7. NoPeer \notin Clients
    BY WifiAssumption DEF Peers
  <2>8. ClosesProperly
    BY <1>3, <2>1, <2>5, <2>7 DEF ClosesProperly
  <2> QED
    BY <2>3, <2>6, <2>8
<1> QED
  BY <1>2, <1>3 DEF Accept

\* Closing the descriptor accepted last closes the only connection, whose client has left.
LEMMA CloseClosed ==
  ASSUME ClosedInv, OneClient' => OneClient, NEW watched, watched \subseteq master,
         CloseNewest(watched), UNCHANGED <<newSock, backlog>>,
         \A d \in Descriptors : OneClient /\ sock[d] \in Clients /\ newSock = d => client[sock[d]] = "left"
  PROVE  NoCloser' /\ OneConnection' /\ ClosesProperly
<1>1. /\ sock \in [Descriptors -> Peers \cup {NoPeer}]
      /\ \A d \in Descriptors : sock'[d] = IF d = newSock THEN NoPeer ELSE sock[d]
      /\ netPc' = "check"
  BY DEF ClosedInv, AloneInv, Inv, TypeOK, WifiTypeOK, CloseNewest
<1>2. NoPeer # Closer
  BY WifiAssumption DEF Peers
<1>3. NoCloser'
  BY <1>1, <1>2 DEF ClosedInv, NoCloser
<1>4. OneClient => \A d \in Descriptors : sock'[d] = NoPeer
  BY <1>1 DEF ClosedInv, OneConnection
<1>5. OneConnection'
  BY <1>4 DEF ClosedInv, OneConnection
<1>6. ClosesProperly
  <2> SUFFICES ASSUME OneClient, NEW d \in Descriptors
               PROVE  /\ sock[d] \in Clients => client[sock[d]] = "left"
                      /\ sock'[d] = NoPeer
    BY DEF ClosesProperly
  <2>1. sock[d] \in Clients => newSock = d
    BY WifiAssumption DEF ClosedInv, OneConnection, Peers
  <2> QED
    BY <1>4, <2>1
<1> QED
  BY <1>3, <1>5, <1>6

LEMMA NetClosed ==
  ASSUME ClosedInv, NetThread, OneClient' => OneClient
  PROVE  NoCloser' /\ OneConnection' /\ ClosesProperly
<1> USE DEF syncVars, netVars, kernelVars
<1>0. /\ sock \in [Descriptors -> Peers \cup {NoPeer}] /\ master \subseteq Descriptors
      /\ inbox \in [Peers -> Seq(Messages \cup {End})] /\ WatchesOpenDescriptors
  BY DEF ClosedInv, AloneInv, Inv, TypeOK, WifiTypeOK
<1>1. CASE Accept
  BY <1>1, AcceptClosed
<1>2. CASE ReceiveEnd
  <2>1. PICK d \in master :
          /\ inbox[sock[d]] # <<>> /\ Head(inbox[sock[d]]) = End /\ CloseNewest(master \ {d})
    BY <1>2 DEF ReceiveEnd
  <2>2. sock[d] \in Clients
    BY <1>0, <2>1 DEF WatchesOpenDescriptors, ClosedInv, NoCloser, Peers
  <2>3. client[sock[d]] = "left"
    <3>1. inbox[sock[d]] \in Seq(Messages \cup {End})
      BY <1>0, <2>2 DEF Peers
    <3>2. 1 \in DOMAIN inbox[sock[d]] /\ inbox[sock[d]][1] = End
      BY <2>1, <3>1
    <3> QED
      BY <2>2, <3>2 DEF ClosedInv, Ends
  <2>4. ASSUME NEW e \in Descriptors, OneClient, newSock = e PROVE e = d
    BY <1>0, <2>1, <2>2, <2>4, WifiAssumption DEF ClosedInv, OneConnection, Peers
  <2>5. \A e \in Descriptors : OneClient /\ sock[e] \in Clients /\ newSock = e => client[sock[e]] = "left"
    BY <2>3, <2>4
  <2>6. UNCHANGED <<newSock, backlog>>
    BY <1>2 DEF ReceiveEnd
  <2> QED
    BY <2>1, <2>5, <2>6, CloseClosed
<1>3. CASE SendAnswer
  <2>1. UNCHANGED <<newSock, backlog>> /\ netPc = "send"
    BY <1>3 DEF SendAnswer
  <2>2. CASE UNCHANGED <<master, sock>> /\ netPc' \in {"check", "scan"}
    BY <2>1, <2>2, NothingClosed
  <2>3. ASSUME NEW d \in master, SendMayFail(d), CloseNewest(master)
        PROVE  NoCloser' /\ OneConnection' /\ ClosesProperly
    <3>1. sock[d] \in Clients /\ client[sock[d]] = "left"
      BY <1>0, <2>3 DEF WatchesOpenDescriptors, ClosedInv, NoCloser, Peers, SendMayFail
    <3>2. ASSUME NEW e \in Descriptors, OneClient, newSock = e PROVE e = d
      BY <1>0, <3>1, <3>2, WifiAssumption DEF ClosedInv, OneConnection, Peers
    <3>3. \A e \in Descriptors : OneClient /\ sock[e] \in Clients /\ newSock = e => client[sock[e]] = "left"
      BY <3>1, <3>2
    <3> QED
      BY <2>1, <2>3, <3>3, CloseClosed
  <2> QED
    BY <1>3, <2>2, <2>3 DEF SendAnswer
<1>4. CASE CloseListener
  <2>1. UNCHANGED <<sock, master, newSock>> /\ backlog' = <<>> /\ netPc' = "returned"
    BY <1>4 DEF CloseListener
  <2>2. NoPeer \notin Clients /\ Len(<<>>) = 0
    BY WifiAssumption DEF Peers
  <2>3. NoCloser'
    <3>1. \A i \in DOMAIN <<>> : FALSE
      OBVIOUS
    <3> QED
      BY <2>1, <3>1 DEF ClosedInv, NoCloser
  <2>4. OneConnection'
    BY <2>1, <2>2 DEF ClosedInv, OneConnection
  <2>5. ClosesProperly
    BY <2>1, <2>2 DEF ClosedInv, OneConnection, ClosesProperly
  <2> QED
    BY <2>3, <2>4, <2>5
<1>5. CASE StartRun \/ Listen
  BY <1>5, NothingClosed DEF StartRun, Listen
<1>6. CASE CheckRunStatus \/ Select
  BY <1>6, NothingClosed DEF CheckRunStatus, Select
<1>7. CASE ReceiveRequest \/ PostRequest \/ AnnounceRequest \/ SeeAnswer \/ FinishRun
  BY <1>7, NothingClosed DEF ReceiveRequest, PostRequest, AnnounceRequest, SeeAnswer, FinishRun
<1> QED
  BY <1>1, <1>2, <1>3, <1>4, <1>5, <1>6, <1>7 DEF NetThread

\* A client connects once: when it does, nothing is open for any client.
LEMMA ClientClosed ==
  ASSUME ClosedInv, NEW c \in Clients, ClientStep(c), OneClient' => OneClient
  PROVE  NoCloser' /\ OneConnection' /\ ClosesProperly
<1> USE DEF netVars, kernelVars
<1>1. CASE ~Connect(c)
  <2>1. UNCHANGED <<sock, backlog, master, newSock, netPc>>
    BY <1>1 DEF ClientStep, ReadAnswer, Leave, FindClosed, SendRequest
  <2> QED
    BY <2>1, NothingClosed
<1>2. CASE Connect(c)
  <2>1. /\ UNCHANGED <<sock, master, newSock, netPc>> /\ backlog' = Append(backlog, c)
        /\ client[c] = "off" /\ client' = [client EXCEPT ![c] = "idle"]
    BY <1>2 DEF Connect
  <2>2. /\ backlog \in Seq(Peers) /\ sock \in [Descriptors -> Peers \cup {NoPeer}]
        /\ client \in [Clients -> {"off", "idle", "waiting", "left"}]
    BY DEF ClosedInv, AloneInv, Inv, TypeOK, WifiTypeOK
  <2>3. c \in Peers /\ c # Closer /\ NoPeer \notin Clients
    BY WifiAssumption DEF Peers
  <2>4. /\ Len(backlog') = Len(backlog) + 1 /\ DOMAIN backlog' = 1..(Len(backlog) + 1)
        /\ DOMAIN backlog = 1..Len(backlog) /\ Len(backlog) \in Nat
        /\ \A i \in 1..Len(backlog) : backlog'[i] = backlog[i]
        /\ backlog'[Len(backlog) + 1] = c
    BY <2>1, <2>2, <2>3, AppendProperties, LenProperties
  <2>5. \A i \in DOMAIN backlog' : i \in DOMAIN backlog \/ i = Len(backlog) + 1
    BY <2>4
  <2>6. NoCloser'
    BY <2>1, <2>3, <2>4, <2>5 DEF ClosedInv, NoCloser
  <2>7. ASSUME OneClient' PROVE (\A d \in Descriptors : sock[d] = NoPeer) /\ backlog = <<>>
    <3>1. \A b \in Clients : client[b] = "off"
      BY <2>1, <2>2, <2>7 DEF OneClient
    <3>2. \A d \in Descriptors : sock[d] = NoPeer
      BY <2>2, <3>1 DEF ClosedInv, NoCloser, AloneInv, Unconnected, Peers
    <3>3. \A i \in 1..Len(backlog) : FALSE
      BY <2>2, <2>4, <3>1, ElementOfSeq DEF ClosedInv, NoCloser, AloneInv, Unconnected, Peers
    <3>4. Len(backlog) = 0
      BY <2>4, <3>3
    <3> QED
      BY <2>2, <3>2, <3>4, EmptySeq
  <2>8. OneConnection'
    <3>1. OneClient' => Len(backlog') = 1
      BY <2>4, <2>7, EmptySeq
    <3> QED
      BY <2>1, <2>7, <3>1 DEF OneConnection
  <2>9. ClosesProperly
    BY <2>1, <2>3, <2>7 DEF ClosesProperly
  <2> QED
    BY <2>6, <2>8, <2>9
<1> QED
  BY <1>1, <1>2

\* Only a client that leaves ends its connection, and it leaves for good.
LEMMA EndsStep ==
  ASSUME ClosedInv, [Next]_vars
  PROVE  Ends'
<1> USE DEF ClosedInv, Ends, clientVars
<1>0. /\ client \in [Clients -> {"off", "idle", "waiting", "left"}]
      /\ inbox \in [Peers -> Seq(Messages \cup {End})]
      /\ \A c \in Clients : c \in Peers
  BY DEF AloneInv, Inv, TypeOK, WifiTypeOK, Peers
<1>1. CASE UNCHANGED <<inbox, client>>
  BY <1>1
<1>2. CASE ReceiveRequest
  <2>1. PICK d \in master :
          /\ inbox[sock[d]] # <<>>
          /\ inbox' = [inbox EXCEPT ![sock[d]] = IF @[Len(@)] = End THEN <<End>> ELSE <<>>]
    BY <1>2 DEF ReceiveRequest
  <2>2. client' = client
    BY <1>2 DEF ReceiveRequest
  <2>3. ASSUME NEW c \in Clients, NEW i \in DOMAIN inbox'[c], inbox'[c][i] = End
        PROVE  client[c] = "left"
    <3>1. CASE c # sock[d]
      BY <1>0, <2>1, <2>3, <3>1
    <3>2. CASE c = sock[d] /\ inbox[c][Len(inbox[c])] = End
      <4>1. inbox[c] \in Seq(Messages \cup {End}) /\ inbox[c] # <<>>
        BY <1>0, <2>1, <3>2
      <4>2. Len(inbox[c]) \in DOMAIN inbox[c]
        BY <4>1
      <4> QED
        BY <3>2, <4>2
    <3>3. CASE c = sock[d] /\ inbox[c][Len(inbox[c])] # End
      <4>1. inbox'[c] = <<>>
        BY <1>0, <2>1, <3>3
      <4> QED
        BY <2>3, <4>1
    <3> QED
      BY <3>1, <3>2, <3>3
  <2> QED
    BY <2>2, <2>3
<1>3. CASE CloseListener
  BY <1>0, <1>3 DEF CloseListener
<1>4. ASSUME NEW b \in Clients, ClientStep(b)
      PROVE  Ends'
  <2>1. CASE Connect(b) \/ ReadAnswer(b) \/ FindClosed(b)
    BY <1>0, <2>1 DEF Connect, ReadAnswer, FindClosed
  <2>2. CASE Leave(b)
    BY <1>0, <2>2 DEF Leave
  <2>3. ASSUME NEW r \in Requests, SendRequest(b, r)
        PROVE  Ends'
    <3> DEFINE m == [from |-> b, cmd |-> r]
    <3>1. m \in Messages /\ m # End
      BY WifiAssumption DEF Messages
    <3> HIDE DEF m
    <3>2. /\ client[b] = "idle" /\ client' = [client EXCEPT ![b] = "waiting"]
          /\ inbox' = [inbox EXCEPT ![b] = Append(@, m)]
      BY <2>3 DEF SendRequest, m
    <3>3. inbox[b] \in Seq(Messages \cup {End}) /\ m \in Messages \cup {End}
      BY <1>0, <3>1
    <3>4. \A i \in DOMAIN Append(inbox[b], m) :
            Append(inbox[b], m)[i] = m \/ (i \in DOMAIN inbox[b] /\ Append(inbox[b], m)[i] = inbox[b][i])
      <4> DEFINE n == Len(inbox[b])
      <4>1. /\ n \in Nat /\ DOMAIN inbox[b] = 1..n /\ DOMAIN Append(inbox[b], m) = 1..(n + 1)
            /\ \A i \in 1..n : Append(inbox[b], m)[i] = inbox[b][i]
            /\ Append(inbox[b], m)[n + 1] = m
        BY <3>3, AppendProperties, LenProperties
      <4> HIDE DEF n
      <4> QED
        BY <4>1
    <3>5. ASSUME NEW c \in Clients, NEW i \in DOMAIN inbox'[c], inbox'[c][i] = End
          PROVE  client'[c] = "left"
      <4>1. CASE c = b
        <5>1. inbox'[b] = Append(inbox[b], m)
          BY <1>0, <3>2
        <5>2. i \in DOMAIN inbox[b] /\ inbox[b][i] = End
          BY <3>1, <3>4, <3>5, <4>1, <5>1
        <5> QED
          BY <3>2, <5>2
      <4>2. CASE c # b
        BY <1>0, <3>2, <3>5, <4>2
      <4> QED
        BY <4>1, <4>2
    <3> QED
      BY <3>5
  <2> QED
    BY <1>4, <2>1, <2>2, <2>3 DEF ClientStep
<1>5. CASE NetThread /\ ~ReceiveRequest /\ ~CloseListener
  <2>1. UNCHANGED <<inbox, client>>
    BY <1>5 DEF NetThread, StartRun, Listen, CheckRunStatus, Select, Accept, ReceiveEnd,
       PostRequest, AnnounceRequest, SeeAnswer, SendAnswer, FinishRun
  <2> QED
    BY <1>1, <2>1
<1>6. CASE Dispatcher \/ UNCHANGED vars
  <2>1. UNCHANGED <<inbox, client>>
    BY <1>6 DEF Dispatcher, NetConnectorTurn, BeginRound, PollNothing, PollRequest, ReadRequest,
                ExecuteCommand, FinishCopy, OtherConnectorsTurn, vars, wifiVars
  <2> QED
    BY <1>1, <2>1
<1> QED
  BY <1>2, <1>3, <1>4, <1>5, <1>6 DEF Next

LEMMA ClosedStep ==
  ASSUME ClosedInv, [Next]_vars
  PROVE  ClosedInv' /\ ClosesProperly
<1>1. OneClient' => OneClient
  BY OnceConnected DEF ClosedInv, AloneInv
<1>2. AloneInv' /\ Ends'
  BY AloneStep, EndsStep DEF ClosedInv
<1>3. CASE NetThread
  BY <1>1, <1>2, <1>3, NetClosed DEF ClosedInv
<1>4. ASSUME NEW c \in Clients, ClientStep(c)
      PROVE  ClosedInv' /\ ClosesProperly
  BY <1>1, <1>2, <1>4, ClientClosed DEF ClosedInv
<1>5. CASE Dispatcher \/ UNCHANGED vars
  <2>1. UNCHANGED <<sock, backlog, master, newSock, netPc>>
    BY <1>5 DEF Dispatcher, NetConnectorTurn, BeginRound, PollNothing, PollRequest, ReadRequest,
                ExecuteCommand, FinishCopy, OtherConnectorsTurn, vars, wifiVars, netVars, kernelVars
  <2> QED
    BY <1>1, <1>2, <2>1, NothingClosed DEF ClosedInv
<1> QED
  BY <1>3, <1>4, <1>5 DEF Next

\* Closing the descriptor accepted last closes, for a client that is alone, its connection, and
\* only when it has left; and no connection of it stays open that select() does not watch.
THEOREM AloneClosed == Spec => OneClientClosed
<1>1. Init => ClosedInv
  BY AloneInit, TypeInit, HandOffInit, ClosedInit DEF ClosedInv, AloneInv, Inv
<1>2. ClosedInv /\ [Next]_vars =>
        [OneClient' =>
           \A d \in Descriptors :
             /\ sock[d] \in Clients /\ sock'[d] = NoPeer => client[sock[d]] = "left"
             /\ sock'[d] # NoPeer => d \in master']_vars
  BY ClosedStep DEF ClosesProperly
<1>3. ClosedInv /\ [Next]_vars => ClosedInv'
  BY ClosedStep
<1> QED
  BY <1>1, <1>2, <1>3, PTL DEF Spec, OneClientClosed
-----------------------------------------------------------------------------
(* The whole daemon *)

\* A network thread that has not listened yet, or listens no more, holds no
\* listening socket, and one that has ended holds no port.
NetReleases ==
  /\ netPc \in {"starting", "listen", "returned", "ended"} => ~listening
  /\ netPc \in {"returned", "ended"} => boundPort = NoPort

\* Once the dispatcher thread has been joined it has ended, and a process that
\* has exited has joined the network thread as well.
JoinsInOrder ==
  /\ mainPc \in {"joinGui", "joinNet", "exited"} => dispPc = "ended"
  /\ mainPc = "exited" => netPc = "ended"

DaemonInv == ReportsBoundPort /\ NetReleases /\ JoinsInOrder

-----------------------------------------------------------------------------
\* The steps of the network thread, as far as the port is concerned.
LEMMA NetThreadPort ==
  ASSUME NetThread, NetReleases, ReportsBoundPort, portStr' = portStr
  PROVE  NetReleases' /\ ReportsBoundPort' /\ netPc # "ended"
<1> USE DEF NetReleases, ReportsBoundPort, kernelVars
<1>1. CASE StartRun
  BY <1>1 DEF StartRun
<1>2. CASE Listen
  BY <1>2 DEF Listen
<1>3. CASE CheckRunStatus
  BY <1>3 DEF CheckRunStatus
<1>4. CASE Select
  BY <1>4 DEF Select
<1>5. CASE Accept
  BY <1>5 DEF Accept
<1>6. CASE ReceiveEnd
  BY <1>6 DEF ReceiveEnd, CloseNewest
<1>7. CASE ReceiveRequest \/ PostRequest \/ AnnounceRequest \/ SeeAnswer
  BY <1>7 DEF ReceiveRequest, PostRequest, AnnounceRequest, SeeAnswer
<1>8. CASE SendAnswer
  BY <1>8 DEF SendAnswer, CloseNewest
<1>9. CASE CloseListener
  BY <1>9 DEF CloseListener
<1>10. CASE FinishRun
  BY <1>10 DEF FinishRun
<1> QED
  BY <1>1, <1>2, <1>3, <1>4, <1>5, <1>6, <1>7, <1>8, <1>9, <1>10 DEF NetThread

LEMMA DaemonInvStep ==
  ASSUME DaemonInv, [DaemonNext]_allVars
  PROVE  DaemonInv'
<1> USE DEF DaemonInv
<1>1. CASE Sigterm
  BY <1>1 DEF Sigterm, vars, syncVars, wifiVars, netVars, kernelVars, dispVars,
              ReportsBoundPort, NetReleases, JoinsInOrder
<1>2. CASE MainThread
  BY <1>2 DEF MainThread, StopDispatcher, Join, vars, syncVars, wifiVars, netVars,
              kernelVars, dispVars, ReportsBoundPort, NetReleases, JoinsInOrder
<1>3. CASE GuiThread
  BY <1>3 DEF GuiThread, vars, syncVars, wifiVars, netVars, kernelVars, dispVars,
              ReportsBoundPort, NetReleases, JoinsInOrder
<1>4. CASE DaemonNetThread
  <2>1. UNCHANGED <<dispVars, daemonVars>> /\ NetThread
    BY <1>4 DEF DaemonNetThread
  <2>2. NetReleases' /\ ReportsBoundPort' /\ netPc # "ended"
    BY <2>1, NetThreadPort DEF daemonVars
  <2> QED
    BY <2>1, <2>2 DEF JoinsInOrder, dispVars, daemonVars
<1>5. CASE \E c \in Clients : RemoteStep(c)
  <2>1. PICK c \in Clients : ClientStep(c) /\ UNCHANGED <<dispVars, daemonVars>>
    BY <1>5 DEF RemoteStep
  <2>2. netPc' = netPc /\ listening' = listening /\ boundPort' = boundPort
    BY <2>1 DEF ClientStep, Connect, SendRequest, ReadAnswer, Leave, FindClosed,
                netVars, kernelVars
  <2> QED
    BY <2>1, <2>2 DEF dispVars, daemonVars, ReportsBoundPort, NetReleases, JoinsInOrder
<1>6. CASE DispatcherThread
  <2> USE DEF ReportsBoundPort, NetReleases, JoinsInOrder
  <2>1. dispPc # "ended"
    BY <1>6 DEF DispatcherThread, CheckStopped, BeginRound, NetTurn, PollNothing, PollRequest,
                ReadRequest, FinishCopy, ExecuteChgPort, GuiTurn, OtherConnectorsTurn,
                StopNet, WakeNet, RestartNet, PortException, StopGui
  <2>2. CASE CheckStopped
    BY <2>1, <2>2 DEF CheckStopped, BeginRound, wifiVars, netVars, kernelVars, daemonVars
  <2>3. CASE NetTurn
    BY <2>1, <2>3 DEF NetTurn, PollNothing, PollRequest, ReadRequest, FinishCopy, ExecuteOther,
       ExecuteQuit, ExecuteCommand, ExecuteChgPort, BeginRestart, wifiVars, netVars,
       kernelVars, daemonVars
  <2>4. CASE GuiTurn
    BY <2>1, <2>4 DEF GuiTurn, OtherConnectorsTurn, BeginRestart, wifiVars, netVars,
       kernelVars, daemonVars
  <2>5. CASE StopNet \/ WakeNet
    BY <2>1, <2>5 DEF StopNet, WakeNet, wifiVars, netVars, kernelVars, daemonVars
  <2>6. CASE RestartNet
    BY <2>1, <2>6 DEF RestartNet, chgNetConnectorPort
  <2>7. CASE PortException
    BY <2>7 DEF PortException, vars, wifiVars, netVars, kernelVars, dispVars
  <2>8. CASE StopGui
    BY <2>1, <2>8 DEF StopGui, wifiVars, netVars, kernelVars
  <2> QED
    BY <1>6, <2>2, <2>3, <2>4, <2>5, <2>6, <2>7, <2>8 DEF DispatcherThread
<1>7. CASE UNCHANGED allVars
  BY <1>7 DEF allVars, vars, wifiVars, netVars, kernelVars, dispVars, daemonVars,
              ReportsBoundPort, NetReleases, JoinsInOrder
<1> QED
  BY <1>1, <1>2, <1>3, <1>4, <1>5, <1>6, <1>7 DEF DaemonNext, Run

THEOREM DaemonInvariance == DaemonSpec => []DaemonInv
<1>1. DaemonInit => DaemonInv
  BY DEF DaemonInit, Init, WifiInit, DaemonInv, ReportsBoundPort, NetReleases, JoinsInOrder
<1> QED
  BY <1>1, DaemonInvStep, PTL DEF DaemonSpec

\* The port that is reported is the one that is bound, also after changes that
\* failed, for any set of ports.
THEOREM PortCorrect == DaemonSpec => []ReportsBoundPort
<1>1. DaemonInv => ReportsBoundPort
  BY DEF DaemonInv
<1> QED
  BY <1>1, DaemonInvariance, PTL

\* A process that has exited holds no port.
THEOREM ExitCorrect == DaemonSpec => []ExitReleasesPort
<1>1. DaemonInv => ExitReleasesPort
  BY DEF DaemonInv, NetReleases, JoinsInOrder, ExitReleasesPort
<1> QED
  BY <1>1, DaemonInvariance, PTL
-----------------------------------------------------------------------------
\* A STOP is lost only on a network thread that had not begun to run.  Every
\* step keeps this by itself: only StartRun sets the status to RUN, a thread
\* that is started again has not begun, and the dispatcher sets STOP before it
\* waits.
LEMMA StopLostStep ==
  ASSUME DaemonNext, ~StopLost, StopLost'
  PROVE  netPc = "starting"
<1> USE DEF StopLost
<1>1. CASE Sigterm \/ MainThread \/ GuiThread
  BY <1>1 DEF Sigterm, MainThread, StopDispatcher, Join, GuiThread, vars, syncVars,
              wifiVars, netVars, dispVars
<1>2. CASE DaemonNetThread
  <2>1. UNCHANGED dispVars /\ NetThread
    BY <1>2 DEF DaemonNetThread
  <2>2. CASE StartRun
    BY <2>2 DEF StartRun
  <2>3. CASE CloseListener \/ FinishRun
    BY <2>1, <2>3 DEF CloseListener, FinishRun, setRunStatus, syncVars, dispVars
  <2>4. CASE Listen \/ CheckRunStatus \/ Select \/ Accept
    BY <2>1, <2>4 DEF Listen, CheckRunStatus, Select, Accept, syncVars, dispVars
  <2>5. CASE ReceiveEnd \/ ReceiveRequest \/ PostRequest \/ AnnounceRequest \/ SeeAnswer
    BY <2>1, <2>5 DEF ReceiveEnd, CloseNewest, ReceiveRequest, PostRequest,
       AnnounceRequest, SeeAnswer, setReceivedData, setReceivedDataStatus, syncVars, dispVars
  <2>6. CASE SendAnswer
    BY <2>1, <2>6 DEF SendAnswer, clearSentData, syncVars, dispVars
  <2> QED
    BY <2>1, <2>2, <2>3, <2>4, <2>5, <2>6 DEF NetThread
<1>3. CASE \E c \in Clients : RemoteStep(c)
  <2>1. PICK c \in Clients : ClientStep(c) /\ UNCHANGED dispVars
    BY <1>3 DEF RemoteStep
  <2>2. netPc' = netPc /\ runStatus' = runStatus
    BY <2>1 DEF ClientStep, Connect, SendRequest, ReadAnswer, Leave, FindClosed,
                netVars, syncVars
  <2> QED
    BY <2>1, <2>2 DEF dispVars
<1>4. CASE DispatcherThread
  <2>1. CASE CheckStopped \/ NetTurn \/ GuiTurn
    <3>1. dispPc' \notin {"wakeOld", "joinOld", "wakeNet", "stopGui", "ended"}
      BY <2>1 DEF CheckStopped, BeginRound, NetTurn, PollNothing, PollRequest, ReadRequest,
         FinishCopy, ExecuteOther, ExecuteQuit, ExecuteCommand, ExecuteChgPort, GuiTurn,
         OtherConnectorsTurn, BeginRestart
    <3> QED
      BY <3>1
  <2>2. CASE StopNet
    BY <2>2 DEF StopNet, setRunStatus
  <2>3. CASE WakeNet \/ StopGui
    BY <2>3 DEF WakeNet, StopGui, syncVars, wifiVars, netVars
  <2>4. CASE RestartNet \/ PortException
    BY <2>4 DEF RestartNet, PortException, vars, syncVars, wifiVars, netVars, dispVars
  <2> QED
    BY <1>4, <2>1, <2>2, <2>3, <2>4 DEF DispatcherThread
<1> QED
  BY <1>1, <1>2, <1>3, <1>4 DEF DaemonNext, Run

\* A network thread that has read its run status once obeys a STOP.
THEOREM StopCorrect == DaemonSpec => StopLostOnlyAtStart
<1>1. [DaemonNext]_allVars => [~StopLost /\ StopLost' => netPc = "starting"]_allVars
  BY StopLostStep
<1> QED
  BY <1>1, PTL DEF DaemonSpec, StopLostOnlyAtStart
-----------------------------------------------------------------------------
\* The types.  A command is a request the network thread has posted: the
\* dispatcher must never take the slot for one before it holds one, also after
\* the network thread was started again over it.
SlotHolds ==
  /\ netPc = "posted" \/ receivedDataStatus = "HAS_NEW_DATA" \/ dispPc = "taken"
       => receivedData \in Messages
  /\ dispPc = "exec" => cmd \in Messages

TypeInv == DaemonTypeOK /\ WifiInv /\ SlotHolds

LEMMA DaemonTypeInit == DaemonInit => TypeInv
<1> SUFFICES ASSUME DaemonInit PROVE TypeInv
  OBVIOUS
<1>1. WifiInv /\ boundPort \in Ports
  BY WifiInvInit DEF DaemonInit, Init, WifiInit
<1> QED
  BY <1>1 DEF DaemonInit, Init, SyncInit, WifiInit, DispInit, TypeInv, SlotHolds,
              DaemonTypeOK, WifiInv

\* The network thread posts what it has received and announces it afterwards.
LEMMA NetTypeInvStep ==
  ASSUME TypeInv, NetThread, UNCHANGED <<dispVars, daemonVars>>
  PROVE  TypeInv'
<1> USE DEF TypeInv, SlotHolds, DaemonTypeOK, dispVars, daemonVars
<1>1. WifiInv'
  BY NetThreadStep
<1>2. CASE PostRequest
  BY <1>1, <1>2 DEF PostRequest, setReceivedData, WifiInv
<1>3. CASE AnnounceRequest
  BY <1>1, <1>3 DEF AnnounceRequest, setReceivedDataStatus, WifiInv
<1>4. CASE ~PostRequest /\ ~AnnounceRequest
  <2>1. netPc' # "posted" /\ UNCHANGED <<receivedData, receivedDataStatus>>
    BY <1>4 DEF NetThread, StartRun, Listen, CheckRunStatus, Select, Accept, ReceiveEnd,
       CloseNewest, ReceiveRequest, SeeAnswer, SendAnswer, CloseListener, FinishRun,
       setRunStatus, clearSentData, syncVars
  <2> QED
    BY <1>1, <2>1 DEF WifiInv
<1> QED
  BY <1>2, <1>3, <1>4

\* The steps of the dispatcher that touch neither sockets nor clients.
LEMMA NetTurnTypeStep ==
  ASSUME TypeInv, CheckStopped \/ NetTurn \/ GuiTurn \/ StopNet \/ StopGui
  PROVE  TypeInv'
<1> USE DEF TypeInv, WifiInv, SlotHolds, DaemonTypeOK, WatchesOpenDescriptors, SyncTypeOK,
            WifiTypeOK, syncVars, wifiVars, netVars, kernelVars, clientVars, daemonVars
<1>1. CASE CheckStopped
  BY <1>1 DEF CheckStopped, BeginRound
<1>2. CASE PollNothing /\ UNCHANGED daemonVars
  BY <1>2 DEF PollNothing
<1>3. CASE PollRequest /\ UNCHANGED daemonVars
  BY <1>3 DEF PollRequest, takeReceivedData
<1>4. CASE ReadRequest /\ UNCHANGED daemonVars
  BY <1>4 DEF ReadRequest
<1>5. CASE FinishCopy /\ UNCHANGED daemonVars
  <2>1. sentData' \in Answers \cup {NoData} /\ (sentData \in Answers => sentData' \in Answers)
    BY <1>5, SynchroniseAssumption DEF FinishCopy, finishSentData, Answers
  <2> QED
    BY <1>5, <2>1 DEF FinishCopy, finishSentData
<1>6. CASE dispPc = "exec" /\ (ExecuteOther \/ ExecuteQuit)
  <2>0. cmd \in Messages
    BY <1>6
  <2>1. sentData' \in Answers
    <3>1. sentData' = [to |-> cmd, whole |-> cmd.cmd \notin Long]
      BY <1>6 DEF ExecuteOther, ExecuteQuit, ExecuteCommand, setSentData
    <3> HIDE DEF TypeInv
    <3> QED
      BY <2>0, <3>1 DEF Answers
  <2>2. dispPc' \in {"copy", "others"} /\ UNCHANGED <<wifiVars, cmd>>
    BY <1>6 DEF ExecuteOther, ExecuteQuit, ExecuteCommand
  <2>3. UNCHANGED <<runStatus, receivedDataStatus, receivedData>>
    BY <1>6 DEF ExecuteOther, ExecuteQuit, ExecuteCommand, setSentData
  <2>4. /\ shouldStop' \in BOOLEAN
        /\ UNCHANGED <<mainPc, sigterm, guiPc, portStr, newPort>>
    BY <1>6 DEF ExecuteOther, ExecuteQuit
  <2> QED
    BY <2>1, <2>2, <2>3, <2>4
<1>7. CASE ExecuteChgPort
  BY <1>7 DEF ExecuteChgPort, BeginRestart
<1>8. CASE GuiTurn
  <2>1. dispPc' \in {"loop", "restart"} /\ UNCHANGED <<syncVars, wifiVars, cmd>>
    BY <1>8 DEF GuiTurn, OtherConnectorsTurn, BeginRestart
  <2>2. newPort' \in Ports \cup {BadPort, NoPort} /\ shouldStop' \in BOOLEAN
    BY <1>8 DEF GuiTurn, OtherConnectorsTurn, BeginRestart
  <2>3. UNCHANGED <<mainPc, sigterm, guiPc, portStr>>
    BY <1>8 DEF GuiTurn
  <2> QED
    BY <2>1, <2>2, <2>3
<1>9. CASE StopNet
  BY <1>9 DEF StopNet, setRunStatus
<1>10. CASE StopGui
  BY <1>10 DEF StopGui
<1> QED
  BY <1>1, <1>2, <1>3, <1>4, <1>5, <1>6, <1>7, <1>8, <1>9, <1>10 DEF NetTurn

LEMMA DaemonTypeStep ==
  ASSUME TypeInv, [DaemonNext]_allVars
  PROVE  TypeInv'
<1> USE DEF TypeInv, WifiInv, SlotHolds, DaemonTypeOK, WatchesOpenDescriptors, SyncTypeOK,
            WifiTypeOK, syncVars, wifiVars, netVars, kernelVars, clientVars, dispVars, daemonVars
<1>1. CASE Sigterm \/ MainThread \/ GuiThread
  <2>1. UNCHANGED vars /\ UNCHANGED <<portStr, newPort>>
    BY <1>1 DEF Sigterm, MainThread, StopDispatcher, Join, GuiThread
  <2>2. sigterm' \in BOOLEAN /\ shouldStop' \in BOOLEAN
    BY <1>1 DEF Sigterm, MainThread, StopDispatcher, Join, GuiThread
  <2>3. /\ mainPc' \in {"sleep", "joinDispatcher", "joinGui", "joinNet", "exited", "crashed"}
        /\ guiPc' \in {"running", "stopping", "ended"}
    BY <1>1 DEF Sigterm, MainThread, StopDispatcher, Join, GuiThread
  <2> QED
    BY <2>1, <2>2, <2>3 DEF vars
<1>2. CASE DaemonNetThread
  BY <1>2, NetTypeInvStep DEF DaemonNetThread
<1>3. CASE \E c \in Clients : RemoteStep(c)
  <2>1. PICK c \in Clients : ClientStep(c) /\ UNCHANGED <<dispVars, daemonVars>>
    BY <1>3 DEF RemoteStep
  <2>2. WifiInv'
    BY <2>1, ClientStepInv
  <2>3. UNCHANGED <<netPc, receivedData, receivedDataStatus>>
    BY <2>1 DEF ClientStep, Connect, SendRequest, ReadAnswer, Leave, FindClosed
  <2> QED
    BY <2>1, <2>2, <2>3
<1>4. CASE WakeNet
  <2>1. backlog' \in Seq(Peers)
    BY <1>4, AppendProperties DEF WakeNet, Peers
  <2> QED
    BY <1>4, <2>1 DEF WakeNet
<1>5. CASE RestartNet
  <2>1. portStr' \in Ports /\ boundPort' \in Ports \cup {NoPort}
    BY <1>5 DEF RestartNet, chgNetConnectorPort
  <2> QED
    BY <1>5, <2>1 DEF RestartNet
<1>6. CASE PortException
  BY <1>6 DEF PortException, vars
<1>7. CASE CheckStopped \/ NetTurn \/ GuiTurn \/ StopNet \/ StopGui
  BY <1>7, NetTurnTypeStep
<1>8. CASE UNCHANGED allVars
  BY <1>8 DEF allVars, vars
<1> QED
  BY <1>1, <1>2, <1>3, <1>4, <1>5, <1>6, <1>7, <1>8 DEF DaemonNext, Run, DispatcherThread

\* Every variable of the daemon keeps its type through restarts of the network
\* thread, commands of the GUI and the end of the process.
THEOREM DaemonTypeCorrect == DaemonSpec => []DaemonTypeOK
<1>1. TypeInv => DaemonTypeOK
  BY DEF TypeInv
<1> QED
  BY <1>1, DaemonTypeInit, DaemonTypeStep, PTL DEF DaemonSpec
-----------------------------------------------------------------------------
(* The hand-off of the whole daemon *)

\* The dispatcher executes the chg_port of the conversation that is open: it
\* stops and joins the thread that waits for its answer.
JoinsItsClient ==
  /\ netPc = "wait"
  /\ NothingOutstanding
  /\ buf \in Messages
  /\ cmd = buf
  /\ buf.cmd = ChgPort
  /\ dispPc \in {"restart", "wakeOld", "joinOld"}

DaemonHandOff == HandOffInv \/ JoinsItsClient

HandOffOfDaemon == TypeInv /\ DaemonHandOff

\* No request that was taken is lost, an empty line and that chg_port apart
\* (CommandsDispatcherWiFi.cpp 115).
OnlyKnownStrands ==
  Stranded => \/ buf.cmd \in Blank
              \/ buf.cmd = ChgPort /\ dispPc \in {"restart", "wakeOld", "joinOld"}

LEMMA DaemonHandOffInit == DaemonInit => DaemonHandOff
BY HandOffInit DEF DaemonInit, DaemonHandOff

\* A thread that waits without an answer takes no step.
LEMMA JoinedNetBlocked == JoinsItsClient => ~NetThread
BY DEF JoinsItsClient, NothingOutstanding, NetThread, StartRun, Listen, CheckRunStatus, Select,
       Accept, ReceiveEnd, ReceiveRequest, PostRequest, AnnounceRequest, SeeAnswer, SendAnswer,
       CloseListener, FinishRun

\* The steps of the dispatcher thread are those of NetConversation's, or leave
\* the buffers alone.
LEMMA DispatcherThreadSteps ==
  ASSUME DispatcherThread, ~Dispatcher
  PROVE  /\ UNCHANGED <<receivedDataStatus, receivedData, sentData, buf>>
         /\ netPc' = netPc \/ (RestartNet /\ netPc = "ended" /\ netPc' = "starting")
         /\ \/ UNCHANGED dispVars
            \/ ExecuteChgPort /\ dispPc = "exec" /\ dispPc' = "restart" /\ cmd.cmd = ChgPort /\ cmd' = cmd
            \/ /\ dispPc \in {"loop", "others", "stopNet", "wakeNet", "stopGui"}
               /\ dispPc' \in {"restart", "stopNet", "wakeNet", "stopGui", "ended"}
               /\ cmd' = cmd
            \/ dispPc \in {"restart", "wakeOld"} /\ dispPc' \in {"wakeOld", "joinOld"} /\ cmd' = cmd
            \/ RestartNet /\ dispPc = "joinOld" /\ dispPc' = "loop" /\ cmd' = cmd
<1> USE DEF syncVars, wifiVars, netVars, dispVars
<1>1. CASE CheckStopped
  BY <1>1 DEF CheckStopped, Dispatcher
<1>2. CASE NetTurn
  <2>1. ExecuteChgPort
    BY <1>2 DEF NetTurn, ExecuteOther, ExecuteQuit, Dispatcher, NetConnectorTurn
  <2> QED
    BY <2>1 DEF ExecuteChgPort, BeginRestart
<1>3. CASE GuiTurn
  BY <1>3 DEF GuiTurn, Dispatcher, BeginRestart
<1>4. CASE StopNet
  BY <1>4 DEF StopNet, setRunStatus
<1>5. CASE WakeNet
  BY <1>5 DEF WakeNet
<1>6. CASE RestartNet
  BY <1>6 DEF RestartNet
<1>7. CASE PortException
  BY <1>7 DEF PortException, vars
<1>8. CASE StopGui
  BY <1>8 DEF StopGui
<1> QED
  BY <1>1, <1>2, <1>3, <1>4, <1>5, <1>6, <1>7, <1>8 DEF DispatcherThread

LEMMA DispatcherThreadHandOff ==
  ASSUME DaemonHandOff, DispatcherThread
  PROVE  DaemonHandOff'
<1>1. CASE JoinsItsClient
  <2>1. ~Dispatcher
    BY <1>1 DEF JoinsItsClient, Dispatcher, NetConnectorTurn, BeginRound, PollNothing, PollRequest,
                ReadRequest, ExecuteCommand, FinishCopy, OtherConnectorsTurn
  <2>2. ~RestartNet
    BY <1>1 DEF JoinsItsClient, RestartNet
  <2>3. JoinsItsClient'
    BY <1>1, <2>1, <2>2, DispatcherThreadSteps DEF JoinsItsClient, NothingOutstanding, dispVars
  <2> QED
    BY <2>3 DEF DaemonHandOff
<1>2. CASE HandOffInv /\ Dispatcher
  BY <1>2, DispatcherHandOffStep DEF DaemonHandOff
<1>3. CASE HandOffInv /\ ~Dispatcher
  <2> USE DEF HandOffInv, NothingOutstanding, RequestAnnounced, RequestTaken, AnswerOutstanding
  <2>1. /\ UNCHANGED <<receivedDataStatus, receivedData, sentData, buf>>
        /\ netPc' = netPc \/ (netPc = "ended" /\ netPc' = "starting")
    BY <1>3, DispatcherThreadSteps
  <2>2. CASE UNCHANGED dispVars
    BY <1>3, <2>1, <2>2 DEF DaemonHandOff, dispVars
  <2>3. CASE ExecuteChgPort /\ dispPc = "exec" /\ dispPc' = "restart" /\ cmd.cmd = ChgPort /\ cmd' = cmd
    <3>1. netPc = "wait" /\ RequestTaken /\ buf \in Messages /\ cmd = buf
      BY <1>3, <2>3
    <3>2. JoinsItsClient'
      BY <2>1, <2>3, <3>1 DEF JoinsItsClient
    <3> QED
      BY <3>2 DEF DaemonHandOff
  <2>4. CASE /\ dispPc \notin {"taken", "exec", "copy"} /\ dispPc' \notin {"taken", "exec", "copy"}
             /\ cmd' = cmd
    BY <1>3, <2>1, <2>4 DEF DaemonHandOff
  <2> HIDE DEF HandOffInv
  <2> QED
    BY <1>3, <2>2, <2>3, <2>4, DispatcherThreadSteps
<1> QED
  BY <1>1, <1>2, <1>3 DEF DaemonHandOff

LEMMA DaemonHandOffStep ==
  ASSUME HandOffOfDaemon, [DaemonNext]_allVars
  PROVE  HandOffOfDaemon'
<1> USE DEF HandOffOfDaemon
<1>0. TypeInv'
  BY DaemonTypeStep
<1>1. CASE UNCHANGED <<syncVars, netPc, buf, dispVars>>
  BY <1>0, <1>1 DEF DaemonHandOff, HandOffInv, JoinsItsClient, NothingOutstanding, RequestAnnounced,
     RequestTaken, AnswerOutstanding, syncVars, dispVars
<1>2. CASE Sigterm \/ MainThread \/ GuiThread \/ UNCHANGED allVars
  BY <1>1, <1>2 DEF Sigterm, MainThread, StopDispatcher, Join, GuiThread, allVars, vars, wifiVars, netVars
<1>3. CASE DaemonNetThread
  <2>1. NetThread /\ UNCHANGED dispVars
    BY <1>3 DEF DaemonNetThread
  <2>2. WifiInv /\ HandOffInv
    BY <2>1, JoinedNetBlocked DEF DaemonHandOff, TypeInv
  <2> QED
    BY <1>0, <2>1, <2>2, NetHandOffStep DEF DaemonHandOff
<1>4. ASSUME NEW c \in Clients, RemoteStep(c)
      PROVE  HandOffOfDaemon'
  BY <1>1, <1>4, ClientKeepsSlot DEF RemoteStep
<1>5. CASE DispatcherThread
  BY <1>0, <1>5, DispatcherThreadHandOff
<1> QED
  BY <1>2, <1>3, <1>4, <1>5 DEF DaemonNext, Run

LEMMA DaemonHandOffHolds == DaemonSpec => []HandOffOfDaemon
<1>1. DaemonInit => HandOffOfDaemon
  BY DaemonTypeInit, DaemonHandOffInit DEF HandOffOfDaemon
<1> QED
  BY <1>1, DaemonHandOffStep, PTL DEF DaemonSpec

\* Through restarts of the network thread, commands of the GUI and the end of
\* the process the dispatcher executes the request that is waited for.
THEOREM DaemonExecutionCorrect == DaemonSpec => []ExecutesWhatIsAwaited
<1>1. DaemonHandOff => ExecutesWhatIsAwaited
  BY HandOffImplies DEF DaemonHandOff, JoinsItsClient, ExecutesWhatIsAwaited
<1> QED
  BY <1>1, DaemonHandOffHolds, PTL DEF HandOffOfDaemon

\* ... and no answer is left over for a later request, also none that was given
\* to a network thread that has ended since.
THEOREM DaemonAnswerCorrect == DaemonSpec => []AnswerBelongsToRequest
<1>1. DaemonHandOff => AnswerBelongsToRequest
  BY HandOffImplies DEF DaemonHandOff, JoinsItsClient, NothingOutstanding, AnswerBelongsToRequest
<1> QED
  BY <1>1, DaemonHandOffHolds, PTL DEF HandOffOfDaemon

\* A request that the dispatcher has taken is left without an answer in two ways
\* only: it was an empty line, or the chg_port that the dispatcher executes.
THEOREM DaemonStrandedCorrect == DaemonSpec => []OnlyKnownStrands
<1>1. DaemonHandOff => OnlyKnownStrands
  BY HandOffImplies DEF DaemonHandOff, JoinsItsClient, OnlyKnownStrands, OnlyBlankStrands
<1> QED
  BY <1>1, DaemonHandOffHolds, PTL DEF HandOffOfDaemon

\* The network thread that is started again finds the buffers empty.
THEOREM RestartCorrect == DaemonSpec => RestartsClean
<1>1. HandOffOfDaemon /\ [DaemonNext]_allVars =>
        [netPc = "ended" /\ netPc' = "starting" =>
           receivedDataStatus = "NO_NEW_DATA" /\ sentData = NoData]_allVars
  BY DEF HandOffOfDaemon, DaemonHandOff, JoinsItsClient, HandOffInv, NothingOutstanding
<1> QED
  BY <1>1, DaemonHandOffHolds, PTL DEF DaemonSpec, RestartsClean

\* The answer slot and the slot for one request, after a step of the daemon.
LEMMA DaemonStep ==
  ASSUME HandOffOfDaemon, [DaemonNext]_allVars
  PROVE  \/ HandOffInv /\ (NetThread \/ Dispatcher)
         \/ sentData' = sentData /\ UNCHANGED Slot!vars
<1>1. CASE UNCHANGED <<syncVars, netPc, buf>>
  BY <1>1, SlotStutters DEF syncVars
<1>2. CASE Sigterm \/ MainThread \/ GuiThread \/ UNCHANGED allVars
  BY <1>1, <1>2 DEF Sigterm, MainThread, StopDispatcher, Join, GuiThread, allVars, vars, wifiVars, netVars
<1>3. CASE DaemonNetThread
  BY <1>3, JoinedNetBlocked DEF DaemonNetThread, HandOffOfDaemon, DaemonHandOff
<1>4. ASSUME NEW c \in Clients, RemoteStep(c)
      PROVE  UNCHANGED <<syncVars, netPc, buf>>
  BY <1>4, ClientKeepsSlot DEF RemoteStep
<1>5. CASE DispatcherThread /\ ~Dispatcher
  <2>1. UNCHANGED <<sentData, buf>> /\ (netPc' = netPc \/ (netPc = "ended" /\ netPc' = "starting"))
    BY <1>5, DispatcherThreadSteps
  <2> QED
    BY <2>1, SlotStutters
<1>6. CASE Dispatcher
  <2>1. ~JoinsItsClient
    BY <1>6 DEF JoinsItsClient, Dispatcher, NetConnectorTurn, BeginRound, PollNothing, PollRequest,
                ReadRequest, ExecuteCommand, FinishCopy, OtherConnectorsTurn
  <2> QED
    BY <1>6, <2>1 DEF HandOffOfDaemon, DaemonHandOff
<1> QED
  BY <1>1, <1>2, <1>3, <1>4, <1>5, <1>6 DEF DaemonNext, Run

\* No answer is overwritten before it is sent, whatever stops the threads.
THEOREM DaemonAnswerStays == DaemonSpec => AnswerNeverReplaced
<1>1. HandOffOfDaemon /\ [DaemonNext]_allVars =>
        [sentData # NoData => sentData' = NoData \/ sentData'.to = sentData.to]_vars
  BY DaemonStep, NetKeepsAnswer, DispatcherKeepsAnswer
<1> QED
  BY <1>1, DaemonHandOffHolds, PTL DEF DaemonSpec, AnswerNeverReplaced

\* The daemon implements the slot for one request also while its network thread
\* is stopped and started again.
THEOREM DaemonSlotImplemented == DaemonSpec => SlotSafety
<1>1. DaemonInit => Slot!Init
  BY DEF DaemonInit, Init, WifiInit, Slot!Init, slotPhase, slotRequest
<1>2. HandOffOfDaemon /\ [DaemonNext]_allVars => [Slot!Next]_(Slot!vars)
  BY DaemonStep, NetMovesSlot, DispatcherMovesSlot
<1> QED
  BY <1>1, <1>2, DaemonHandOffHolds, PTL DEF DaemonSpec, SlotSafety, Slot!Safety
=============================================================================
