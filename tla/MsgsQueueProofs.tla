---------------------------- MODULE MsgsQueueProofs ----------------------------
(***************************************************************************)
(* Proofs about MsgsQueue, for any set of GUIs and of commands: the types, *)
(* who waits in the kernel, and how many messages are under way.           *)
(***************************************************************************)
EXTENDS MsgsQueue, SequenceTheorems, FiniteSetTheorems, TLAPS

\* A text that is announced or executed is one.
TextsHeld ==
  /\ serverPc \in {"copy", "announce"} => msg \in Texts
  /\ serverPc = "announce" \/ receivingMsgStatus = "HAS_NEW_MSG" \/ dispPc = "taken"
       => receivedMsgTxt \in Texts
  /\ dispPc \in {"exec", "send"} => command \in Texts

\* Whoever waits in the kernel is blocked, and waits once.
WaitersBlocked ==
  /\ \A i \in DOMAIN waiting :
       IF waiting[i] = Server THEN serverPc = "blocked" ELSE guiPc[waiting[i]] = "blocked"
  /\ \A i, j \in DOMAIN waiting : waiting[i] = waiting[j] => i = j

TypeInv == QueueTypeOK /\ TextsHeld /\ WaitersBlocked

LEMMA TypeInit == QueueInit => TypeInv
<1> SUFFICES ASSUME QueueInit PROVE TypeInv
  OBVIOUS
<1>1. queue \in Seq(Texts) /\ waiting \in Seq(Guis \cup {Server})
  BY DEF QueueInit
<1> QED
  BY <1>1 DEF QueueInit, TypeInv, QueueTypeOK, TextsHeld, WaitersBlocked

-----------------------------------------------------------------------------
\* A message is handed to one of those that wait, who then waits no more.
LEMMA SendStep ==
  ASSUME TypeInv, NEW text \in Texts, NEW states \in [Guis -> {"idle", "sent", "blocked", "killed"}],
         \A i \in DOMAIN waiting : waiting[i] # Server => states[waiting[i]] = guiPc[waiting[i]],
         msgsnd(text, states)
  PROVE  /\ queue' \in Seq(Texts) /\ waiting' \in Seq(Guis \cup {Server})
         /\ guiPc' \in [Guis -> {"idle", "sent", "blocked", "killed"}]
         /\ serverPc' \in {serverPc, "copy"} /\ msg' \in {msg, text}
         /\ serverPc' = "copy" /\ serverPc # "copy" => msg' = text
         /\ serverPc = serverPc' => msg' = msg
         /\ WaitersBlocked'
<1> USE MsgsQueueAssumption DEF TypeInv, QueueTypeOK, WaitersBlocked
<1>1. CASE waiting = <<>>
  <2>1. Append(queue, text) \in Seq(Texts)
    BY AppendProperties
  <2>2. waiting' = waiting /\ serverPc' = serverPc /\ msg' = msg /\ guiPc' = states
        /\ queue' = Append(queue, text)
    BY <1>1 DEF msgsnd, serverVars
  <2> QED
    BY <1>1, <2>1, <2>2
<1>2. CASE waiting # <<>>
  <2>1. /\ waiting' = Tail(waiting) /\ queue' = queue /\ HandTo(Head(waiting), text, states)
    BY <1>2 DEF msgsnd
  <2>2. /\ Head(waiting) = waiting[1] /\ 1 \in DOMAIN waiting /\ waiting' \in Seq(Guis \cup {Server})
        /\ \A i \in DOMAIN waiting' : /\ i + 1 \in DOMAIN waiting /\ i + 1 # 1
                                      /\ waiting'[i] = waiting[i + 1]
    BY <1>2, <2>1
  <2>3. \A i \in DOMAIN waiting' : waiting'[i] # waiting[1]
    BY <2>2
  <2>4. \A i, j \in DOMAIN waiting' : waiting'[i] = waiting'[j] => i = j
    <3> SUFFICES ASSUME NEW i \in DOMAIN waiting', NEW j \in DOMAIN waiting', waiting'[i] = waiting'[j]
                 PROVE  i = j
      OBVIOUS
    <3>1. i \in Int /\ j \in Int
      BY <2>2
    <3>2. i + 1 = j + 1
      BY <2>2
    <3> QED
      BY <3>1, <3>2
  <2>5. \A i \in DOMAIN waiting' : waiting'[i] \in Guis \cup {Server}
    BY <2>2
  <2>6. CASE waiting[1] = Server
    <3>1. serverPc = "blocked" /\ serverPc' = "copy" /\ msg' = text /\ guiPc' = states
      BY <2>1, <2>2, <2>6 DEF HandTo
    <3>2. \A i \in DOMAIN waiting' : guiPc'[waiting'[i]] = "blocked" /\ waiting'[i] # Server
      BY <2>2, <2>3, <2>6, <3>1
    <3> QED
      BY <2>1, <2>2, <2>4, <3>1, <3>2
  <2>7. CASE waiting[1] # Server
    <3>1. /\ serverPc' = serverPc /\ msg' = msg
          /\ guiPc' = [states EXCEPT ![waiting[1]] = "idle"]
      BY <2>1, <2>2, <2>7 DEF HandTo, serverVars
    <3>2. \A i \in DOMAIN waiting' : waiting'[i] # Server => guiPc'[waiting'[i]] = states[waiting'[i]]
      BY <2>3, <2>5, <3>1
    <3>3. \A i \in DOMAIN waiting' :
            IF waiting'[i] = Server THEN serverPc' = "blocked" ELSE guiPc'[waiting'[i]] = "blocked"
      BY <2>2, <3>1, <3>2
    <3> QED
      BY <2>1, <2>2, <2>4, <3>1, <3>3
  <2> QED
    BY <2>6, <2>7
<1> QED
  BY <1>1, <1>2

\* Who finds no message waits behind the others.
LEMMA ReceiveStep ==
  ASSUME TypeInv, NEW p \in Guis \cup {Server}, msgrcv(p),
         IF p = Server THEN serverPc # "blocked" ELSE guiPc[p] # "blocked"
  PROVE  /\ queue' \in Seq(Texts) /\ waiting' \in Seq(Guis \cup {Server})
         /\ guiPc' \in [Guis -> {"idle", "sent", "blocked", "killed"}]
         /\ IF p = Server
              THEN guiPc' = guiPc /\ serverPc' \in {"blocked", "copy"}
              ELSE serverPc' = serverPc /\ msg' = msg
         /\ serverPc' = "copy" /\ serverPc # "copy" => msg' \in Texts
         /\ msg' \in {msg} \cup Texts
         /\ WaitersBlocked'
<1> USE MsgsQueueAssumption DEF TypeInv, QueueTypeOK, WaitersBlocked
<1>1. CASE queue = <<>>
  <2>1. waiting' = Append(waiting, p) /\ queue' = queue
    BY <1>1 DEF msgrcv
  <2>2. /\ waiting' \in Seq(Guis \cup {Server})
        /\ DOMAIN waiting' = 1 .. Len(waiting) + 1 /\ DOMAIN waiting = 1 .. Len(waiting)
        /\ Len(waiting) \in Nat
        /\ \A i \in 1 .. Len(waiting) : waiting'[i] = waiting[i]
        /\ waiting'[Len(waiting) + 1] = p
    BY <2>1, AppendProperties
  <2>3. \A i \in DOMAIN waiting' : i \in DOMAIN waiting \/ i = Len(waiting) + 1
    BY <2>2
  <2>4. \A i \in DOMAIN waiting : waiting[i] # p
    OBVIOUS
  <2>5. \A i, j \in DOMAIN waiting' : waiting'[i] = waiting'[j] => i = j
    BY <2>2, <2>3, <2>4
  <2>6. \A i \in DOMAIN waiting : waiting[i] \in Guis \cup {Server}
    OBVIOUS
  <2>7. CASE p = Server
    <3>1. serverPc' = "blocked" /\ UNCHANGED <<msg, guiPc>>
      BY <1>1, <2>7 DEF msgrcv
    <3>2. \A i \in DOMAIN waiting' :
            IF waiting'[i] = Server THEN serverPc' = "blocked" ELSE guiPc'[waiting'[i]] = "blocked"
      BY <2>2, <2>3, <2>7, <3>1
    <3> QED
      BY <2>1, <2>2, <2>5, <2>7, <3>1, <3>2
  <2>8. CASE p # Server
    <3>1. UNCHANGED serverVars /\ guiPc' = [guiPc EXCEPT ![p] = "blocked"]
      BY <1>1, <2>8 DEF msgrcv
    <3>2. \A g \in Guis : guiPc[g] = "blocked" => guiPc'[g] = "blocked"
      BY <3>1
    <3>3. \A i \in DOMAIN waiting' :
            IF waiting'[i] = Server THEN serverPc' = "blocked" ELSE guiPc'[waiting'[i]] = "blocked"
      BY <2>2, <2>3, <2>6, <2>8, <3>1, <3>2 DEF serverVars
    <3> QED
      BY <2>1, <2>2, <2>5, <2>8, <3>1, <3>3 DEF serverVars
  <2> QED
    BY <2>7, <2>8
<1>2. CASE queue # <<>>
  <2>1. Head(queue) \in Texts /\ Tail(queue) \in Seq(Texts)
    BY <1>2, HeadTailProperties
  <2>2. queue' = Tail(queue) /\ waiting' = waiting /\ HandTo(p, Head(queue), guiPc)
    BY <1>2 DEF msgrcv
  <2>3. CASE p = Server
    BY <2>1, <2>2, <2>3 DEF HandTo
  <2>4. CASE p # Server
    <3>1. serverPc' = serverPc /\ msg' = msg /\ guiPc' = [guiPc EXCEPT ![p] = "idle"]
      BY <2>2, <2>4 DEF HandTo, serverVars
    <3>2. \A i \in DOMAIN waiting : waiting[i] # p
      BY <2>4
    <3> QED
      BY <2>1, <2>2, <2>4, <3>1, <3>2
  <2> QED
    BY <2>3, <2>4
<1> QED
  BY <1>1, <1>2

\* A GUI that is killed waits no more, and the others as before.
LEMMA KillStep ==
  ASSUME TypeInv, NEW g \in Guis, GuiKilled(g)
  PROVE  TypeInv'
<1> USE MsgsQueueAssumption DEF TypeInv, QueueTypeOK, WaitersBlocked
<1>1. /\ UNCHANGED <<exists, queue, statusVars, receivedMsgTxt, serverVars, dispVars, asked>>
      /\ guiPc' = [guiPc EXCEPT ![g] = "killed"]
  BY DEF GuiKilled
<1>2. \A h \in Guis : h # g => guiPc'[h] = guiPc[h]
  BY <1>1
<1>3. waiting' \in Seq(Guis \cup {Server}) /\ WaitersBlocked'
  <2>1. CASE guiPc[g] = "sent" /\ UNCHANGED waiting
    <3>1. \A i \in DOMAIN waiting : waiting[i] # g
      BY <2>1
    <3> QED
      BY <1>1, <1>2, <2>1, <3>1 DEF serverVars
  <2>2. ASSUME NEW i \in DOMAIN waiting, waiting[i] = g, waiting' = WaitingWithout(i)
        PROVE  waiting' \in Seq(Guis \cup {Server}) /\ WaitersBlocked'
    <3> DEFINE at(j) == IF j < i THEN j ELSE j + 1
    <3>1. /\ Len(waiting) \in Nat /\ i \in 1 .. Len(waiting)
          /\ waiting' = [j \in 1 .. Len(waiting) - 1 |-> waiting[at(j)]]
      BY <2>2 DEF WaitingWithout
    <3>2. \A j \in 1 .. Len(waiting) - 1 : at(j) \in DOMAIN waiting /\ at(j) # i
      BY <3>1
    <3>3. \A j, k \in 1 .. Len(waiting) - 1 : at(j) = at(k) => j = k
      BY <3>1
    <3>4. waiting' \in Seq(Guis \cup {Server})
      <4>1. Len(waiting) - 1 \in Nat
        BY <3>1
      <4>2. \A j \in 1 .. Len(waiting) - 1 : waiting[at(j)] \in Guis \cup {Server}
        BY <3>2
      <4> HIDE DEF at
      <4> QED
        BY <3>1, <4>1, <4>2
    <3>5. DOMAIN waiting' = 1 .. Len(waiting) - 1
          /\ \A j \in 1 .. Len(waiting) - 1 : waiting'[j] = waiting[at(j)]
      BY <3>1
    <3>6. \A j \in 1 .. Len(waiting) - 1 : waiting[at(j)] # g
      BY <2>2, <3>2
    <3>7. \A j \in 1 .. Len(waiting) - 1 : waiting[at(j)] \in Guis \cup {Server}
      BY <3>2
    <3> HIDE DEF at
    <3>8. \A j \in DOMAIN waiting' :
            IF waiting'[j] = Server THEN serverPc' = "blocked" ELSE guiPc'[waiting'[j]] = "blocked"
      BY <1>1, <1>2, <3>2, <3>5, <3>6, <3>7 DEF serverVars
    <3>9. \A j, k \in DOMAIN waiting' : waiting'[j] = waiting'[k] => j = k
      BY <3>2, <3>3, <3>5
    <3> QED
      BY <3>4, <3>8, <3>9
  <2> QED
    BY <2>1, <2>2 DEF GuiKilled
<1>4. QueueTypeOK'
  BY <1>1, <1>3 DEF statusVars, serverVars, dispVars
<1> QED
  BY <1>1, <1>3, <1>4 DEF TextsHeld, statusVars, serverVars, dispVars

LEMMA ServerTypeStep ==
  ASSUME TypeInv, ServerThread
  PROVE  TypeInv'
<1> USE DEF TypeInv, QueueTypeOK, TextsHeld
<1>1. CASE CheckStatus \/ ReceiveFails \/ CopyMessage \/ AnnounceMessage
  <2>1. UNCHANGED <<exists, queue, waiting, dispVars, guiVars>>
        /\ runingStatus' = runingStatus
    BY <1>1 DEF CheckStatus, ReceiveFails, CopyMessage, AnnounceMessage, kernelVars, statusVars
  <2>2. serverPc # "blocked"
    BY <1>1 DEF CheckStatus, ReceiveFails, CopyMessage, AnnounceMessage
  <2>3. WaitersBlocked'
    BY <2>1, <2>2 DEF WaitersBlocked, guiVars
  <2>4. CASE CheckStatus \/ ReceiveFails
    BY <2>1, <2>3, <2>4 DEF CheckStatus, ReceiveFails, statusVars, dispVars, guiVars
  <2>5. CASE CopyMessage
    BY <2>1, <2>3, <2>5 DEF CopyMessage, statusVars, dispVars, guiVars
  <2>6. CASE AnnounceMessage
    BY <2>1, <2>3, <2>6 DEF AnnounceMessage, dispVars, guiVars
  <2> QED
    BY <1>1, <2>4, <2>5, <2>6
<1>2. CASE ServerReceives
  <2>1. /\ msgrcv(Server) /\ serverPc = "recv"
        /\ UNCHANGED <<exists, statusVars, receivedMsgTxt, dispVars, asked>>
    BY <1>2 DEF ServerReceives
  <2>2. /\ queue' \in Seq(Texts) /\ waiting' \in Seq(Guis \cup {Server})
        /\ guiPc' = guiPc /\ serverPc' \in {"blocked", "copy"}
        /\ serverPc' = "copy" => msg' \in Texts
        /\ msg' \in {msg} \cup Texts /\ WaitersBlocked'
    BY <2>1, ReceiveStep
  <2> QED
    BY <2>1, <2>2 DEF statusVars, dispVars
<1> QED
  BY <1>1, <1>2 DEF ServerThread

LEMMA DispatcherTypeStep ==
  ASSUME TypeInv, DispatcherWorks \/ ToldToStop
  PROVE  TypeInv'
<1> USE DEF TypeInv, QueueTypeOK, TextsHeld
<1>1. CASE PollMessage \/ ReadMessage \/ BeginSending \/ FinishSending \/ StopQueue \/ ToldToStop
  <2>1. UNCHANGED <<exists, queue, waiting, receivedMsgTxt, serverVars, guiVars>>
    BY <1>1 DEF PollMessage, ReadMessage, BeginSending, FinishSending, StopQueue, ToldToStop, kernelVars
  <2>2. WaitersBlocked'
    BY <2>1 DEF WaitersBlocked, serverVars, guiVars
  <2>3. CASE PollMessage \/ StopQueue \/ ToldToStop
    BY <2>1, <2>2, <2>3 DEF PollMessage, StopQueue, ToldToStop, statusVars, serverVars, guiVars
  <2>4. CASE ReadMessage
    BY <2>1, <2>2, <2>4 DEF ReadMessage, statusVars, serverVars, guiVars
  <2>5. CASE BeginSending \/ FinishSending
    BY <2>1, <2>2, <2>5 DEF BeginSending, FinishSending, serverVars, guiVars
  <2> QED
    BY <1>1, <2>3, <2>4, <2>5
<1>2. CASE SendResult
  <2>1. /\ msgsnd(ResultOf(command), guiPc) /\ dispPc' = "sent"
        /\ UNCHANGED <<exists, statusVars, receivedMsgTxt, command, asked>>
    BY <1>2 DEF SendResult
  <2>2. ResultOf(command) \in Texts
    BY <1>2 DEF SendResult, ResultOf, Texts
  <2>3. /\ queue' \in Seq(Texts) /\ waiting' \in Seq(Guis \cup {Server})
        /\ guiPc' \in [Guis -> {"idle", "sent", "blocked", "killed"}]
        /\ serverPc' \in {serverPc, "copy"} /\ msg' \in {msg, ResultOf(command)}
        /\ serverPc' = "copy" /\ serverPc # "copy" => msg' = ResultOf(command)
        /\ serverPc = serverPc' => msg' = msg
        /\ WaitersBlocked'
    BY <2>1, <2>2, SendStep
  <2> QED
    BY <2>1, <2>2, <2>3 DEF statusVars
<1>3. CASE RemoveQueue
  <2>1. waiting' = <<>> /\ queue' = <<>> /\ exists' = FALSE /\ dispPc' = "ended"
        /\ UNCHANGED <<statusVars, receivedMsgTxt, msg, command, asked>>
    BY <1>3 DEF RemoveQueue
  <2>2. serverPc' \in {serverPc, "check"}
        /\ guiPc' \in [Guis -> {"idle", "sent", "blocked", "killed"}]
    BY <1>3 DEF RemoveQueue
  <2>3. waiting' \in Seq(Guis \cup {Server}) /\ queue' \in Seq(Texts) /\ WaitersBlocked'
    BY <2>1 DEF WaitersBlocked
  <2> QED
    BY <2>1, <2>2, <2>3 DEF statusVars
<1> QED
  BY <1>1, <1>2, <1>3 DEF DispatcherWorks

LEMMA GuiTypeStep ==
  ASSUME TypeInv, NEW g \in Guis, Gui(g)
  PROVE  TypeInv'
<1> USE MsgsQueueAssumption DEF TypeInv, QueueTypeOK, TextsHeld
<1>1. CASE GuiReceives(g)
  <2>1. /\ msgrcv(g) /\ guiPc[g] = "sent"
        /\ UNCHANGED <<exists, statusVars, receivedMsgTxt, dispVars, asked>>
    BY <1>1 DEF GuiReceives
  <2>2. g # Server
    OBVIOUS
  <2>3. /\ queue' \in Seq(Texts) /\ waiting' \in Seq(Guis \cup {Server})
        /\ guiPc' \in [Guis -> {"idle", "sent", "blocked", "killed"}]
        /\ serverPc' = serverPc /\ msg' = msg /\ WaitersBlocked'
    BY <2>1, <2>2, ReceiveStep
  <2> QED
    BY <2>1, <2>3 DEF statusVars, dispVars
<1>2. CASE GuiFails(g)
  <2>1. /\ guiPc[g] = "sent" /\ guiPc' = [guiPc EXCEPT ![g] = "idle"]
        /\ UNCHANGED <<kernelVars, statusVars, receivedMsgTxt, serverVars, dispVars, asked>>
    BY <1>2 DEF GuiFails
  <2>2. WaitersBlocked'
    BY <2>1 DEF WaitersBlocked, kernelVars, serverVars
  <2> QED
    BY <2>1, <2>2 DEF kernelVars, statusVars, serverVars, dispVars
<1>3. ASSUME NEW c \in Commands, GuiAsks(g, c)
      PROVE  TypeInv'
  <2> DEFINE text == [kind |-> "command", of |-> c]
             states == [guiPc EXCEPT ![g] = "sent"]
  <2>1. /\ msgsnd(text, states) /\ guiPc[g] = "idle" /\ asked' = asked \cup {g}
        /\ UNCHANGED <<exists, statusVars, receivedMsgTxt, dispVars>>
    BY <1>3 DEF GuiAsks
  <2>2. text \in Texts /\ states \in [Guis -> {"idle", "sent", "blocked", "killed"}]
    BY DEF Texts
  <2>3. \A i \in DOMAIN waiting : waiting[i] # Server => states[waiting[i]] = guiPc[waiting[i]]
    BY <2>1 DEF WaitersBlocked
  <2> HIDE DEF text, states
  <2>4. /\ queue' \in Seq(Texts) /\ waiting' \in Seq(Guis \cup {Server})
        /\ guiPc' \in [Guis -> {"idle", "sent", "blocked", "killed"}]
        /\ serverPc' \in {serverPc, "copy"} /\ msg' \in {msg, text}
        /\ serverPc' = "copy" /\ serverPc # "copy" => msg' = text
        /\ serverPc = serverPc' => msg' = msg
        /\ WaitersBlocked'
    BY <2>1, <2>2, <2>3, SendStep
  <2> QED
    BY <2>1, <2>2, <2>4 DEF statusVars, dispVars
<1> QED
  BY <1>1, <1>2, <1>3, KillStep DEF Gui

LEMMA TypeStep ==
  ASSUME TypeInv, [QueueNext]_queueVars
  PROVE  TypeInv'
<1>1. CASE UNCHANGED queueVars
  BY <1>1 DEF TypeInv, QueueTypeOK, TextsHeld, WaitersBlocked, queueVars, kernelVars, statusVars,
              serverVars, dispVars, guiVars
<1> QED
  BY <1>1, ServerTypeStep, DispatcherTypeStep, GuiTypeStep DEF QueueNext

\* Every variable keeps its type, also when GUIs are killed while they wait and
\* when the queue is removed under those that wait for it.
THEOREM QueueTypeCorrect == QueueSpec => []QueueTypeOK
<1>1. TypeInv => QueueTypeOK
  BY DEF TypeInv
<1> QED
  BY <1>1, TypeInit, TypeStep, PTL DEF QueueSpec

-----------------------------------------------------------------------------
(* How many messages are under way.  Each step leaves their number and the  *)
(* GUIs that wait, or were killed while they waited, as they are; or adds   *)
(* one to both; or takes one from both; or loses a message.                 *)

Busy == {g \in Guis : Waits(g) \/ guiPc[g] = "killed"}

\* The messages in the kernel and with the server thread.
Kernel == Len(queue) + Count(serverPc \in {"copy", "announce"})

LEMMA InFlightSum ==
  InFlight = Kernel + Count(receivingMsgStatus = "HAS_NEW_MSG") + Count(dispPc \in {"taken", "exec", "send"})
BY DEF InFlight, Kernel

LEMMA CountsAreNat ==
  ASSUME TypeInv
  PROVE  Kernel \in Nat /\ InFlight \in Nat /\ IsFiniteSet(Busy) /\ Cardinality(Busy) \in Nat
<1>1. IsFiniteSet(Busy) /\ Cardinality(Busy) \in Nat
  BY MsgsQueueAssumption, FS_Subset, FS_CardinalityType DEF Busy
<1>2. Len(queue) \in Nat
  BY DEF TypeInv, QueueTypeOK
<1>3. Kernel \in Nat
  BY <1>2 DEF Kernel, Count
<1>4. InFlight \in Nat
  BY <1>3, InFlightSum DEF Count
<1> QED
  BY <1>1, <1>3, <1>4

\* msgsnd(): one message more, or one that a waiting GUI takes at once.
LEMMA SendCounts ==
  ASSUME TypeInv, NEW text, NEW states, msgsnd(text, states)
  PROVE  \/ Kernel' = Kernel + 1 /\ guiPc' = states
         \/ /\ Kernel' = Kernel
            /\ \E h \in Guis : guiPc[h] = "blocked" /\ guiPc' = [states EXCEPT ![h] = "idle"]
<1> USE MsgsQueueAssumption DEF TypeInv, QueueTypeOK, Kernel, Count
<1>1. CASE waiting = <<>>
  <2>1. Len(queue') = Len(queue) + 1
    BY <1>1, AppendProperties DEF msgsnd
  <2> QED
    BY <1>1, <2>1 DEF msgsnd, serverVars
<1>2. CASE waiting # <<>>
  <2>1. HandTo(Head(waiting), text, states) /\ queue' = queue
    BY <1>2 DEF msgsnd
  <2>2. Head(waiting) = waiting[1] /\ 1 \in DOMAIN waiting /\ waiting[1] \in Guis \cup {Server}
    BY <1>2
  <2>3. CASE waiting[1] = Server
    <3>1. serverPc = "blocked" /\ serverPc' = "copy" /\ guiPc' = states
      BY <2>1, <2>2, <2>3 DEF HandTo, WaitersBlocked
    <3> QED
      BY <2>1, <3>1
  <2>4. CASE waiting[1] # Server
    <3>1. guiPc[waiting[1]] = "blocked"
      BY <2>2, <2>4 DEF WaitersBlocked
    <3>2. UNCHANGED serverVars /\ guiPc' = [states EXCEPT ![waiting[1]] = "idle"]
      BY <2>1, <2>2, <2>4 DEF HandTo
    <3> QED
      BY <2>1, <2>2, <2>4, <3>1, <3>2 DEF serverVars
  <2> QED
    BY <2>3, <2>4
<1> QED
  BY <1>1, <1>2

\* msgrcv(): the server thread keeps what it takes, a GUI has its response.
LEMMA ReceiveCounts ==
  ASSUME TypeInv, NEW p \in Guis \cup {Server}, msgrcv(p), p = Server => serverPc = "recv"
  PROVE  \/ Kernel' = Kernel /\ guiPc' = IF p = Server THEN guiPc ELSE [guiPc EXCEPT ![p] = "blocked"]
         \/ p # Server /\ Kernel' = Kernel - 1 /\ guiPc' = [guiPc EXCEPT ![p] = "idle"]
<1> USE MsgsQueueAssumption DEF TypeInv, QueueTypeOK, Kernel, Count
<1>1. CASE queue = <<>>
  <2>1. queue' = queue
    BY <1>1 DEF msgrcv
  <2>2. CASE p = Server
    BY <1>1, <2>1, <2>2 DEF msgrcv
  <2>3. CASE p # Server
    BY <1>1, <2>1, <2>3 DEF msgrcv, serverVars
  <2> QED
    BY <2>2, <2>3
<1>2. CASE queue # <<>>
  <2>1. Len(queue') = Len(queue) - 1 /\ Len(queue) \in Nat /\ HandTo(p, Head(queue), guiPc)
    BY <1>2, HeadTailProperties DEF msgrcv
  <2>2. CASE p = Server
    BY <2>1, <2>2 DEF HandTo
  <2>3. CASE p # Server
    BY <2>1, <2>3 DEF HandTo, serverVars
  <2> QED
    BY <2>2, <2>3
<1> QED
  BY <1>1, <1>2

Same     == InFlight' = InFlight /\ Busy' = Busy
Adds(g)  == exists /\ g \in asked' /\ g \notin Busy /\ Busy' = Busy \cup {g} /\ InFlight' = InFlight + 1
Takes(g) == g \in Busy /\ Busy' = Busy \ {g} /\ InFlight' = InFlight - 1
Swaps(g, h) == g \in asked' /\ g \notin Busy /\ h \in Busy /\ Busy' = (Busy \cup {g}) \ {h} /\ InFlight' = InFlight
Overwrites  == InFlight > 1 /\ InFlight' = InFlight - 1 /\ Busy' = Busy
Removes     == ~exists' /\ InFlight' <= InFlight /\ Busy' \subseteq Busy

Effect ==
  \/ Same \/ Overwrites \/ Removes
  \/ \E g \in Guis : Adds(g) \/ Takes(g) \/ \E h \in Guis : Swaps(g, h)

LEMMA ServerEffect ==
  ASSUME TypeInv, ServerThread
  PROVE  Effect
<1> USE DEF TypeInv, QueueTypeOK
<1>1. CASE CheckStatus \/ ReceiveFails \/ CopyMessage
  <2>1. UNCHANGED <<queue, receivingMsgStatus, dispPc, guiPc>>
    BY <1>1 DEF CheckStatus, ReceiveFails, CopyMessage, kernelVars, statusVars, dispVars, guiVars
  <2>2. serverPc \in {"copy", "announce"} <=> serverPc' \in {"copy", "announce"}
    BY <1>1 DEF CheckStatus, ReceiveFails, CopyMessage
  <2> QED
    BY <2>1, <2>2 DEF Effect, Same, InFlight, Count, Busy, Waits
<1>2. CASE ServerReceives
  <2>1. msgrcv(Server) /\ serverPc = "recv" /\ UNCHANGED <<receivingMsgStatus, dispPc>>
    BY <1>2 DEF ServerReceives, statusVars, dispVars
  <2>2. Kernel' = Kernel /\ guiPc' = guiPc
    BY <2>1, ReceiveCounts
  <2> QED
    BY <2>1, <2>2, InFlightSum DEF Effect, Same, Count, Busy, Waits, InFlight, Kernel
<1>3. CASE AnnounceMessage
  <2>1. UNCHANGED <<queue, dispPc, guiPc>> /\ serverPc = "announce" /\ serverPc' = "check"
        /\ receivingMsgStatus' = "HAS_NEW_MSG"
    BY <1>3 DEF AnnounceMessage, kernelVars, dispVars, guiVars
  <2>2. Busy' = Busy
    BY <2>1 DEF Busy, Waits
  <2>3. CASE receivingMsgStatus = "HAS_NEW_MSG"
    <3>1. InFlight > 1 /\ InFlight' = InFlight - 1
      BY <2>1, <2>3 DEF InFlight, Count
    <3> QED
      BY <2>2, <3>1 DEF Effect, Overwrites
  <2>4. CASE receivingMsgStatus # "HAS_NEW_MSG"
    <3>1. InFlight' = InFlight
      BY <2>1, <2>4 DEF InFlight, Count
    <3> QED
      BY <2>2, <3>1 DEF Effect, Same
  <2> QED
    BY <2>3, <2>4
<1> QED
  BY <1>1, <1>2, <1>3 DEF ServerThread

LEMMA DispatcherEffect ==
  ASSUME TypeInv, DispatcherWorks \/ ToldToStop
  PROVE  Effect
<1> USE DEF TypeInv, QueueTypeOK
<1>1. CASE PollMessage \/ ReadMessage \/ BeginSending \/ FinishSending \/ StopQueue \/ ToldToStop
  <2>1. UNCHANGED <<queue, serverPc, guiPc>>
    BY <1>1 DEF PollMessage, ReadMessage, BeginSending, FinishSending, StopQueue, ToldToStop,
                kernelVars, serverVars, guiVars
  <2>2. Busy' = Busy /\ Kernel' = Kernel
    BY <2>1 DEF Busy, Waits, Kernel
  <2>3. Count(receivingMsgStatus = "HAS_NEW_MSG")' + Count(dispPc \in {"taken", "exec", "send"})'
          = Count(receivingMsgStatus = "HAS_NEW_MSG") + Count(dispPc \in {"taken", "exec", "send"})
    BY <1>1 DEF PollMessage, ReadMessage, BeginSending, FinishSending, StopQueue, ToldToStop,
                statusVars, Count
  <2> DEFINE A == Count(receivingMsgStatus = "HAS_NEW_MSG")
             B == Count(dispPc \in {"taken", "exec", "send"})
  <2>4. InFlight = Kernel + A + B /\ InFlight' = Kernel' + A' + B'
    BY DEF InFlight, Kernel
  <2>5. Kernel \in Nat /\ A \in {0, 1} /\ B \in {0, 1} /\ A' \in {0, 1} /\ B' \in {0, 1}
    BY CountsAreNat DEF Count
  <2>6. A' + B' = A + B
    BY <2>3
  <2> HIDE DEF A, B
  <2>7. InFlight' = Kernel + (A' + B') /\ InFlight = Kernel + (A + B)
    BY <2>2, <2>4, <2>5
  <2>8. InFlight' = InFlight
    BY <2>6, <2>7
  <2> QED
    BY <2>2, <2>8 DEF Effect, Same
<1>2. CASE SendResult
  <2>1. /\ msgsnd(ResultOf(command), guiPc) /\ dispPc = "send" /\ dispPc' = "sent"
        /\ receivingMsgStatus' = receivingMsgStatus
    BY <1>2 DEF SendResult, statusVars
  <2>2. InFlight = Kernel + Count(receivingMsgStatus = "HAS_NEW_MSG") + 1
        /\ InFlight' = Kernel' + Count(receivingMsgStatus = "HAS_NEW_MSG")
        /\ Kernel \in Nat /\ Count(receivingMsgStatus = "HAS_NEW_MSG") \in Nat
    BY <2>1, CountsAreNat DEF InFlight, Kernel, Count
  <2>3. CASE Kernel' = Kernel + 1 /\ guiPc' = guiPc
    <3>1. InFlight' = InFlight
      BY <2>2, <2>3
    <3>2. Busy' = Busy
      BY <2>3 DEF Busy, Waits
    <3> QED
      BY <3>1, <3>2 DEF Effect, Same
  <2>4. ASSUME Kernel' = Kernel, NEW h \in Guis, guiPc[h] = "blocked", guiPc' = [guiPc EXCEPT ![h] = "idle"]
        PROVE  Effect
    <3>1. InFlight' = InFlight - 1
      BY <2>2, <2>4
    <3>2. h \in Busy /\ Busy' = Busy \ {h}
      BY <2>4 DEF Busy, Waits
    <3> QED
      BY <3>1, <3>2 DEF Effect, Takes
  <2> QED
    BY <2>1, <2>3, <2>4, SendCounts
<1>3. CASE RemoveQueue
  <2>1. exists' = FALSE /\ dispPc = "delete" /\ dispPc' = "ended" /\ receivingMsgStatus' = receivingMsgStatus
    BY <1>3 DEF RemoveQueue, statusVars
  <2>2. Kernel' <= Kernel
    <3>1. Len(queue) \in Nat /\ Len(queue') = 0
      BY <1>3 DEF RemoveQueue
    <3>2. serverPc' \in {"copy", "announce"} => serverPc \in {"copy", "announce"}
      BY <1>3 DEF RemoveQueue
    <3> QED
      BY <3>1, <3>2 DEF Kernel, Count
  <2>3. InFlight = Kernel + Count(receivingMsgStatus = "HAS_NEW_MSG")
        /\ InFlight' = Kernel' + Count(receivingMsgStatus = "HAS_NEW_MSG")
        /\ Kernel \in Nat
    BY <2>1, CountsAreNat DEF InFlight, Kernel, Count
  <2>4. Kernel' \in Nat
    BY <1>3 DEF RemoveQueue, Kernel, Count
  <2>5. InFlight' <= InFlight
    <3>1. Count(receivingMsgStatus = "HAS_NEW_MSG") \in {0, 1}
      BY DEF Count
    <3> QED
      BY ONLY <2>2, <2>3, <2>4, <3>1
  <2>6. Busy' \subseteq Busy
    BY <1>3 DEF RemoveQueue, Busy, Waits
  <2> QED
    BY <2>1, <2>5, <2>6 DEF Effect, Removes
<1> QED
  BY <1>1, <1>2, <1>3 DEF DispatcherWorks

LEMMA GuiEffect ==
  ASSUME TypeInv, NEW g \in Guis, Gui(g)
  PROVE  Effect
<1> USE MsgsQueueAssumption DEF TypeInv, QueueTypeOK
<1>1. UNCHANGED <<receivingMsgStatus, dispPc>> /\ exists' = exists
  BY DEF Gui, GuiReceives, GuiFails, GuiKilled, GuiAsks, kernelVars, statusVars, dispVars
<1>2. /\ InFlight = Kernel + (Count(receivingMsgStatus = "HAS_NEW_MSG") + Count(dispPc \in {"taken", "exec", "send"}))
      /\ InFlight' = Kernel' + (Count(receivingMsgStatus = "HAS_NEW_MSG") + Count(dispPc \in {"taken", "exec", "send"}))
      /\ Kernel \in Nat
      /\ Count(receivingMsgStatus = "HAS_NEW_MSG") + Count(dispPc \in {"taken", "exec", "send"}) \in Nat
  <2>1. TypeInv'
    BY GuiTypeStep
  <2>2. Len(queue) \in Nat /\ Len(queue') \in Nat
    BY <2>1
  <2> DEFINE A == Count(receivingMsgStatus = "HAS_NEW_MSG")
             B == Count(dispPc \in {"taken", "exec", "send"})
  <2>3. InFlight = Kernel + A + B /\ InFlight' = Kernel' + A + B
    BY <1>1 DEF InFlight, Kernel
  <2>4. Kernel \in Nat /\ Kernel' \in Nat /\ A \in {0, 1} /\ B \in {0, 1}
    BY <2>2 DEF Kernel, Count
  <2> HIDE DEF A, B
  <2>5. InFlight = Kernel + (A + B) /\ InFlight' = Kernel' + (A + B) /\ A + B \in Nat
    BY ONLY <2>3, <2>4
  <2> QED
    BY <2>4, <2>5 DEF A, B
<1>3. CASE GuiReceives(g)
  <2>1. msgrcv(g) /\ guiPc[g] = "sent" /\ g # Server
    BY <1>3 DEF GuiReceives
  <2>2. CASE Kernel' = Kernel /\ guiPc' = [guiPc EXCEPT ![g] = "blocked"]
    <3>1. Busy' = Busy
      BY <2>1, <2>2 DEF Busy, Waits
    <3>2. InFlight' = InFlight
      BY <1>2, <2>2
    <3> QED
      BY <3>1, <3>2 DEF Effect, Same
  <2>3. CASE Kernel' = Kernel - 1 /\ guiPc' = [guiPc EXCEPT ![g] = "idle"]
    <3>1. g \in Busy /\ Busy' = Busy \ {g}
      BY <2>1, <2>3 DEF Busy, Waits
    <3>2. InFlight' = InFlight - 1
      BY <1>2, <2>3
    <3> QED
      BY <3>1, <3>2 DEF Effect, Takes
  <2> QED
    BY <2>1, <2>2, <2>3, ReceiveCounts
<1>4. CASE GuiFails(g)
  <2>1. /\ ~exists /\ UNCHANGED <<queue, serverPc>> /\ guiPc[g] = "sent"
        /\ guiPc' = [guiPc EXCEPT ![g] = "idle"]
    BY <1>4 DEF GuiFails, kernelVars, serverVars
  <2>2. Busy' \subseteq Busy
    BY <2>1 DEF Busy, Waits
  <2>3. InFlight' = InFlight /\ InFlight \in Nat
    BY <1>2, <2>1 DEF Kernel
  <2> QED
    BY <1>1, <2>1, <2>2, <2>3 DEF Effect, Removes
<1>5. CASE GuiKilled(g)
  <2>1. /\ UNCHANGED <<queue, serverPc>> /\ guiPc[g] \in {"sent", "blocked"}
        /\ guiPc' = [guiPc EXCEPT ![g] = "killed"]
    BY <1>5 DEF GuiKilled, serverVars
  <2>2. Busy' = Busy
    BY <2>1 DEF Busy, Waits
  <2>3. InFlight' = InFlight
    BY <1>2, <2>1 DEF Kernel
  <2> QED
    BY <2>2, <2>3 DEF Effect, Same
<1>6. ASSUME NEW c \in Commands, GuiAsks(g, c)
      PROVE  Effect
  <2> DEFINE states == [guiPc EXCEPT ![g] = "sent"]
  <2>1. /\ msgsnd([kind |-> "command", of |-> c], states) /\ guiPc[g] = "idle" /\ exists /\ g \in asked'
    BY <1>6 DEF GuiAsks
  <2>2. g \notin Busy
    BY <2>1 DEF Busy, Waits
  <2>3. CASE Kernel' = Kernel + 1 /\ guiPc' = states
    <3>1. Busy' = Busy \cup {g}
      BY <2>1, <2>3 DEF Busy, Waits
    <3>2. InFlight' = InFlight + 1
      BY <1>2, <2>3
    <3> QED
      BY <2>1, <2>2, <3>1, <3>2 DEF Effect, Adds
  <2>4. ASSUME Kernel' = Kernel, NEW h \in Guis, guiPc[h] = "blocked", guiPc' = [states EXCEPT ![h] = "idle"]
        PROVE  Effect
    <3>1. h \in Busy /\ Busy' = (Busy \cup {g}) \ {h}
      BY <2>1, <2>4 DEF Busy, Waits
    <3>2. InFlight' = InFlight
      BY <1>2, <2>4
    <3> QED
      BY <2>1, <2>2, <3>1, <3>2 DEF Effect, Swaps
  <2> HIDE DEF states
  <2> QED
    BY <2>1, <2>3, <2>4, SendCounts
<1> QED
  BY <1>3, <1>4, <1>5, <1>6 DEF Gui

\* With one GUI there is at most one message, also while the queue is removed.
OneAtMost == OneGui => InFlight <= 1

BusyAsked == asked \subseteq Guis /\ Busy \subseteq asked

CountInv == TypeInv /\ NoSpareMessages /\ OneMessageWhileWaiting /\ OneAtMost /\ BusyAsked

\* Nobody that was killed comes back, and who has asked has asked.
LEMMA OnceAsked ==
  ASSUME TypeInv, QueueNext
  PROVE  /\ \A g \in Guis : guiPc[g] = "killed" => guiPc'[g] = "killed"
         /\ asked \subseteq asked' /\ asked' \subseteq asked \cup Guis
         /\ exists' => exists
<1> USE MsgsQueueAssumption DEF TypeInv, QueueTypeOK
<1>1. CASE ServerThread
  <2>1. UNCHANGED <<exists, guiPc, asked>>
    <3>1. CASE ServerReceives
      <4>1. msgrcv(Server) /\ serverPc = "recv" /\ UNCHANGED <<exists, asked>>
        BY <3>1 DEF ServerReceives
      <4> QED
        BY <4>1, ReceiveCounts
    <3>2. CASE ~ServerReceives
      BY <1>1, <3>2 DEF ServerThread, CheckStatus, ReceiveFails, CopyMessage, AnnounceMessage,
                        kernelVars, guiVars
    <3> QED
      BY <3>1, <3>2
  <2> QED
    BY <2>1
<1>2. CASE DispatcherWorks \/ ToldToStop
  <2>1. asked' = asked /\ (exists' => exists)
    BY <1>2 DEF DispatcherWorks, ToldToStop, PollMessage, ReadMessage, BeginSending, SendResult,
                FinishSending, StopQueue, RemoveQueue, kernelVars, guiVars
  <2>2. CASE SendResult
    <3>1. msgsnd(ResultOf(command), guiPc)
      BY <2>2 DEF SendResult
    <3>2. guiPc' = guiPc \/ \E h \in Guis : guiPc[h] = "blocked" /\ guiPc' = [guiPc EXCEPT ![h] = "idle"]
      BY <3>1, SendCounts
    <3> QED
      BY <2>1, <3>2
  <2>3. CASE RemoveQueue
    BY <2>1, <2>3 DEF RemoveQueue
  <2>4. CASE ~SendResult /\ ~RemoveQueue
    BY <1>2, <2>1, <2>4 DEF DispatcherWorks, ToldToStop, PollMessage, ReadMessage, BeginSending,
                            FinishSending, StopQueue, guiVars
  <2> QED
    BY <2>2, <2>3, <2>4
<1>3. ASSUME NEW g \in Guis, Gui(g)
      PROVE  /\ \A b \in Guis : guiPc[b] = "killed" => guiPc'[b] = "killed"
             /\ asked \subseteq asked' /\ asked' \subseteq asked \cup Guis
             /\ exists' => exists
  <2>1. exists' = exists /\ asked \subseteq asked' /\ asked' \subseteq asked \cup Guis
    BY <1>3 DEF Gui, GuiReceives, GuiFails, GuiKilled, GuiAsks, kernelVars
  <2>2. CASE GuiFails(g) \/ GuiKilled(g)
    BY <2>1, <2>2 DEF GuiFails, GuiKilled
  <2>3. CASE GuiReceives(g)
    <3>1. msgrcv(g) /\ g # Server /\ guiPc[g] = "sent"
      BY <2>3 DEF GuiReceives
    <3>2. \E place : guiPc' = [guiPc EXCEPT ![g] = place]
      BY <3>1, ReceiveCounts
    <3> QED
      BY <2>1, <3>1, <3>2
  <2>4. ASSUME NEW c \in Commands, GuiAsks(g, c)
        PROVE  \A b \in Guis : guiPc[b] = "killed" => guiPc'[b] = "killed"
    <3> DEFINE states == [guiPc EXCEPT ![g] = "sent"]
    <3>1. msgsnd([kind |-> "command", of |-> c], states) /\ guiPc[g] = "idle"
      BY <2>4 DEF GuiAsks
    <3>2. \A b \in Guis : guiPc[b] = "killed" => states[b] = "killed"
      BY <3>1
    <3>3. guiPc' = states \/ \E h \in Guis : guiPc[h] = "blocked" /\ guiPc' = [states EXCEPT ![h] = "idle"]
      BY <3>1, SendCounts
    <3>4. states \in [Guis -> {"idle", "sent", "blocked", "killed"}]
      OBVIOUS
    <3> HIDE DEF states
    <3> QED
      BY <3>2, <3>3, <3>4
  <2> QED
    BY <1>3, <2>1, <2>2, <2>3, <2>4 DEF Gui
<1> QED
  BY <1>1, <1>2, <1>3 DEF QueueNext

\* One more that is busy, one less, or another one.
LEMMA BusyCounts ==
  ASSUME TypeInv, NEW g \in Guis, NEW h \in Guis
  PROVE  /\ g \notin Busy => Cardinality(Busy \cup {g}) = Cardinality(Busy) + 1
         /\ g \in Busy => Cardinality(Busy \ {g}) = Cardinality(Busy) - 1
         /\ g \notin Busy /\ h \in Busy =>
              Cardinality((Busy \cup {g}) \ {h}) = Cardinality(Busy)
<1>1. IsFiniteSet(Busy) /\ Cardinality(Busy) \in Nat
  BY CountsAreNat
<1>2. g \notin Busy => IsFiniteSet(Busy \cup {g}) /\ Cardinality(Busy \cup {g}) = Cardinality(Busy) + 1
  BY <1>1, FS_AddElement
<1>3. g \in Busy => Cardinality(Busy \ {g}) = Cardinality(Busy) - 1
  BY <1>1, FS_RemoveElement
<1>4. ASSUME g \notin Busy, h \in Busy
      PROVE  Cardinality((Busy \cup {g}) \ {h}) = Cardinality(Busy)
  <2>1. h \in Busy \cup {g}
    BY <1>4
  <2>2. Cardinality((Busy \cup {g}) \ {h}) = Cardinality(Busy \cup {g}) - 1
    BY <1>2, <1>4, <2>1, FS_RemoveElement
  <2> QED
    BY <1>1, <1>2, <1>4, <2>2
<1> QED
  BY <1>2, <1>3, <1>4

LEMMA CountStep ==
  ASSUME CountInv, QueueNext
  PROVE  CountInv'
<1> USE DEF CountInv
<1>1. TypeInv'
  BY TypeStep
<1>2. Effect
  BY ServerEffect, DispatcherEffect, GuiEffect DEF QueueNext
<1>3. /\ InFlight \in Nat /\ Cardinality(Busy) \in Nat
      /\ exists => InFlight <= Cardinality(Busy)
  BY CountsAreNat DEF NoSpareMessages, Busy
<1>4. IsFiniteSet(Busy') /\ IsFiniteSet(asked') /\ asked' \subseteq Guis
  <2>1. Busy' \subseteq Guis /\ asked' \subseteq Guis
    BY OnceAsked DEF Busy, BusyAsked
  <2> QED
    BY <2>1, MsgsQueueAssumption, FS_Subset
<1>5. BusyAsked'
  BY <1>2, <1>4, OnceAsked
  DEF BusyAsked, Effect, Same, Adds, Takes, Swaps, Overwrites, Removes
<1>6. Cardinality(Busy') \in Nat /\ Cardinality(asked') \in Nat /\ Cardinality(Busy') <= Cardinality(asked')
  <2>1. Busy' \in SUBSET asked'
    BY <1>5 DEF BusyAsked
  <2> QED
    BY <1>4, <2>1, FS_Subset, FS_CardinalityType
<1>7. ASSUME OneGui' PROVE OneGui
  <2>1. asked \in SUBSET asked'
    BY OnceAsked
  <2>2. IsFiniteSet(asked) /\ Cardinality(asked) <= Cardinality(asked') /\ Cardinality(asked) \in Nat
    BY <1>4, <2>1, FS_Subset, FS_CardinalityType
  <2>3. Cardinality(asked') <= 1
    BY <1>7 DEF OneGui
  <2>4. \A g \in Guis : guiPc[g] # "killed"
    BY <1>7, OnceAsked DEF OneGui
  <2> QED
    BY <1>6, <2>2, <2>3, <2>4 DEF OneGui
<1>8. ASSUME OneGui' PROVE {g \in Guis : Waits(g)}' = Busy'
  BY <1>8 DEF OneGui, Busy
<1>9. ASSUME OneGui PROVE exists => InFlight = Cardinality(Busy)
  <2>1. {g \in Guis : Waits(g)} = Busy
    BY <1>9 DEF OneGui, Busy
  <2> QED
    BY <1>9, <2>1 DEF OneMessageWhileWaiting
<1>10. /\ exists' => exists
       /\ OneGui' => InFlight <= 1
  BY <1>7, OnceAsked DEF OneAtMost
<1>11. /\ exists' => InFlight' <= Cardinality(Busy')
       /\ exists' /\ OneGui' => InFlight' = Cardinality(Busy')
       /\ OneGui' => InFlight' <= 1
  <2>1. CASE Same
    BY <1>3, <1>7, <1>9, <1>10, <2>1 DEF Same
  <2>2. CASE Overwrites
    BY <1>3, <1>7, <1>9, <1>10, <2>2 DEF Overwrites
  <2>3. CASE Removes
    <3>1. InFlight' \in Nat
      <4>1. Len(queue') \in Nat
        BY <1>1 DEF TypeInv, QueueTypeOK
      <4> DEFINE A == Count(serverPc \in {"copy", "announce"})
                 B == Count(receivingMsgStatus = "HAS_NEW_MSG")
                 C == Count(dispPc \in {"taken", "exec", "send"})
      <4>2. A' \in {0, 1} /\ B' \in {0, 1} /\ C' \in {0, 1}
        BY DEF Count
      <4>3. InFlight' = Len(queue') + A' + B' + C'
        BY DEF InFlight
      <4> HIDE DEF A, B, C
      <4> QED
        BY ONLY <4>1, <4>2, <4>3
    <3>2. OneGui' => InFlight' <= 1
      BY <1>3, <1>10, <2>3, <3>1 DEF Removes
    <3> QED
      BY <2>3, <3>2 DEF Removes
  <2>4. ASSUME NEW g \in Guis, Adds(g)
        PROVE  /\ exists' => InFlight' <= Cardinality(Busy')
               /\ exists' /\ OneGui' => InFlight' = Cardinality(Busy')
               /\ OneGui' => InFlight' <= 1
    <3>1. Cardinality(Busy') = Cardinality(Busy) + 1 /\ InFlight' = InFlight + 1 /\ exists
      BY <2>4, BusyCounts DEF Adds
    <3>2. OneGui' => InFlight = Cardinality(Busy)
      BY <1>7, <1>9, <3>1
    <3>3. OneGui' => Cardinality(Busy') <= 1
      <4>1. OneGui' => Cardinality(asked') <= 1
        BY DEF OneGui
      <4> QED
        BY <1>6, <4>1
    <3> QED
      BY <1>3, <3>1, <3>2, <3>3
  <2>5. ASSUME NEW g \in Guis, Takes(g)
        PROVE  /\ exists' => InFlight' <= Cardinality(Busy')
               /\ exists' /\ OneGui' => InFlight' = Cardinality(Busy')
               /\ OneGui' => InFlight' <= 1
    <3>1. Cardinality(Busy') = Cardinality(Busy) - 1 /\ InFlight' = InFlight - 1
      BY <2>5, BusyCounts DEF Takes
    <3> QED
      BY <1>3, <1>7, <1>9, <1>10, <3>1
  <2>6. ASSUME NEW g \in Guis, NEW h \in Guis, Swaps(g, h)
        PROVE  /\ exists' => InFlight' <= Cardinality(Busy')
               /\ exists' /\ OneGui' => InFlight' = Cardinality(Busy')
               /\ OneGui' => InFlight' <= 1
    <3>1. Cardinality(Busy') = Cardinality(Busy) /\ InFlight' = InFlight
      BY <2>6, BusyCounts DEF Swaps
    <3> QED
      BY <1>3, <1>7, <1>9, <1>10, <3>1
  <2> QED
    BY <1>2, <2>1, <2>2, <2>3, <2>4, <2>5, <2>6 DEF Effect
<1>12. NoSpareMessages' /\ OneMessageWhileWaiting' /\ OneAtMost'
  BY <1>8, <1>11 DEF NoSpareMessages, OneMessageWhileWaiting, OneAtMost, Busy
<1> QED
  BY <1>1, <1>5, <1>12

THEOREM CountInvariance == QueueSpec => []CountInv
<1>1. QueueInit => CountInv
  <2> SUFFICES ASSUME QueueInit PROVE CountInv
    OBVIOUS
  <2>1. Busy = {} /\ {g \in Guis : Waits(g)} = {} /\ asked = {}
    BY DEF QueueInit, Busy, Waits
  <2>2. InFlight = 0
    BY DEF QueueInit, InFlight, Count
  <2> QED
    BY <2>1, <2>2, TypeInit, FS_EmptySet
    DEF CountInv, NoSpareMessages, OneMessageWhileWaiting, OneAtMost, BusyAsked, Busy
<1>2. CountInv /\ [QueueNext]_queueVars => CountInv'
  <2>1. ASSUME CountInv, UNCHANGED queueVars PROVE CountInv'
    <3>1. TypeInv'
      BY <2>1, TypeStep DEF CountInv
    <3> QED
      BY <2>1, <3>1 DEF CountInv, NoSpareMessages, OneMessageWhileWaiting, OneAtMost, BusyAsked, Busy,
         InFlight, OneGui, Waits, queueVars, kernelVars, statusVars, serverVars, dispVars, guiVars
  <2> QED
    BY <2>1, CountStep
<1> QED
  BY <1>1, <1>2, PTL DEF QueueSpec

\* Messages never multiply, however many GUIs ask, wait and are killed.
THEOREM NoSpareCorrect == QueueSpec => []NoSpareMessages
BY CountInvariance, PTL DEF CountInv

\* A GUI that is alone has exactly one message under way while it waits.
THEOREM OneMessageCorrect == QueueSpec => []OneMessageWhileWaiting
BY CountInvariance, PTL DEF CountInv

\* The text the dispatcher reads outside the mutex is stable with one GUI.
THEOREM StableTextCorrect == QueueSpec => []ReadsStableText
<1>1. CountInv => ReadsStableText
  <2> SUFFICES ASSUME CountInv, OneGui, dispPc = "taken" \/ receivingMsgStatus = "HAS_NEW_MSG",
                      serverPc \in {"copy", "announce"}
               PROVE  FALSE
    BY DEF ReadsStableText
  <2>1. InFlight <= 1
    BY DEF CountInv, OneAtMost
  <2>2. Len(queue) \in Nat
    BY DEF CountInv, TypeInv, QueueTypeOK
  <2>3. InFlight > 1
    BY <2>2 DEF InFlight, Count
  <2>4. InFlight \in Nat
    BY CountsAreNat DEF CountInv
  <2> QED
    BY <2>1, <2>3, <2>4
<1> QED
  BY <1>1, CountInvariance, PTL
===============================================================================
