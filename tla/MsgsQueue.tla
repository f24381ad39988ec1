----------------------------- MODULE MsgsQueue -----------------------------
(***************************************************************************)
(* The messages queue between the GUI and the daemon (daemon/MsgsQueue,    *)
(* GuiConnector.cpp, Gui/port_ops.c).  One System V queue and one message  *)
(* type carry the commands of the GUI and the results of the daemon, so    *)
(* whoever receives takes whatever comes next.  Three kinds of processes   *)
(* act: the server thread of the daemon (runQueue()), the dispatcher       *)
(* thread (receiveMsgServer(), sendMsgServer(), deleteQueue()) and the     *)
(* GUIs (sendStrInQueueMsg(), chgPortOfDaemon()).                          *)
(***************************************************************************)
EXTENDS Naturals, Sequences, FiniteSets

CONSTANTS
  Guis,      \* the GUI processes
  Mortal,    \* those that may be killed while they wait
  Commands,  \* the commands they send
  Server,    \* the server thread as a receiver
  None       \* no text

ASSUME MsgsQueueAssumption ==
  /\ IsFiniteSet(Guis)
  /\ Mortal \subseteq Guis
  /\ Server \notin Guis
  /\ None \notin Commands

\* A text is a command, or the result of one.  A text that is no command has
\* the result "ERR", which is the result of None.
Texts == [kind : {"command", "result"}, of : Commands \cup {None}]

ResultOf(text) ==
  [kind |-> "result", of |-> IF text.kind = "command" THEN text.of ELSE None]

VARIABLES
  exists,              \* the queue has not been removed
  queue,               \* the messages nobody has received
  waiting,             \* the receivers blocked in msgrcv(), the first one first
  runingStatus,        \* "RECEIVING", "SENDING" or "STOP"
  receivingMsgStatus,  \* "NO_NEW_MSG" or "HAS_NEW_MSG"
  receivedMsgTxt,      \* the text the dispatcher will read
  serverPc, msg,       \* the server thread and the message it has received
  dispPc, command,     \* the dispatcher and the text it executes
  guiPc,               \* per GUI: "idle", "sent", "blocked" or "killed"
  asked                \* the GUIs that have asked

kernelVars == <<exists, queue, waiting>>
statusVars == <<runingStatus, receivingMsgStatus>>
serverVars == <<serverPc, msg>>
dispVars   == <<dispPc, command>>
guiVars    == <<guiPc, asked>>
queueVars  == <<kernelVars, statusVars, receivedMsgTxt, serverVars, dispVars, guiVars>>

QueueTypeOK ==
  /\ exists \in BOOLEAN
  /\ queue \in Seq(Texts)
  /\ waiting \in Seq(Guis \cup {Server})
  /\ runingStatus \in {"RECEIVING", "SENDING", "STOP"}
  /\ receivingMsgStatus \in {"NO_NEW_MSG", "HAS_NEW_MSG"}
  /\ receivedMsgTxt \in Texts \cup {None}
  /\ serverPc \in {"check", "recv", "blocked", "copy", "announce", "ended"}
  /\ msg \in Texts \cup {None}
  /\ dispPc \in {"poll", "taken", "exec", "send", "sent", "stop", "delete", "ended"}
  /\ command \in Texts \cup {None}
  /\ guiPc \in [Guis -> {"idle", "sent", "blocked", "killed"}]
  /\ asked \subseteq Guis

QueueInit ==
  /\ exists = TRUE
  /\ queue = <<>>
  /\ waiting = <<>>
  /\ runingStatus = "RECEIVING"
  /\ receivingMsgStatus = "NO_NEW_MSG"
  /\ receivedMsgTxt = None
  /\ serverPc = "check" /\ msg = None
  /\ dispPc = "poll" /\ command = None
  /\ guiPc = [g \in Guis |-> "idle"]
  /\ asked = {}
-----------------------------------------------------------------------------
(* The kernel: msgsnd() hands a message to the receiver that has waited    *)
(* longest, msgrcv() takes the oldest message.                             *)

\* Receiver p returns from msgrcv() with the text; states is guiPc as the
\* caller leaves it.
HandTo(p, text, states) ==
  IF p = Server
  THEN serverPc' = "copy" /\ msg' = text /\ guiPc' = states
  ELSE guiPc' = [states EXCEPT ![p] = "idle"] /\ UNCHANGED serverVars

msgsnd(text, states) ==
  \/ /\ waiting = <<>>
     /\ queue' = Append(queue, text)
     /\ guiPc' = states
     /\ UNCHANGED <<waiting, serverVars>>
  \/ /\ waiting # <<>>
     /\ waiting' = Tail(waiting)
     /\ HandTo(Head(waiting), text, states)
     /\ UNCHANGED queue

\* The caller blocks, which sets its own state, when there is no message.
msgrcv(p) ==
  \/ /\ queue = <<>>
     /\ waiting' = Append(waiting, p)
     /\ IF p = Server
        THEN serverPc' = "blocked" /\ UNCHANGED <<msg, guiPc>>
        ELSE guiPc' = [guiPc EXCEPT ![p] = "blocked"] /\ UNCHANGED serverVars
     /\ UNCHANGED queue
  \/ /\ queue # <<>>
     /\ queue' = Tail(queue)
     /\ HandTo(p, Head(queue), guiPc)
     /\ UNCHANGED waiting
-----------------------------------------------------------------------------
(* The server thread, runQueue() *)

\* The loop waits while the dispatcher is sending.
CheckStatus ==
  /\ serverPc = "check"
  /\ \/ runingStatus = "STOP" /\ serverPc' = "ended"
     \/ runingStatus = "RECEIVING" /\ serverPc' = "recv"
  /\ UNCHANGED <<kernelVars, statusVars, receivedMsgTxt, msg, dispVars, guiVars>>

\* The queue is gone: an error other than EIDRM ends the loop.
ReceiveFails ==
  /\ serverPc = "recv"
  /\ ~exists
  /\ serverPc' = "ended"
  /\ UNCHANGED <<kernelVars, statusVars, receivedMsgTxt, msg, dispVars, guiVars>>

ServerReceives ==
  /\ serverPc = "recv"
  /\ exists
  /\ msgrcv(Server)
  /\ UNCHANGED <<exists, statusVars, receivedMsgTxt, dispVars, asked>>

\* Mutant: the status is set before the text is complete.
M_CopyMessage ==
  /\ serverPc = "copy"
  /\ serverPc' = "announce"
  /\ receivedMsgTxt' = msg
  /\ receivingMsgStatus' = "HAS_NEW_MSG"
  /\ UNCHANGED <<kernelVars, runingStatus, msg, dispVars, guiVars>>

\* strcpy() to the buffer of the dispatcher, outside the mutex.
CopyMessage ==
  /\ serverPc = "copy"
  /\ serverPc' = "announce"
  /\ receivedMsgTxt' = msg
  /\ UNCHANGED <<kernelVars, statusVars, msg, dispVars, guiVars>>

AnnounceMessage ==
  /\ serverPc = "announce"
  /\ serverPc' = "check"
  /\ receivingMsgStatus' = "HAS_NEW_MSG"
  /\ msg' = None
  /\ UNCHANGED <<kernelVars, runingStatus, receivedMsgTxt, dispVars, guiVars>>

ServerThread ==
  \/ CheckStatus \/ ReceiveFails \/ ServerReceives \/ CopyMessage \/ AnnounceMessage
-----------------------------------------------------------------------------
(* The dispatcher thread *)

\* receiveMsgServer(): the status under the mutex, the text after it.
PollMessage ==
  /\ dispPc = "poll"
  /\ receivingMsgStatus = "HAS_NEW_MSG"
  /\ receivingMsgStatus' = "NO_NEW_MSG"
  /\ dispPc' = "taken"
  /\ UNCHANGED <<kernelVars, runingStatus, receivedMsgTxt, serverVars, command, guiVars>>

ReadMessage ==
  /\ dispPc = "taken"
  /\ command' = receivedMsgTxt
  /\ dispPc' = "exec"
  /\ UNCHANGED <<kernelVars, statusVars, receivedMsgTxt, serverVars, guiVars>>

\* Mutant: the result is not sent.
M_BeginSending ==
  /\ dispPc = "exec"
  /\ dispPc' = "poll"
  /\ UNCHANGED <<kernelVars, statusVars, receivedMsgTxt, serverVars, command, guiVars>>

\* execCommand(), then sendMsgServer(): SENDING, msgsnd(), RECEIVING.
BeginSending ==
  /\ dispPc = "exec"
  /\ dispPc' = "send"
  /\ runingStatus' = "SENDING"
  /\ UNCHANGED <<kernelVars, receivingMsgStatus, receivedMsgTxt, serverVars, command,
                 guiVars>>

SendResult ==
  /\ dispPc = "send"
  /\ dispPc' = "sent"
  /\ msgsnd(ResultOf(command), guiPc)
  /\ UNCHANGED <<exists, statusVars, receivedMsgTxt, command, asked>>

FinishSending ==
  /\ dispPc = "sent"
  /\ dispPc' = "poll"
  /\ command' = None
  /\ runingStatus' = "RECEIVING"
  /\ UNCHANGED <<kernelVars, receivingMsgStatus, receivedMsgTxt, serverVars, guiVars>>

\* SIGTERM, or "quit" from anyone: the loop ends between two commands.
ToldToStop ==
  /\ dispPc = "poll"
  /\ dispPc' = "stop"
  /\ UNCHANGED <<kernelVars, statusVars, receivedMsgTxt, serverVars, command, guiVars>>

\* deleteMsgsQueue(): the status first ...
StopQueue ==
  /\ dispPc = "stop"
  /\ dispPc' = "delete"
  /\ runingStatus' = "STOP"
  /\ UNCHANGED <<kernelVars, receivingMsgStatus, receivedMsgTxt, serverVars, command,
                 guiVars>>

\* Mutant: the queue is not removed.
M_RemoveQueue ==
  /\ dispPc = "delete"
  /\ dispPc' = "ended"
  /\ UNCHANGED <<kernelVars, statusVars, receivedMsgTxt, serverVars, command, guiVars>>

\* ... then the queue: what it holds is lost, and whoever waits for a message
\* gets EIDRM, the server thread in its loop, a GUI as an empty response.
RemoveQueue ==
  /\ dispPc = "delete"
  /\ dispPc' = "ended"
  /\ exists' = FALSE
  /\ queue' = <<>>
  /\ waiting' = <<>>
  /\ serverPc' = IF serverPc = "blocked" THEN "check" ELSE serverPc
  /\ guiPc' = [g \in Guis |-> IF guiPc[g] = "blocked" THEN "idle" ELSE guiPc[g]]
  /\ UNCHANGED <<statusVars, receivedMsgTxt, msg, command, asked>>

DispatcherWorks ==
  \/ PollMessage \/ ReadMessage \/ BeginSending \/ SendResult \/ FinishSending
  \/ StopQueue \/ RemoveQueue
-----------------------------------------------------------------------------
(* A GUI sends a command and blocks until it receives a message.  Once the *)
(* queue is gone it gets no further than initQueueClient().                *)

GuiAsks(g, c) ==
  /\ guiPc[g] = "idle"
  /\ exists
  /\ asked' = asked \cup {g}
  /\ msgsnd([kind |-> "command", of |-> c], [guiPc EXCEPT ![g] = "sent"])
  /\ UNCHANGED <<exists, statusVars, receivedMsgTxt, dispVars>>

GuiReceives(g) ==
  /\ guiPc[g] = "sent"
  /\ exists
  /\ msgrcv(g)
  /\ UNCHANGED <<exists, statusVars, receivedMsgTxt, dispVars, asked>>

\* msgrcv() fails: the response is the empty string.
GuiFails(g) ==
  /\ guiPc[g] = "sent"
  /\ ~exists
  /\ guiPc' = [guiPc EXCEPT ![g] = "idle"]
  /\ UNCHANGED <<kernelVars, statusVars, receivedMsgTxt, serverVars, dispVars, asked>>

\* The receivers that wait when the i-th of them is forgotten.
WaitingWithout(i) ==
  [j \in 1 .. Len(waiting) - 1 |-> IF j < i THEN waiting[j] ELSE waiting[j + 1]]

\* The user kills a GUI that hangs; the kernel forgets that it waits.
GuiKilled(g) ==
  /\ g \in Mortal
  /\ \/ guiPc[g] = "sent" /\ UNCHANGED waiting
     \/ guiPc[g] = "blocked" /\ \E i \in DOMAIN waiting : waiting[i] = g /\ waiting' = WaitingWithout(i)
  /\ guiPc' = [guiPc EXCEPT ![g] = "killed"]
  /\ UNCHANGED <<exists, queue, statusVars, receivedMsgTxt, serverVars, dispVars, asked>>

Gui(g) ==
  \/ GuiReceives(g) \/ GuiFails(g) \/ GuiKilled(g)
  \/ \E c \in Commands : GuiAsks(g, c)

QueueNext ==
  \/ ServerThread
  \/ DispatcherWorks
  \/ ToldToStop
  \/ \E g \in Guis : Gui(g)

QueueSpec == QueueInit /\ [][QueueNext]_queueVars

\* The threads and the GUIs are run again and again; nothing makes a user give
\* a command, kill a GUI or stop the daemon.
QueueFairness ==
  /\ WF_queueVars(ServerThread)
  /\ WF_queueVars(DispatcherWorks)
  /\ \A g \in Guis : WF_queueVars(GuiReceives(g) \/ GuiFails(g))

QueueFairSpec == QueueSpec /\ QueueFairness
-----------------------------------------------------------------------------
(* Properties *)

Count(b) == IF b THEN 1 ELSE 0

\* The messages under way, wherever they are.
InFlight ==
  Len(queue)
    + Count(serverPc \in {"copy", "announce"})
    + Count(receivingMsgStatus = "HAS_NEW_MSG")
    + Count(dispPc \in {"taken", "exec", "send"})

Waits(g) == guiPc[g] \in {"sent", "blocked"}

\* One GUI has used the queue, and it was not killed.
OneGui == Cardinality(asked) <= 1 /\ \A g \in Guis : guiPc[g] # "killed"

\* Whoever takes a message of the other side passes one on: with one GUI and
\* while the queue is there, one message is under way exactly as long as the
\* GUI waits (MsgsQueueServer.c 174-195).
OneMessageWhileWaiting ==
  exists /\ OneGui => InFlight = Cardinality({g \in Guis : Waits(g)})

\* Messages never multiply: one is under way for each GUI that waits or was
\* killed while it waited, or fewer.
NoSpareMessages ==
  exists => InFlight <= Cardinality({g \in Guis : Waits(g) \/ guiPc[g] = "killed"})

\* With one GUI the text the dispatcher reads after it has released the mutex
\* is not overwritten by the server thread, which copies without the mutex
\* (MsgsQueueServer.c 131, 180).
ReadsStableText ==
  OneGui /\ (dispPc = "taken" \/ receivingMsgStatus = "HAS_NEW_MSG")
    => serverPc \notin {"copy", "announce"}

\* A GUI that is alone gets a response, were it the wrong one.
GuiReturns ==
  []OneGui => \A g \in Guis : Waits(g) ~> ~Waits(g)

\* The thread that the destructor of the dispatcher joins ends, whatever it
\* and the GUIs were doing when the queue was removed.
ServerEnds == dispPc = "stop" ~> serverPc = "ended"
=============================================================================
