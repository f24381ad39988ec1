----------------------------- MODULE DaemonWiFi -----------------------------
(***************************************************************************)
(* The WiFi daemon as a process: the main thread that waits for SIGTERM    *)
(* (daemon/src/Daemon.cpp), the dispatcher thread with the two commands    *)
(* that act on the daemon itself, "quit" and "chg_port"                    *)
(* (CommandsDispatcher.cpp, CommandsDispatcherWiFi.cpp), the network       *)
(* thread it stops, joins and starts again, and the GUI thread.  The       *)
(* commands of the network clients go through NetConversation.             *)
(*                                                                         *)
(* The GUI thread is seen from the dispatcher: it may bring a command on   *)
(* any turn, and it ends once its queue is deleted.                        *)
(***************************************************************************)
EXTENDS NetConversation

CONSTANTS
  Quit,     \* the request "quit"
  ChgPort,  \* the request "chg_port ..."
  BadPort   \* a parameter of chg_port that is not a port number

ASSUME DaemonAssumption ==
  /\ Quit \notin Blank \cup Long
  /\ ChgPort \notin Blank
  /\ BadPort \notin Ports

VARIABLES
  mainPc,      \* the place of the main thread
  sigterm,     \* Daemon.cpp's stop: SIGTERM has arrived
  shouldStop,  \* shouldStop_: the dispatcher has been told to stop
  guiPc,       \* the GUI thread: "running", "stopping" or "ended"
  portStr,     \* portNumStr_: the port the daemon reports
  newPort      \* the parameter of the chg_port being executed

daemonVars == <<mainPc, sigterm, shouldStop, guiPc, portStr, newPort>>
allVars == <<vars, daemonVars>>

DaemonTypeOK ==
  /\ SyncTypeOK
  /\ WifiTypeOK
  /\ dispPc \in {"loop", "poll", "taken", "exec", "copy", "others", "restart",
                 "wakeOld", "joinOld", "stopNet", "wakeNet", "stopGui", "ended"}
  /\ cmd \in Messages \cup {NoData}
  /\ mainPc \in {"sleep", "joinDispatcher", "joinGui", "joinNet", "exited", "crashed"}
  /\ sigterm \in BOOLEAN
  /\ shouldStop \in BOOLEAN
  /\ guiPc \in {"running", "stopping", "ended"}
  /\ portStr \in Ports
  /\ newPort \in Ports \cup {BadPort, NoPort}

DaemonInit ==
  /\ Init
  /\ mainPc = "sleep"
  /\ sigterm = FALSE
  /\ shouldStop = FALSE
  /\ guiPc = "running"
  /\ portStr = boundPort
  /\ newPort = NoPort
-----------------------------------------------------------------------------
(* The main thread *)

Sigterm ==
  /\ mainPc = "sleep"
  /\ ~sigterm
  /\ sigterm' = TRUE
  /\ UNCHANGED <<vars, mainPc, shouldStop, guiPc, portStr, newPort>>

\* The sleep loop of runDispatcher() ends; dispatcher->stop().
StopDispatcher ==
  /\ mainPc = "sleep"
  /\ sigterm
  /\ mainPc' = "joinDispatcher"
  /\ shouldStop' = TRUE
  /\ UNCHANGED <<vars, sigterm, guiPc, portStr, newPort>>

\* Mutant: the network thread is not joined.
M_Join ==
  /\ \/ mainPc = "joinDispatcher" /\ dispPc = "ended" /\ mainPc' = "joinGui"
     \/ mainPc = "joinGui" /\ guiPc = "ended" /\ mainPc' = "exited"
  /\ UNCHANGED <<vars, sigterm, shouldStop, guiPc, portStr, newPort>>

\* join() of the dispatcher thread, then those of the dispatcher's destructor.
Join ==
  /\ \/ mainPc = "joinDispatcher" /\ dispPc = "ended" /\ mainPc' = "joinGui"
     \/ mainPc = "joinGui" /\ guiPc = "ended" /\ mainPc' = "joinNet"
     \/ mainPc = "joinNet" /\ netPc = "ended" /\ mainPc' = "exited"
  /\ UNCHANGED <<vars, sigterm, shouldStop, guiPc, portStr, newPort>>

MainThread == StopDispatcher \/ Join
-----------------------------------------------------------------------------
(* The dispatcher thread *)

\* while(!isStopped()); after the loop, stopConnectors().
CheckStopped ==
  /\ dispPc = "loop"
  /\ IF shouldStop
     THEN dispPc' = "stopNet" /\ UNCHANGED <<syncVars, wifiVars, cmd>>
     ELSE BeginRound
  /\ UNCHANGED daemonVars

\* The commands that do not touch the dispatcher.
ExecuteOther ==
  /\ cmd.cmd \notin {Quit, ChgPort}
  /\ ExecuteCommand
  /\ UNCHANGED daemonVars

\* CommandQuit: stop() and the answer "OK"; the loop ends at its next test.
ExecuteQuit ==
  /\ cmd.cmd = Quit
  /\ ExecuteCommand
  /\ shouldStop' = TRUE
  /\ UNCHANGED <<mainPc, sigterm, guiPc, portStr, newPort>>

BeginRestart ==
  /\ dispPc' = "restart"
  /\ newPort' \in Ports \cup {BadPort}

ExecuteChgPort ==
  /\ dispPc = "exec"
  /\ cmd.cmd = ChgPort
  /\ BeginRestart
  /\ UNCHANGED <<syncVars, wifiVars, cmd, mainPc, sigterm, shouldStop, guiPc, portStr>>

NetTurn ==
  \/ (PollNothing \/ PollRequest \/ ReadRequest \/ FinishCopy) /\ UNCHANGED daemonVars
  \/ dispPc = "exec" /\ (ExecuteOther \/ ExecuteQuit)
  \/ ExecuteChgPort

\* The turn of the GUI connector: no command, or one that does not touch the
\* dispatcher; "quit"; "chg_port".  The sound connector never stops it either.
GuiTurn ==
  \/ OtherConnectorsTurn /\ UNCHANGED daemonVars
  \/ /\ OtherConnectorsTurn
     /\ shouldStop' = TRUE
     /\ UNCHANGED <<mainPc, sigterm, guiPc, portStr, newPort>>
  \/ /\ dispPc = "others"
     /\ BeginRestart
     /\ UNCHANGED <<syncVars, wifiVars, cmd, mainPc, sigterm, shouldStop, guiPc, portStr>>

\* ConnectorWiFi::stop(), first half.
StopNet ==
  /\ \/ dispPc = "restart" /\ dispPc' = "wakeOld"
     \/ dispPc = "stopNet" /\ dispPc' = "wakeNet"
  /\ setRunStatus("STOP")
  /\ UNCHANGED <<wifiVars, cmd, daemonVars>>

\* Mutant: stop() sets the status only.
M_WakeNet ==
  /\ \/ dispPc = "wakeOld" /\ dispPc' = "joinOld"
     \/ dispPc = "wakeNet" /\ dispPc' = "stopGui"
  /\ UNCHANGED <<syncVars, wifiVars, cmd, daemonVars>>

\* ConnectorWiFi::stop(), second half: the closing client connects to the
\* port and makes select() return, unless nobody listens there.
WakeNet ==
  /\ \/ dispPc = "wakeOld" /\ dispPc' = "joinOld"
     \/ dispPc = "wakeNet" /\ dispPc' = "stopGui"
  /\ backlog' = IF listening /\ boundPort = portStr THEN Append(backlog, Closer)
                                                    ELSE backlog
  /\ UNCHANGED <<syncVars, netVars, boundPort, listening, sock, clientVars,
                 cmd, daemonVars>>

\* Mutant: the previous port number is not put back.
M_chgNetConnectorPort ==
  \/ portStr' = newPort /\ boundPort' = newPort
  \/ portStr' = newPort /\ boundPort' \in {portStr, NoPort}

\* chgNetConnectorPort(): the new port, or else the previous one, or else no
\* port.  Whether a port can be bound depends on the other programs.
chgNetConnectorPort ==
  \/ portStr' = newPort /\ boundPort' = newPort
  \/ portStr' = portStr /\ boundPort' \in {portStr, NoPort}

\* restartNetConnector() after the join: the sockets that were watched are
\* forgotten, not closed (FD_ZERO), and a new network thread starts.
RestartNet ==
  /\ dispPc = "joinOld"
  /\ netPc = "ended"
  /\ newPort \in Ports
  /\ chgNetConnectorPort
  /\ master' = {}
  /\ netPc' = "starting"
  /\ dispPc' = "loop"
  /\ newPort' = NoPort
  /\ UNCHANGED <<syncVars, ready, newSock, connectedIP, buf, listening, sock,
                 backlog, clientVars, cmd, mainPc, sigterm, shouldStop, guiPc>>

\* setPortNum() throws; nobody on the dispatcher thread catches the exception.
PortException ==
  /\ dispPc = "joinOld"
  /\ netPc = "ended"
  /\ newPort = BadPort
  /\ mainPc' = "crashed"
  /\ UNCHANGED <<vars, sigterm, shouldStop, guiPc, portStr, newPort>>

\* GuiConnector::stop(); the dispatcher thread ends.
StopGui ==
  /\ dispPc = "stopGui"
  /\ dispPc' = "ended"
  /\ guiPc' = "stopping"
  /\ UNCHANGED <<syncVars, wifiVars, cmd, mainPc, sigterm, shouldStop, portStr, newPort>>

DispatcherThread ==
  \/ CheckStopped \/ NetTurn \/ GuiTurn \/ StopNet \/ WakeNet
  \/ RestartNet \/ PortException \/ StopGui
-----------------------------------------------------------------------------
\* runQueue() ends once the queue is gone.
GuiThread ==
  /\ guiPc = "stopping"
  /\ guiPc' = "ended"
  /\ UNCHANGED <<vars, mainPc, sigterm, shouldStop, portStr, newPort>>

DaemonNetThread == NetThread /\ UNCHANGED <<dispVars, daemonVars>>

RemoteStep(c) == ClientStep(c) /\ UNCHANGED <<dispVars, daemonVars>>

\* A process that has crashed takes no more steps.
Run(step) == mainPc # "crashed" /\ step

DaemonNext ==
  \/ Run(Sigterm)
  \/ Run(MainThread)
  \/ Run(DispatcherThread)
  \/ Run(GuiThread)
  \/ Run(DaemonNetThread)
  \/ \E c \in Clients : Run(RemoteStep(c))

DaemonSpec == DaemonInit /\ [][DaemonNext]_allVars

\* The kernel runs every thread again and again; a client that waits reads
\* what arrives and notices that its connection was closed.  Nothing makes a
\* signal, a GUI command or a request arrive.
DaemonFairness ==
  /\ WF_allVars(Run(MainThread))
  /\ WF_allVars(Run(DispatcherThread))
  /\ WF_allVars(Run(GuiThread))
  /\ WF_allVars(Run(DaemonNetThread))
  /\ \A c \in Clients :
       /\ WF_allVars(Run(ReadAnswer(c) /\ UNCHANGED <<dispVars, daemonVars>>))
       /\ WF_allVars(Run(FindClosed(c) /\ UNCHANGED <<dispVars, daemonVars>>))

DaemonFairSpec == DaemonSpec /\ DaemonFairness
-----------------------------------------------------------------------------
(* Properties *)

\* Two ways a thread that joins the network thread waits for ever.
\* The conversation is open and the dispatcher, which alone could answer it,
\* is past the loop or is itself the one that joins.
HeldByRequest ==
  /\ netPc = "wait"
  /\ sentData = NoData
  /\ dispPc \in {"joinOld", "stopGui", "ended"}

\* run() has overwritten the STOP of stop() with RUN.
StopLost ==
  /\ runStatus = "RUN"
  /\ netPc \notin {"starting", "returned", "ended"}
  /\ dispPc \in {"wakeOld", "joinOld", "wakeNet", "stopGui", "ended"}

\* SIGTERM ends the daemon, or the network thread is held for ever in one of
\* these two ways: the joins of restartNetConnector() and of the destructor
\* wait for nothing else (CommandsDispatcherWiFi.cpp 115,
\* CommandsDispatcher.cpp 106-116).
OnlyKnownHangs ==
  \/ <>[]HeldByRequest
  \/ <>[]StopLost
  \/ sigterm ~> mainPc \in {"exited", "crashed"}

\* The port the daemon reports to the GUI is the one its socket is bound to,
\* also after a change that failed (CommandsDispatcherWiFi.cpp 81-91).
ReportsBoundPort == boundPort # NoPort => boundPort = portStr

\* A STOP is lost only on a network thread that had not begun to run when it
\* was told to stop: a thread that has read its run status once obeys.
StopLostOnlyAtStart ==
  [][~StopLost /\ StopLost' => netPc = "starting"]_allVars

\* When the process ends, its port is free for the daemon that is started next:
\* the network thread has closed the listener (SocketsLib.c 557).
ExitReleasesPort == mainPc = "exited" => ~listening /\ boundPort = NoPort

\* The next network thread starts with a clean hand-off: nothing that the old
\* one posted, and no answer to it, is left in the buffers.
RestartsClean ==
  [][netPc = "ended" /\ netPc' = "starting" =>
       receivedDataStatus = "NO_NEW_DATA" /\ sentData = NoData]_allVars
=============================================================================
