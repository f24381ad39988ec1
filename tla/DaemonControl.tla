---------------------------- MODULE DaemonControl ----------------------------
(***************************************************************************)
(* Starting and stopping the daemon from the GUI (Gui/init.c, stop.sh,     *)
(* Daemon.cpp).  The only link between the processes is the file pid.txt:  *)
(* a daemon writes its process ID when its dispatcher has been built and   *)
(* removes the file when it exits; the GUI and stop.sh read it, compare it *)
(* with /proc and remove it.  Daemons may crash or hang, and the system    *)
(* may give their IDs to other programs.                                   *)
(***************************************************************************)
EXTENDS FiniteSets

CONSTANTS
  Pids,    \* the IDs the system gives to processes
  NoFile,  \* there is no pid.txt
  Empty    \* pid.txt is empty, or GUI variables that hold no ID

ASSUME PidsAssumption == IsFiniteSet(Pids) /\ {NoFile, Empty} \cap Pids = {}

VARIABLES
  proc,      \* per ID: "none", "other" (no daemon) or the place of a daemon
  pidFile,   \* what pid.txt holds
  unlinked,  \* the daemons that will write to a file that has been removed
  guiPc,     \* the place of the GUI and of the script it waits for
  after,     \* what the GUI does after getRunningDaemonPID() or the script
  pid,       \* the ID the GUI or the script has read
  verdict,   \* what the last dialog has said
  launched,  \* the daemon launched last (history)
  unkilled,  \* the daemons that kill -9 has not ended in this stop (history)
  excused    \* since a stop that ended all daemons, there has been a reason for pid.txt
             \* to be wrong: see Reasons (history)

\* Reasons: the user has declined to stop a daemon; the GUI has looked before a new
\* daemon had its ID written, the case its sleep(1) is for; the script has removed
\* the file of a daemon that survived it.

fileVars == <<pidFile, unlinked>>
guiVars  == <<guiPc, after, pid, verdict>>
histVars == <<launched, unkilled, excused>>
vars == <<proc, fileVars, guiVars, histVars>>

\* The places of a daemon, in their order.
Starting == {"build", "open", "write"}
Places == Starting \cup {"signal", "running", "stopping", "hung", "remove"}
Daemons == {p \in Pids : proc[p] \in Places}

ControlTypeOK ==
  /\ proc \in [Pids -> {"none", "other"} \cup Places]
  /\ pidFile \in Pids \cup {NoFile, Empty}
  /\ unlinked \subseteq Pids
  /\ guiPc \in {"idle", "look", "check", "delete", "dialog", "launch", "pgrep", "cat",
                "wait", "rm", "proc"}
  /\ after \in {"start", "launched", "stop"}
  /\ pid \in Pids \cup {Empty}
  /\ verdict \in {"none", "started", "notStarted", "stopped", "notStopped", "refused"}
  /\ launched \in Pids \cup {Empty}
  /\ unkilled \subseteq Pids /\ excused \in BOOLEAN

Init ==
  /\ proc = [p \in Pids |-> "none"]
  /\ pidFile = NoFile
  /\ unlinked = {}
  /\ guiPc = "idle" /\ after = "start" /\ pid = Empty /\ verdict = "none"
  /\ launched = Empty
  /\ unkilled = {} /\ excused = FALSE
-----------------------------------------------------------------------------
(* A daemon, from main() on *)

Become(p, place) ==
  /\ proc' = [proc EXCEPT ![p] = place]
  /\ UNCHANGED histVars

\* remove(): who has the file open keeps the file that is gone.
RemoveFile ==
  /\ pidFile' = NoFile
  /\ unlinked' = unlinked \cup {p \in Pids : proc[p] = "write"}

\* getDispatcher(): the constructor may fail; the file is left alone then.
BuildDispatcher(p) ==
  /\ proc[p] = "build"
  /\ \E place \in {"open", "none"} : Become(p, place)
  /\ UNCHANGED <<fileVars, guiVars>>

\* savePidToFile(): the file is emptied when it is opened, ...
OpenFile(p) ==
  /\ proc[p] = "open"
  /\ Become(p, "write")
  /\ pidFile' = Empty
  /\ unlinked' = unlinked \ {p}
  /\ UNCHANGED guiVars

\* Mutant: the ID of the parent, which has exited, is written.
M_WritePid(p) ==
  /\ proc[p] = "write"
  /\ Become(p, "signal")
  /\ UNCHANGED <<fileVars, guiVars>>

\* ... and written when it is closed.
WritePid(p) ==
  /\ proc[p] = "write"
  /\ Become(p, "signal")
  /\ pidFile' = IF p \in unlinked THEN pidFile ELSE p
  /\ UNCHANGED <<unlinked, guiVars>>

HandleSigterm(p) ==
  /\ proc[p] = "signal"
  /\ Become(p, "running")
  /\ UNCHANGED <<fileVars, guiVars>>

\* The dispatcher is joined and deleted, which may never end.
DeleteDispatcher(p) ==
  /\ proc[p] = "stopping"
  /\ \E place \in {"remove", "hung"} : Become(p, place)
  /\ UNCHANGED <<fileVars, guiVars>>

\* remove(FILE_NAME), whatever ID the file holds, and the exit.
Exit(p) ==
  /\ proc[p] = "remove"
  /\ Become(p, "none")
  /\ RemoveFile
  /\ UNCHANGED guiVars

\* SIGTERM ends a daemon at once that has not called signal() yet.
Terminated(p) ==
  CASE proc[p] \in Starting \cup {"signal", "other"} -> "none"
    [] proc[p] = "running" -> "stopping"
    [] OTHER -> proc[p]

\* SIGTERM from the user or the session.
Sigterm(p) ==
  /\ p \in Daemons
  /\ Become(p, Terminated(p))
  /\ UNCHANGED <<fileVars, guiVars>>

Crash(p) ==
  /\ p \in Daemons
  /\ Become(p, "none")
  /\ UNCHANGED <<fileVars, guiVars>>

\* Other programs come and go, with the IDs that are free.
OtherProgram(p) ==
  /\ \/ proc[p] = "none" /\ Become(p, "other")
     \/ proc[p] = "other" /\ Become(p, "none")
  /\ UNCHANGED <<fileVars, guiVars>>

Daemon(p) ==
  \/ BuildDispatcher(p) \/ OpenFile(p) \/ WritePid(p) \/ HandleSigterm(p)
  \/ DeleteDispatcher(p) \/ Exit(p)

System(p) == Sigterm(p) \/ Crash(p) \/ OtherProgram(p)
-----------------------------------------------------------------------------
(* The GUI *)

Go(from, to) == guiPc = from /\ guiPc' = to

\* startDaemon() looks for a daemon first, stopDaemon() runs the script first.
Click ==
  /\ \/ Go("idle", "look") /\ after' = "start"
     \/ Go("idle", "pgrep") /\ after' = "stop"
  /\ verdict' = "none" /\ unkilled' = {}
  /\ UNCHANGED <<proc, fileVars, pid, launched, excused>>

\* What the callers of getRunningDaemonPID() do with its result.
Return(found) ==
  \/ after = "start" /\ guiPc' = (IF found THEN "dialog" ELSE "launch") /\ UNCHANGED verdict
  \/ /\ after = "launched"
     /\ guiPc' = "idle"
     /\ verdict' = IF found THEN "started" ELSE "notStarted"
  \/ /\ after = "stop"
     /\ guiPc' = "idle"
     /\ verdict' = IF found THEN "notStopped" ELSE "stopped"

\* getRunningDaemonPID(): the file, its text, ...
LookForFile ==
  /\ guiPc = "look"
  /\ excused' = (excused \/ (after = "launched" /\ proc[launched] \in Starting))
  /\ \/ pidFile = NoFile /\ Return(FALSE) /\ UNCHANGED pid
     \/ pidFile # NoFile /\ guiPc' = "check" /\ pid' = pidFile /\ UNCHANGED verdict
  /\ UNCHANGED <<proc, fileVars, after, launched, unkilled>>

\* ... a process of this ID, ...
LookForProcess ==
  /\ guiPc = "check"
  /\ \/ pid # Empty /\ proc[pid] # "none" /\ Return(TRUE)
     \/ (pid # Empty => proc[pid] = "none") /\ guiPc' = "delete" /\ UNCHANGED verdict
  /\ UNCHANGED <<proc, fileVars, after, pid, histVars>>

\* ... and without one the file is deleted.
DeleteFile ==
  /\ guiPc = "delete"
  /\ RemoveFile
  /\ Return(FALSE)
  /\ UNCHANGED <<proc, after, pid, histVars>>

\* showStopDaemonDialog(): after "No" the daemon is started all the same.
AnswerDialog ==
  /\ \/ Go("dialog", "pgrep") /\ UNCHANGED excused
     \/ Go("dialog", "launch") /\ excused' = TRUE
  /\ UNCHANGED <<proc, fileVars, after, pid, verdict, launched, unkilled>>

\* stopPrevDaemonIfRuns() looks for the process of the ID it has found.
CheckStopped ==
  /\ guiPc = "proc"
  /\ IF proc[pid] = "none" THEN guiPc' = "launch" /\ UNCHANGED verdict
                           ELSE guiPc' = "idle" /\ verdict' = "refused"
  /\ UNCHANGED <<proc, fileVars, after, pid, histVars>>

\* runFileInCurDir() returns when spawn() has forked; a second later the GUI
\* looks for the daemon.
Launch(p) ==
  /\ Go("launch", "look")
  /\ proc[p] = "none"
  /\ after' = "launched"
  /\ proc' = [proc EXCEPT ![p] = "build"]
  /\ launched' = p
  /\ UNCHANGED <<fileVars, pid, verdict, unkilled, excused>>
-----------------------------------------------------------------------------
(* stop.sh *)

Done == guiPc' = IF after = "start" THEN "proc" ELSE "look"

\* Without a daemon only the file is removed.
Pgrep ==
  /\ guiPc = "pgrep"
  /\ \/ Daemons # {} /\ guiPc' = "cat" /\ UNCHANGED fileVars
     \/ Daemons = {} /\ Done /\ RemoveFile
  /\ UNCHANGED <<proc, after, pid, verdict, histVars>>

\* SIGTERM to the process the file names, whatever program it is.
KillByFile ==
  /\ Go("cat", "wait")
  /\ \/ pidFile \in Pids /\ Become(pidFile, Terminated(pidFile))
     \/ pidFile \notin Pids /\ UNCHANGED <<proc, histVars>>
  /\ UNCHANGED <<fileVars, after, pid, verdict>>

\* Mutant: only the daemon the file names is killed.
M_KillTheRest ==
  /\ Go("wait", "rm")
  /\ \/ pidFile \in Daemons /\ Become(pidFile, "none")
     \/ pidFile \notin Daemons /\ UNCHANGED <<proc, histVars>>
  /\ UNCHANGED <<fileVars, after, pid, verdict>>

\* After a minute, or as soon as there is no daemon; kill -9 for all there are.
\* Some may survive ("Can't close the daemon"): the script fails then, but goes on.
KillTheRest ==
  /\ Go("wait", "rm")
  /\ \E survivors \in SUBSET Daemons :
       /\ proc' = [p \in Pids |-> IF p \in Daemons \ survivors THEN "none" ELSE proc[p]]
       /\ unkilled' = survivors /\ excused' = (survivors # {})
  /\ UNCHANGED <<fileVars, after, pid, verdict, launched>>

RemoveByScript ==
  /\ guiPc = "rm"
  /\ Done
  /\ RemoveFile
  /\ UNCHANGED <<proc, after, pid, verdict, histVars>>

Script == Pgrep \/ KillByFile \/ KillTheRest \/ RemoveByScript

Gui ==
  \/ Click \/ LookForFile \/ LookForProcess \/ DeleteFile \/ AnswerDialog \/ CheckStopped
  \/ Script
  \/ \E p \in Pids : Launch(p)

Next == Gui \/ \E p \in Pids : Daemon(p) \/ System(p)

Spec == Init /\ [][Next]_vars
-----------------------------------------------------------------------------
(* Properties *)

\* Two daemons run at a time only for one of the Reasons, and no more after a stop
\* that ended them all.
OneDaemon == (\A p, q \in Daemons : p = q) \/ excused

\* "have stopped" is true of every daemon but those that survived kill -9: also of
\* the hung ones and of those that are in no file.
StoppedIsTrue == verdict = "stopped" => Daemons \subseteq unkilled

\* A daemon that is alone and has written its ID can be found by it.
RunningIsNamed ==
  \A p \in Pids :
    Daemons = {p} /\ proc[p] \in {"signal", "running"} => pidFile = p \/ excused
=============================================================================
