------------------------- MODULE DaemonControlProofs -------------------------
(***************************************************************************)
(* Proofs about DaemonControl, for any number of process IDs: a second     *)
(* daemon needs the user's "No", a GUI that looked too early or one that   *)
(* survived kill -9, and a daemon that is alone is the one pid.txt names.  *)
(***************************************************************************)
EXTENDS DaemonControl, TLAPS

\* While there is no reason for it to be wrong, the file names the only daemon, except in the second the
\* GUI waits after it has launched one; and what the GUI has found out stays
\* true for as long as it matters.
FileIsTrue ==
  /\ \A p, q \in Daemons : p = q
  /\ \A p \in Daemons : proc[p] \notin Starting => pidFile = p
  /\ \A p \in Daemons : proc[p] \in Starting =>
       guiPc = "look" /\ after = "launched" /\ launched = p
  /\ \A p \in Daemons : proc[p] = "write" => p \notin unlinked
  /\ guiPc = "check" => \A p \in Daemons : pid = p
  /\ guiPc \in {"delete", "launch", "proc", "rm"} => Daemons = {}

Inv == ControlTypeOK /\ (~excused => FileIsTrue)

USE PidsAssumption

\* Types are kept by every step of every process.
THEOREM ControlTypeCorrect == Spec => []ControlTypeOK
<1>1. Init => ControlTypeOK
  BY DEF Init, ControlTypeOK, Places, Starting
<1>2. ControlTypeOK /\ [Next]_vars => ControlTypeOK'
  <2> SUFFICES ASSUME ControlTypeOK, [Next]_vars PROVE ControlTypeOK'
    OBVIOUS
  <2> USE DEF ControlTypeOK, Places, Starting, fileVars, guiVars, histVars
  <2>1. ASSUME NEW p \in Pids, Daemon(p) PROVE ControlTypeOK'
    BY <2>1 DEF Daemon, BuildDispatcher, OpenFile, WritePid, HandleSigterm, DeleteDispatcher,
       Exit, Become, RemoveFile
  <2>2. ASSUME NEW p \in Pids, System(p) PROVE ControlTypeOK'
    BY <2>2 DEF System, Sigterm, Crash, OtherProgram, Become, Terminated
  <2>3. CASE Gui
    <3>1. CASE Click
      BY <3>1 DEF Click, Go
    <3>2. CASE LookForFile
      BY <3>2 DEF LookForFile, Return
    <3>3. CASE LookForProcess
      BY <3>3 DEF LookForProcess, Return
    <3>4. CASE DeleteFile
      BY <3>4 DEF DeleteFile, Return, RemoveFile
    <3>5. CASE AnswerDialog
      BY <3>5 DEF AnswerDialog, Go
    <3>6. CASE CheckStopped
      BY <3>6 DEF CheckStopped
    <3>7. CASE Script
      <4>1. CASE Pgrep
        BY <4>1 DEF Pgrep, Done, RemoveFile
      <4>2. CASE KillByFile
        BY <4>2 DEF KillByFile, Go, Become, Terminated
      <4>3. CASE KillTheRest
        <5>1. unkilled' \subseteq Pids /\ excused' \in BOOLEAN
          BY <4>3 DEF KillTheRest, Daemons
        <5>2. proc' \in [Pids -> {"none", "other"} \cup Places]
          BY <4>3 DEF KillTheRest
        <5> QED BY <4>3, <5>1, <5>2 DEF KillTheRest, Go
      <4>4. CASE RemoveByScript
        BY <4>4 DEF RemoveByScript, Done, RemoveFile
      <4> QED BY <3>7, <4>1, <4>2, <4>3, <4>4 DEF Script
    <3>8. ASSUME NEW p \in Pids, Launch(p) PROVE ControlTypeOK'
      BY <3>8 DEF Launch, Go
    <3> QED BY <2>3, <3>1, <3>2, <3>3, <3>4, <3>5, <3>6, <3>7, <3>8 DEF Gui
  <2>4. CASE UNCHANGED vars
    BY <2>4 DEF vars
  <2> QED BY <2>1, <2>2, <2>3, <2>4 DEF Next
<1> QED BY <1>1, <1>2, PTL DEF Spec

\* Only a stop that ends all daemons makes the file true again.
LEMMA ExcuseStays ==
  ASSUME ControlTypeOK, [Next]_vars, excused, ~excused'
  PROVE  KillTheRest /\ unkilled' = {}
BY DEF Next, Daemon, System, Gui, Script, BuildDispatcher, OpenFile, WritePid, HandleSigterm,
       DeleteDispatcher, Exit, Sigterm, Crash, OtherProgram, Click, LookForFile, LookForProcess,
       DeleteFile, AnswerDialog, CheckStopped, Launch, Pgrep, KillByFile, KillTheRest,
       RemoveByScript, Become, vars, histVars, ControlTypeOK

\* kill -9 that leaves nobody.
LEMMA KillsAll ==
  ASSUME KillTheRest, unkilled' = {}
  PROVE  Daemons' = {}
BY DEF KillTheRest, Daemons, Places, Starting

\* A step that is no start of a daemon leaves no new one.
LEMMA FileIsTrueKept ==
  ASSUME ControlTypeOK, ~excused, FileIsTrue, [Next]_vars, ~excused'
  PROVE  FileIsTrue'
<1> USE DEF fileVars, guiVars, histVars
<1> USE DEF FileIsTrue, Daemons, Places, Starting, ControlTypeOK
<1>1. ASSUME NEW p \in Pids, Daemon(p) PROVE FileIsTrue'
  <2>1. CASE BuildDispatcher(p)
    BY <2>1 DEF BuildDispatcher, Become
  <2>2. CASE OpenFile(p)
    BY <2>2 DEF OpenFile, Become
  <2>3. CASE WritePid(p)
    BY <2>3 DEF WritePid, Become
  <2>4. CASE HandleSigterm(p) \/ DeleteDispatcher(p)
    BY <2>4 DEF HandleSigterm, DeleteDispatcher, Become
  <2>5. CASE Exit(p)
    BY <2>5 DEF Exit, Become, RemoveFile
  <2> QED BY <1>1, <2>1, <2>2, <2>3, <2>4, <2>5 DEF Daemon
<1>2. ASSUME NEW p \in Pids, System(p) PROVE FileIsTrue'
  BY <1>2 DEF System, Sigterm, Crash, OtherProgram, Become, Terminated
<1>3. CASE Gui
  <2>1. CASE Click
    BY <2>1 DEF Click, Go
  <2>2. CASE LookForFile
    <3>1. \A q \in Daemons : proc[q] \notin Starting
      BY <2>2 DEF LookForFile
    <3> QED BY <2>2, <3>1 DEF LookForFile, Return
  <2>3. CASE LookForProcess
    BY <2>3 DEF LookForProcess, Return
  <2>4. CASE DeleteFile
    BY <2>4 DEF DeleteFile, Return, RemoveFile
  <2>5. CASE AnswerDialog
    BY <2>5 DEF AnswerDialog, Go
  <2>6. CASE CheckStopped
    BY <2>6 DEF CheckStopped
  <2>7. CASE Script
    <3>1. CASE Pgrep
      BY <3>1 DEF Pgrep, Done, RemoveFile
    <3>2. CASE KillByFile
      BY <3>2 DEF KillByFile, Go, Become, Terminated
    <3>3. CASE KillTheRest
      BY <3>3 DEF KillTheRest, Go
    <3>4. CASE RemoveByScript
      BY <3>4 DEF RemoveByScript, Done, RemoveFile
    <3> QED BY <2>7, <3>1, <3>2, <3>3, <3>4 DEF Script
  <2>8. ASSUME NEW p \in Pids, Launch(p) PROVE FileIsTrue'
    BY <2>8 DEF Launch, Go
  <2> QED BY <1>3, <2>1, <2>2, <2>3, <2>4, <2>5, <2>6, <2>7, <2>8 DEF Gui
<1>4. CASE UNCHANGED vars
  BY <1>4 DEF vars
<1> QED BY <1>1, <1>2, <1>3, <1>4 DEF Next

LEMMA InvCorrect == Spec => []Inv
<1>1. Init => Inv
  <2>1. Init => ControlTypeOK
    BY DEF Init, ControlTypeOK, Places, Starting
  <2>2. Init => FileIsTrue
    BY DEF Init, FileIsTrue, Daemons, Places, Starting
  <2> QED BY <2>1, <2>2 DEF Inv
<1>2. Inv /\ ControlTypeOK' /\ [Next]_vars => Inv'
  <2> SUFFICES ASSUME Inv, ControlTypeOK', [Next]_vars, ~excused' PROVE FileIsTrue'
    BY DEF Inv
  <2>1. CASE excused
    <3>1. KillTheRest /\ Daemons' = {} /\ guiPc' = "rm"
      BY <2>1, ExcuseStays, KillsAll DEF Inv, KillTheRest, Go
    <3> QED BY <3>1 DEF FileIsTrue
  <2> QED BY <2>1, FileIsTrueKept DEF Inv
<1> QED BY <1>1, <1>2, ControlTypeCorrect, PTL DEF Spec

\* The GUI never has two daemons running unless, since a stop that ended them all, the
\* user answered "No", it looked before the ID was written or a daemon survived kill -9.
THEOREM OneDaemonCorrect == Spec => []OneDaemon
<1>1. Inv => OneDaemon
  BY DEF Inv, FileIsTrue, OneDaemon
<1> QED BY <1>1, InvCorrect, PTL

\* A daemon that is alone is the one the file names.
THEOREM NameCorrect == Spec => []RunningIsNamed
<1>1. Inv => RunningIsNamed
  BY DEF Inv, FileIsTrue, RunningIsNamed, Starting
<1> QED BY <1>1, InvCorrect, PTL
-----------------------------------------------------------------------------
(* What the last dialog says *)

\* Once the script has killed what it could, nothing but the GUI starts a daemon.
StopInv ==
  /\ ControlTypeOK
  /\ guiPc = "rm" \/ (guiPc \in {"look", "check", "delete"} /\ after = "stop") => Daemons \subseteq unkilled
  /\ guiPc = "proc" => after = "start"
  /\ verdict # "none" => guiPc = "idle"
  /\ StoppedIsTrue

LEMMA NoneAppears ==
  ASSUME ControlTypeOK, NEW p \in Pids, Daemon(p) \/ System(p)
  PROVE  Daemons' \subseteq Daemons
BY DEF ControlTypeOK, Daemon, System, BuildDispatcher, OpenFile, WritePid, HandleSigterm, DeleteDispatcher, Exit,
       Sigterm, Crash, OtherProgram, Become, Terminated, Daemons, Places, Starting

LEMMA StopStep ==
  ASSUME StopInv, Next, ControlTypeOK'
  PROVE  StopInv'
<1> USE DEF StopInv, StoppedIsTrue, fileVars, guiVars, histVars
<1>1. ASSUME NEW p \in Pids, Daemon(p) \/ System(p) PROVE StopInv'
  <2>1. Daemons' \subseteq Daemons
    BY <1>1, NoneAppears
  <2>2. UNCHANGED <<guiVars, unkilled>>
    BY <1>1 DEF Daemon, System, BuildDispatcher, OpenFile, WritePid, HandleSigterm, DeleteDispatcher, Exit,
                Sigterm, Crash, OtherProgram, Become
  <2> QED
    BY <2>1, <2>2
<1>2. CASE Gui
  <2>1. CASE Click \/ AnswerDialog \/ CheckStopped
    BY <2>1 DEF Click, AnswerDialog, CheckStopped, Go, Daemons
  <2>2. CASE LookForFile \/ LookForProcess \/ DeleteFile
    BY <2>2 DEF LookForFile, LookForProcess, DeleteFile, Return, Daemons
  <2>3. CASE Pgrep \/ RemoveByScript
    BY <2>3 DEF Pgrep, RemoveByScript, Done, Daemons, ControlTypeOK
  <2>4. CASE KillByFile
    BY <2>4 DEF KillByFile, Go
  <2>5. CASE KillTheRest
    <3>1. Daemons' \subseteq unkilled'
      BY <2>5 DEF KillTheRest, Daemons, Places, Starting
    <3> QED
      BY <2>5, <3>1 DEF KillTheRest, Go
  <2>6. ASSUME NEW p \in Pids, Launch(p) PROVE StopInv'
    BY <2>6 DEF Launch, Go
  <2> QED
    BY <1>2, <2>1, <2>2, <2>3, <2>4, <2>5, <2>6 DEF Gui, Script
<1> QED
  BY <1>1, <1>2 DEF Next

\* "have stopped" is true of every daemon that did not survive kill -9, for any number
\* of process IDs and whatever pid.txt holds (stop.sh, 23 and 32-42).
THEOREM StoppedCorrect == Spec => []StoppedIsTrue
<1>1. Init => StopInv
  BY DEF Init, StopInv, StoppedIsTrue, ControlTypeOK, Places, Starting
<1>2. StopInv /\ ControlTypeOK' /\ [Next]_vars => StopInv'
  <2>1. ASSUME StopInv, UNCHANGED vars PROVE StopInv'
    BY <2>1 DEF StopInv, StoppedIsTrue, ControlTypeOK, Daemons, vars, fileVars, guiVars, histVars
  <2> QED
    BY <2>1, StopStep
<1>3. StopInv => StoppedIsTrue
  BY DEF StopInv
<1> QED
  BY <1>1, <1>2, <1>3, ControlTypeCorrect, PTL DEF Spec
=============================================================================
