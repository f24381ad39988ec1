------------------------------- MODULE LogFile -------------------------------
(***************************************************************************)
(* The log (daemon/Log/Log.c) as the threads of the daemon call it: every  *)
(* text opens the file anew, with a mutex that openLogFile() initialises   *)
(* and closeLogFile() destroys while the caller holds it, and one pointer  *)
(* to the stream for all threads.                                          *)
(*                                                                         *)
(* The mutex is that of glibc: to initialise it wakes nobody, to destroy   *)
(* it fails while somebody has locked it since it was initialised, and a   *)
(* destroyed one refuses to be locked or unlocked, which nobody notices.   *)
(* The use of a closed stream or of none ends the model (undefined).       *)
(*                                                                         *)
(* A file is as long as its bytes are many; Log.h (34-37) calls the limit  *)
(* of them a number of lines.  A text is its length, with date and tag.    *)
(*                                                                         *)
(* Bounds: MaxLength stands for MAX_LOG_FILE_LEN, Lengths for the lengths  *)
(* of texts, and MaxCalls limits the texts a thread writes.                *)
(***************************************************************************)
EXTENDS Integers, Sequences

CONSTANTS Threads, MaxLength, Lengths, MaxCalls

ASSUME LogAssumption ==
  /\ MaxLength \in Nat \ {0} /\ MaxCalls \in Nat
  /\ Lengths # {} /\ Lengths \subseteq Nat \ {0}

VARIABLES
  pc,         \* where each thread is in writeToLog()
  clearing,   \* the threads that are in clearLogFile()
  calls,      \* the texts each thread has written
  mutex,      \* valid or destroyed, the lock word, and the users it counts
  logFile,    \* the stream: its file and the bytes it still holds; or none, or closed
  sizes,      \* the files there have been, and their bytes
  named,      \* the file that has the log's name, 0 if none has
  curSize,    \* curSize
  undefined,  \* a stream was used that is none
  overlapped, \* history: two calls have been under way at a time
  expected    \* history: the bytes the file should hold, if no calls overlap

threadVars  == <<pc, clearing, calls>>
fileVars    == <<logFile, sizes, named>>
historyVars == <<overlapped, expected>>
logVars == <<threadVars, mutex, fileVars, curSize, undefined, historyVars>>

NoStream == [file |-> 0, held |-> 0]
Closed   == [file |-> -1, held |-> 0]
Usable   == logFile.file > 0

Free == [valid |-> TRUE, lock |-> 0, users |-> 0]

Places == {"idle", "asleep", "awake", "open", "measure", "init", "check", "destroy", "fclose", "forget",
           "remove", "text", "write", "unlock"}

LogTypeOK ==
  /\ pc \in [Threads -> Places]
  /\ clearing \subseteq Threads
  /\ calls \in [Threads -> 0..MaxCalls]
  /\ mutex \in [valid : BOOLEAN, lock : 0..2, users : Int]
  /\ logFile \in {NoStream, Closed} \cup [file : 1..Len(sizes), held : Nat]
  /\ sizes \in Seq(Nat) /\ named \in 0..Len(sizes)
  /\ curSize \in Nat
  /\ undefined \in BOOLEAN /\ overlapped \in BOOLEAN /\ expected \in Nat

\* The dispatcher has opened the log.
LogInit ==
  /\ pc = [t \in Threads |-> "idle"] /\ clearing = {} /\ calls = [t \in Threads |-> 0]
  /\ mutex = Free
  /\ sizes = <<0>> /\ named = 1 /\ logFile = [file |-> 1, held |-> 0] /\ curSize = 0
  /\ undefined = FALSE /\ overlapped = FALSE /\ expected = 0

At(t, place) == pc[t] = place /\ ~undefined
Goto(t, place) == pc' = [pc EXCEPT ![t] = place] /\ UNCHANGED calls

-----------------------------------------------------------------------------
(* pthread_mutex_lock(), _unlock(), and what sleeps in between *)

Acquired(word) == mutex' = [mutex EXCEPT !.lock = word, !.users = @ + 1]
Contended == mutex' = [mutex EXCEPT !.lock = 2]

Lock(t) ==
  /\ At(t, "idle") /\ calls[t] < MaxCalls
  /\ calls' = [calls EXCEPT ![t] = @ + 1]
  /\ overlapped' = (overlapped \/ \E u \in Threads : pc[u] # "idle")
  /\ \/ ~mutex.valid /\ pc' = [pc EXCEPT ![t] = "open"] /\ UNCHANGED mutex
     \/ mutex.valid /\ mutex.lock = 0 /\ pc' = [pc EXCEPT ![t] = "open"] /\ Acquired(1)
     \/ mutex.valid /\ mutex.lock # 0 /\ pc' = [pc EXCEPT ![t] = "asleep"] /\ Contended
  /\ UNCHANGED <<clearing, fileVars, curSize, undefined, expected>>

\* Whoever is woken looks at the lock word only.
TryAgain(t) ==
  /\ At(t, "awake")
  /\ IF mutex.lock = 0 THEN Goto(t, "open") /\ Acquired(2) ELSE Goto(t, "asleep") /\ Contended
  /\ UNCHANGED <<clearing, fileVars, curSize, undefined, historyVars>>

\* unlock wakes one sleeper if the lock word says that there may be one.
Unlock(t) ==
  /\ At(t, "unlock")
  /\ mutex' = IF mutex.valid THEN [mutex EXCEPT !.lock = 0, !.users = @ - 1] ELSE mutex
  /\ LET sleepers == IF mutex.valid /\ mutex.lock = 2 THEN {u \in Threads : pc[u] = "asleep"} ELSE {}
     IN  IF sleepers = {}
           THEN Goto(t, "idle")
           ELSE \E u \in sleepers : pc' = [pc EXCEPT ![t] = "idle", ![u] = "awake"] /\ UNCHANGED calls
  /\ UNCHANGED <<clearing, fileVars, curSize, undefined, historyVars>>

-----------------------------------------------------------------------------
(* openLogFile() *)

Open(t) ==
  /\ At(t, "open") /\ Goto(t, "measure")
  /\ IF named = 0
       THEN /\ sizes' = Append(sizes, 0)
            /\ named' = Len(sizes) + 1
       ELSE UNCHANGED <<sizes, named>>
  /\ logFile' = [file |-> named', held |-> 0]
  /\ UNCHANGED <<clearing, mutex, curSize, undefined, historyVars>>

\* A stream that is none is undefined to use.
Misuse == ~Usable /\ undefined' = TRUE /\ UNCHANGED <<threadVars, fileVars, curSize, expected>>

\* fseek() and ftell(), in bytes
Measure(t) ==
  /\ At(t, "measure")
  /\ \/ Misuse
     \/ /\ Usable /\ Goto(t, "init")
        /\ curSize' = sizes[logFile.file] + logFile.held
        /\ UNCHANGED <<clearing, fileVars, undefined, expected>>
  /\ UNCHANGED <<mutex, overlapped>>

\* Mutant: the mutex is left as it is.
M_InitMutex(t) ==
  /\ At(t, "init")
  /\ Goto(t, IF t \in clearing THEN "text" ELSE "check")
  /\ clearing' = clearing \ {t}
  /\ UNCHANGED <<mutex, fileVars, curSize, undefined, historyVars>>

InitMutex(t) ==
  /\ At(t, "init")
  /\ mutex' = Free
  /\ Goto(t, IF t \in clearing THEN "text" ELSE "check")
  /\ clearing' = clearing \ {t}
  /\ UNCHANGED <<fileVars, curSize, undefined, historyVars>>

-----------------------------------------------------------------------------
(* closeLogFile() and clearLogFile() *)

DestroyMutex(t) ==
  /\ At(t, "destroy") /\ Goto(t, "fclose")
  /\ mutex' = IF mutex.valid /\ mutex.users # 0 THEN mutex ELSE [mutex EXCEPT !.valid = FALSE]
  /\ UNCHANGED <<clearing, fileVars, curSize, undefined, historyVars>>

AfterClose(t) == IF t \in clearing THEN "remove" ELSE "unlock"

Fclose(t) ==
  /\ At(t, "fclose")
  /\ \/ logFile = NoStream /\ Goto(t, AfterClose(t)) /\ UNCHANGED <<clearing, fileVars, undefined>>
     \/ logFile = Closed /\ undefined' = TRUE /\ UNCHANGED <<threadVars, fileVars>>
     \/ /\ Usable /\ Goto(t, "forget")
        /\ sizes' = [sizes EXCEPT ![logFile.file] = @ + logFile.held]
        /\ logFile' = Closed
        /\ UNCHANGED <<clearing, named, undefined>>
  /\ UNCHANGED <<mutex, curSize, historyVars>>

Forget(t) ==
  /\ At(t, "forget") /\ Goto(t, AfterClose(t))
  /\ logFile' = NoStream
  /\ UNCHANGED <<clearing, mutex, sizes, named, curSize, undefined, historyVars>>

\* A file that another thread has removed is not opened again.
Remove(t) ==
  /\ At(t, "remove")
  /\ named' = 0
  /\ IF named = 0 THEN Goto(t, "text") /\ clearing' = clearing \ {t} ELSE Goto(t, "open") /\ UNCHANGED clearing
  /\ UNCHANGED <<mutex, logFile, sizes, curSize, undefined, overlapped, expected>>

-----------------------------------------------------------------------------
(* writeToLog() *)

\* Mutant: a file that has the maximal length is not cleared yet.
M_Check(t) ==
  /\ At(t, "check")
  /\ IF curSize > MaxLength /\ logFile # NoStream
       THEN Goto(t, "destroy") /\ clearing' = clearing \cup {t}
       ELSE Goto(t, "text") /\ UNCHANGED clearing
  /\ expected' = IF expected >= MaxLength THEN 0 ELSE expected
  /\ UNCHANGED <<mutex, fileVars, curSize, undefined, overlapped>>

Check(t) ==
  /\ At(t, "check")
  /\ IF curSize >= MaxLength /\ logFile # NoStream
       THEN Goto(t, "destroy") /\ clearing' = clearing \cup {t}
       ELSE Goto(t, "text") /\ UNCHANGED clearing
  /\ expected' = IF expected >= MaxLength THEN 0 ELSE expected
  /\ UNCHANGED <<mutex, fileVars, curSize, undefined, overlapped>>

\* An empty text, or an empty tag, returns from the middle.
Text(t) ==
  /\ At(t, "text")
  /\ Goto(t, "write") \/ Goto(t, "idle")
  /\ UNCHANGED <<clearing, mutex, fileVars, curSize, undefined, historyVars>>

\* fflush() writes out what another thread has left in the stream.
Write(t) ==
  /\ At(t, "write")
  /\ \/ Misuse
     \/ \E len \in Lengths :
        /\ Usable /\ Goto(t, "destroy")
        /\ sizes' = [sizes EXCEPT ![logFile.file] = @ + logFile.held]
        /\ logFile' = [logFile EXCEPT !.held = len]
        /\ curSize' = curSize + len
        /\ expected' = expected + len
        /\ UNCHANGED <<clearing, named, undefined>>
  /\ UNCHANGED <<mutex, overlapped>>

Writing(t) ==
  Lock(t) \/ TryAgain(t) \/ Unlock(t) \/ Open(t) \/ Measure(t) \/ InitMutex(t) \/ DestroyMutex(t)
    \/ Fclose(t) \/ Forget(t) \/ Remove(t) \/ Check(t) \/ Text(t) \/ Write(t)

LogNext == \E t \in Threads : Writing(t)

LogSpec == LogInit /\ [][LogNext]_logVars

LogFairSpec == LogSpec /\ \A t \in Threads : WF_logVars(Writing(t))

-----------------------------------------------------------------------------
(* Properties *)

\* A file that has reached its limit is cleared before it is written to again: only
\* the last text may go past the limit, for its length is not looked at.
WithinLimit == \E last \in Lengths : sizes[named] < MaxLength + last

\* As long as no two calls overlap, the mutex that is initialised while it is held
\* and destroyed before it is unlocked does no harm (Log.c, 45, 93 and 102): no
\* stream is misused, and between calls the file holds every text since it was
\* last cleared, and outgrows MAX_LOG_FILE_LEN bytes by less than one text (168, 193).
AloneIsSafe ==
  ~overlapped =>
    /\ ~undefined
    /\ (\A t \in Threads : pc[t] = "idle") => named # 0 /\ sizes[named] = expected /\ WithinLimit

\* A call returns, also after one that returned without releasing the mutex
\* (Log.c, 174-187).  Only calls that overlapped may sleep for ever, for a mutex that
\* was initialised again under them, or use a stream that is none.
CallsReturn ==
  \A t \in Threads : (pc[t] # "idle") ~> (pc[t] = "idle" \/ (overlapped /\ (undefined \/ pc[t] = "asleep")))
=============================================================================
