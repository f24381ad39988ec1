---------------------------- MODULE LogFileProofs ----------------------------
(***************************************************************************)
(* What the log promises a daemon whose calls never overlap, for any       *)
(* number of threads, calls and lengths.                                     *)
(***************************************************************************)
EXTENDS LogFile, TLAPS

Streams == {NoStream, Closed} \cup [file : 1..Len(sizes), held : Nat]

LEMMA LogTypeInit == LogInit => LogTypeOK
<1> SUFFICES ASSUME LogInit PROVE LogTypeOK
  OBVIOUS
<1>1. sizes \in Seq(Nat) /\ Len(sizes) = 1 /\ named \in 0..Len(sizes) /\ curSize \in Nat
  BY DEF LogInit
<1>2. logFile \in [file : 1..Len(sizes), held : Nat]
  BY <1>1 DEF LogInit
<1>3. mutex \in [valid : BOOLEAN, lock : 0..2, users : Int]
  BY DEF LogInit, Free
<1>4. calls \in [Threads -> 0..MaxCalls]
  BY LogAssumption DEF LogInit
<1> QED
  BY <1>1, <1>2, <1>3, <1>4 DEF LogInit, LogTypeOK, Places

\* Where a thread goes is one of the places.
LEMMA Going ==
  ASSUME LogTypeOK, NEW t \in Threads, NEW place \in Places, Goto(t, place)
  PROVE  pc' \in [Threads -> Places] /\ calls' \in [Threads -> 0..MaxCalls]
BY DEF LogTypeOK, Goto

\* A step that is not at the files, and keeps the type of the rest.
LEMMA FilesKept ==
  ASSUME LogTypeOK, UNCHANGED fileVars
  PROVE  /\ logFile' \in Streams' /\ sizes' \in Seq(Nat) /\ named' \in 0..Len(sizes')
BY DEF LogTypeOK, fileVars, Streams

\* A file that gets what its stream holds is longer; the others stay.
LEMMA Flushed ==
  ASSUME LogTypeOK, Usable, sizes' = [sizes EXCEPT ![logFile.file] = @ + logFile.held]
  PROVE  /\ sizes' \in Seq(Nat) /\ Len(sizes') = Len(sizes)
         /\ logFile.file \in 1..Len(sizes) /\ logFile.held \in Nat
         /\ sizes'[logFile.file] = sizes[logFile.file] + logFile.held
<1>1. logFile \in [file : 1..Len(sizes), held : Nat]
  BY DEF LogTypeOK, Usable, NoStream, Closed
<1>2. sizes \in Seq(Nat) /\ sizes[logFile.file] \in Nat
  BY <1>1 DEF LogTypeOK
<1> QED
  BY <1>1, <1>2

Mutexes == [valid : BOOLEAN, lock : 0..2, users : Int]

\* Locked, unlocked, initialised and destroyed, a mutex stays one.
LEMMA MutexKept ==
  ASSUME LogTypeOK
  PROVE  /\ Free \in Mutexes /\ [mutex EXCEPT !.valid = FALSE] \in Mutexes
         /\ [mutex EXCEPT !.lock = 2] \in Mutexes
         /\ \A word \in 0..2 : [mutex EXCEPT !.lock = word, !.users = @ + 1] \in Mutexes
         /\ [mutex EXCEPT !.lock = 0, !.users = @ - 1] \in Mutexes
<1>1. mutex \in Mutexes /\ mutex.users \in Int /\ mutex.lock \in 0..2 /\ mutex.valid \in BOOLEAN
  BY DEF LogTypeOK, Mutexes
<1>2. mutex.users + 1 \in Int /\ mutex.users - 1 \in Int
  BY <1>1
<1>3. Free \in Mutexes
  BY DEF Free, Mutexes
<1>4. \A b \in BOOLEAN : [mutex EXCEPT !.valid = b] \in Mutexes
  BY <1>1 DEF Mutexes
<1>5. [mutex EXCEPT !.lock = 2] \in Mutexes
  BY <1>1 DEF Mutexes
<1>6. ASSUME NEW word \in 0..2 PROVE [mutex EXCEPT !.lock = word, !.users = @ + 1] \in Mutexes
  BY <1>1, <1>2 DEF Mutexes
<1>7. [mutex EXCEPT !.lock = 0, !.users = @ - 1] \in Mutexes
  <2>1. \A word \in 0..2 : [mutex EXCEPT !.lock = word, !.users = @ - 1] \in Mutexes
    BY <1>1, <1>2 DEF Mutexes
  <2> QED
    BY <2>1
<1>8. [mutex EXCEPT !.valid = FALSE] \in Mutexes
  BY <1>4
<1> QED
  BY <1>3, <1>5, <1>6, <1>7, <1>8

\* A step of the mutex and of the threads only.
LEMMA LockTypeStep ==
  ASSUME LogTypeOK, NEW t \in Threads, Lock(t) \/ TryAgain(t) \/ Unlock(t)
  PROVE  LogTypeOK'
<1>1. clearing' = clearing /\ curSize' = curSize /\ undefined' = undefined /\ expected' = expected
      /\ overlapped' \in BOOLEAN
  BY DEF LogTypeOK, Lock, TryAgain, Unlock, historyVars
<1>2. logFile' \in Streams' /\ sizes' \in Seq(Nat) /\ named' \in 0..Len(sizes')
  BY FilesKept DEF Lock, TryAgain, Unlock
<1>3. mutex' \in [valid : BOOLEAN, lock : 0..2, users : Int]
  <2>2. \/ mutex' = mutex
        \/ \E word \in 0..2 : mutex' = [mutex EXCEPT !.lock = word, !.users = @ + 1]
        \/ mutex' = [mutex EXCEPT !.lock = 2]
        \/ mutex' = [mutex EXCEPT !.lock = 0, !.users = @ - 1]
    BY DEF Lock, TryAgain, Unlock, Acquired, Contended
  <2> QED
    BY <2>2, MutexKept DEF LogTypeOK, Mutexes
<1>4. pc' \in [Threads -> Places]
  <2>1. pc \in [Threads -> Places] /\ {"idle", "asleep", "awake", "open"} \subseteq Places
    BY DEF LogTypeOK, Places
  <2>2. CASE Lock(t)
    BY <2>1, <2>2 DEF Lock
  <2>3. CASE TryAgain(t)
    BY <2>1, <2>3 DEF TryAgain, Goto
  <2>4. CASE Unlock(t)
    BY <2>1, <2>4 DEF Unlock, Goto
  <2> QED
    BY <2>2, <2>3, <2>4
<1>5. calls' \in [Threads -> 0..MaxCalls]
  <2>1. CASE Lock(t)
    BY <2>1, LogAssumption DEF LogTypeOK, Lock
  <2>2. CASE ~Lock(t)
    BY <2>2 DEF LogTypeOK, TryAgain, Unlock, Goto
  <2> QED
    BY <2>1, <2>2
<1>6. expected' \in Nat /\ curSize' \in Nat /\ undefined' \in BOOLEAN /\ clearing' \subseteq Threads
  BY <1>1 DEF LogTypeOK
<1> QED
  BY <1>1, <1>2, <1>3, <1>4, <1>5, <1>6 DEF LogTypeOK, Streams

\* Every step of a thread keeps the types.
LEMMA LogTypeStep ==
  ASSUME LogTypeOK, NEW t \in Threads, Writing(t)
  PROVE  LogTypeOK'
<1> USE DEF At
<1>1. CASE Lock(t) \/ TryAgain(t) \/ Unlock(t)
  BY <1>1, LockTypeStep
<1>2. CASE InitMutex(t) \/ DestroyMutex(t) \/ Check(t) \/ Text(t)
  <2>1. \E place \in Places : Goto(t, place)
    BY <1>2 DEF InitMutex, DestroyMutex, Check, Text, Places
  <2>2. pc' \in [Threads -> Places] /\ calls' \in [Threads -> 0..MaxCalls]
    BY <2>1, Going
  <2>3. logFile' \in Streams' /\ sizes' \in Seq(Nat) /\ named' \in 0..Len(sizes')
    BY <1>2, FilesKept DEF InitMutex, DestroyMutex, Check, Text
  <2>4. mutex' \in [valid : BOOLEAN, lock : 0..2, users : Int]
    <3>2. mutex' = mutex \/ mutex' = Free \/ mutex' = [mutex EXCEPT !.valid = FALSE]
      BY <1>2 DEF InitMutex, DestroyMutex, Check, Text
    <3> QED
      BY <3>2, MutexKept DEF LogTypeOK, Mutexes
  <2>5. clearing' \subseteq Threads /\ undefined' = undefined /\ curSize' = curSize /\ overlapped' = overlapped
    BY <1>2 DEF LogTypeOK, InitMutex, DestroyMutex, Check, Text, historyVars
  <2>6. expected' \in Nat
    BY <1>2 DEF LogTypeOK, InitMutex, DestroyMutex, Check, Text, historyVars
  <2> QED
    BY <2>2, <2>3, <2>4, <2>5, <2>6 DEF LogTypeOK, Streams
<1>3. CASE Open(t)
  <2>1. pc' \in [Threads -> Places] /\ calls' \in [Threads -> 0..MaxCalls]
    BY <1>3, Going DEF Open, Places
  <2>2. sizes' \in Seq(Nat) /\ named' \in 1..Len(sizes')
    <3>1. sizes \in Seq(Nat) /\ named \in 0..Len(sizes)
      BY DEF LogTypeOK
    <3>2. CASE named = 0
      <4>1. sizes' = Append(sizes, 0) /\ named' = Len(sizes) + 1
        BY <1>3, <3>2 DEF Open
      <4> QED
        BY ONLY <3>1, <4>1
    <3>3. CASE named # 0
      BY <1>3, <3>1, <3>3 DEF Open
    <3> QED
      BY <3>2, <3>3
  <2>3. logFile' \in [file : 1..Len(sizes'), held : Nat]
    BY <1>3, <2>2 DEF Open
  <2> QED
    BY <1>3, <2>1, <2>2, <2>3 DEF LogTypeOK, Open, historyVars
<1>4. CASE Misuse /\ UNCHANGED <<mutex, overlapped>>
  BY <1>4 DEF Misuse, LogTypeOK, threadVars, fileVars
<1>5. CASE Measure(t) /\ Usable
  <2>1. pc' \in [Threads -> Places] /\ calls' \in [Threads -> 0..MaxCalls]
    BY <1>5, Going DEF Measure, Misuse, Places
  <2>2. logFile' \in Streams' /\ sizes' \in Seq(Nat) /\ named' \in 0..Len(sizes')
    BY <1>5, FilesKept DEF Measure, Misuse
  <2>3. curSize' \in Nat
    <3>1. logFile \in [file : 1..Len(sizes), held : Nat] /\ sizes \in Seq(Nat)
      BY <1>5 DEF LogTypeOK, Usable, NoStream, Closed
    <3> QED
      BY <1>5, <3>1 DEF Measure, Misuse
  <2> QED
    BY <1>5, <2>1, <2>2, <2>3 DEF LogTypeOK, Streams, Measure, Misuse
<1>6. CASE Write(t) /\ Usable
  <2>1. pc' \in [Threads -> Places] /\ calls' \in [Threads -> 0..MaxCalls]
    BY <1>6, Going DEF Write, Misuse, Places
  <2>2. sizes' \in Seq(Nat) /\ Len(sizes') = Len(sizes) /\ logFile.file \in 1..Len(sizes)
    BY <1>6, Flushed DEF Write, Misuse
  <2>3. logFile' \in [file : 1..Len(sizes'), held : Nat]
    <3>1. logFile \in [file : 1..Len(sizes), held : Nat]
      BY <1>6 DEF LogTypeOK, Usable, NoStream, Closed
    <3>2. \E len \in Nat : logFile' = [logFile EXCEPT !.held = len]
      BY <1>6, LogAssumption DEF Write, Misuse
    <3> QED
      BY ONLY <2>2, <3>1, <3>2
  <2>4. curSize' \in Nat /\ expected' \in Nat
    BY <1>6, LogAssumption DEF LogTypeOK, Write, Misuse
  <2>5. UNCHANGED <<clearing, mutex, named, undefined, overlapped>>
    BY <1>6 DEF Write, Misuse
  <2> QED
    BY <2>1, <2>2, <2>3, <2>4, <2>5 DEF LogTypeOK
<1>7. CASE Fclose(t)
  <2>1. CASE Usable /\ Goto(t, "forget") /\ logFile' = Closed
             /\ sizes' = [sizes EXCEPT ![logFile.file] = @ + logFile.held] /\ UNCHANGED <<clearing, named, undefined>>
    <3>1. pc' \in [Threads -> Places] /\ calls' \in [Threads -> 0..MaxCalls]
      BY <2>1, Going DEF Places
    <3>2. sizes' \in Seq(Nat) /\ Len(sizes') = Len(sizes)
      BY <2>1, Flushed
    <3> QED
      BY <1>7, <2>1, <3>1, <3>2 DEF LogTypeOK, Fclose, historyVars
  <2>2. CASE Goto(t, AfterClose(t)) /\ UNCHANGED <<clearing, fileVars, undefined>>
    <3>1. pc' \in [Threads -> Places] /\ calls' \in [Threads -> 0..MaxCalls]
      BY <2>2, Going DEF Places, AfterClose
    <3> QED
      BY <1>7, <2>2, <3>1, FilesKept DEF LogTypeOK, Fclose, historyVars, Streams
  <2>3. CASE undefined' = TRUE /\ UNCHANGED <<threadVars, fileVars>>
    BY <1>7, <2>3 DEF LogTypeOK, Fclose, threadVars, fileVars, historyVars
  <2> QED
    BY <1>7, <2>1, <2>2, <2>3 DEF Fclose
<1>8. CASE Forget(t) \/ Remove(t)
  <2>1. \E place \in Places : Goto(t, place)
    BY <1>8 DEF Forget, Remove, Places, AfterClose
  <2>2. pc' \in [Threads -> Places] /\ calls' \in [Threads -> 0..MaxCalls]
    BY <2>1, Going
  <2>3. sizes' = sizes /\ named' \in 0..Len(sizes') /\ logFile' \in Streams'
    BY <1>8 DEF LogTypeOK, Forget, Remove, Streams
  <2>4. clearing' \subseteq Threads
    BY <1>8 DEF LogTypeOK, Forget, Remove
  <2>5. expected' \in Nat /\ overlapped' \in BOOLEAN
    BY <1>8 DEF LogTypeOK, Forget, Remove, historyVars
  <2> QED
    BY <1>8, <2>2, <2>3, <2>4, <2>5 DEF LogTypeOK, Forget, Remove, historyVars, Streams
<1> QED
  BY <1>1, <1>2, <1>3, <1>4, <1>5, <1>6, <1>7, <1>8 DEF Writing, Measure, Write, Misuse

\* Every variable of the log keeps its type, however many threads are inside
\* writeToLog() at a time (Log.c, 158-200).
THEOREM LogTypeCorrect == LogSpec => []LogTypeOK
<1>1. LogTypeOK /\ [LogNext]_logVars => LogTypeOK'
  <2>1. ASSUME LogTypeOK, UNCHANGED logVars PROVE LogTypeOK'
    BY <2>1 DEF LogTypeOK, logVars, threadVars, fileVars, historyVars
  <2> QED
    BY <2>1, LogTypeStep DEF LogNext
<1> QED
  BY <1>1, LogTypeInit, PTL DEF LogSpec

-----------------------------------------------------------------------------
(* Calls that never overlap *)

Kept == named # 0 /\ sizes[named] = expected
Open0 == logFile = [file |-> named, held |-> 0]

\* Less than one text past the limit.
Bounded(bytes) == \E last \in Lengths : bytes < MaxLength + last

\* A file that is cleared is within the limit.
LEMMA EmptyBounded == Bounded(0)
<1>1. PICK len \in Lengths : len \in Nat \ {0}
  BY LogAssumption
<1> QED
  BY <1>1, LogAssumption DEF Bounded

\* What holds at each place for the only thread that is inside.
InCall(t) ==
  /\ pc[t] \notin {"asleep", "awake"}
  /\ Bounded(expected)
  /\ t \in clearing =>
       expected = 0 /\ pc[t] \in {"destroy", "fclose", "forget", "remove", "open", "measure", "init"}
  /\ pc[t] \in {"check", "text", "write", "destroy"} => mutex = Free
  /\ pc[t] \in {"fclose", "forget", "remove", "unlock"} => ~mutex.valid
  /\ pc[t] = "open" => IF t \in clearing THEN named = 0 ELSE Kept
  /\ pc[t] \in {"measure", "init", "check", "text", "write"} => Kept /\ Open0
  /\ pc[t] \in {"init", "check"} => curSize = expected
  /\ pc[t] \in {"text", "write"} => expected < MaxLength
  /\ pc[t] \in {"destroy", "fclose"} =>
       /\ named # 0
       /\ IF t \in clearing THEN Open0
          ELSE logFile.file = named /\ sizes[named] + logFile.held = expected
  /\ pc[t] = "forget" => logFile = Closed
  /\ pc[t] \in {"remove", "unlock"} => logFile = NoStream
  /\ pc[t] \in {"forget", "remove", "unlock"} => named # 0 /\ (t \notin clearing => Kept)
  /\ pc[t] = "remove" => t \in clearing

\* What holds while no thread is inside.
AtRest == (mutex.valid => mutex.lock = 0) /\ Kept /\ Bounded(expected)

AloneInv ==
  /\ LogTypeOK
  /\ ~overlapped =>
       /\ ~undefined
       /\ \A t, u \in Threads : pc[t] # "idle" /\ pc[u] # "idle" => t = u
       /\ \A t \in Threads : pc[t] = "idle" => t \notin clearing
       /\ \A t \in Threads : pc[t] # "idle" => InCall(t)
       /\ (\A t \in Threads : pc[t] = "idle") => AtRest

\* Nobody else is inside when a thread takes a step and no calls have overlapped.
LEMMA OthersIdle ==
  ASSUME AloneInv, NEW t \in Threads, Writing(t), ~overlapped'
  PROVE  /\ ~overlapped /\ ~undefined
         /\ \A u \in Threads \ {t} : pc[u] = "idle" /\ u \notin clearing
         /\ pc[t] = "idle" => AtRest
         /\ pc[t] # "idle" => InCall(t)
<1>1. ~overlapped /\ (pc[t] = "idle" => \A u \in Threads : pc[u] = "idle")
  BY DEF Writing, AloneInv, LogTypeOK, At, Lock, TryAgain, Unlock, Open, Measure, Misuse, InitMutex, DestroyMutex,
         Fclose, Forget, Remove, Check, Text, Write, historyVars
<1> QED
  BY <1>1 DEF AloneInv

\* What is left to show of a step of thread t.
LEMMA StepOf ==
  ASSUME LogTypeOK', NEW t \in Threads, ~undefined',
         \A u \in Threads \ {t} : pc'[u] = "idle" /\ u \notin clearing',
         pc'[t] = "idle" => AtRest' /\ t \notin clearing',
         pc'[t] # "idle" => InCall(t)'
  PROVE  AloneInv'
BY DEF AloneInv

LEMMA AloneStep ==
  ASSUME AloneInv, NEW t \in Threads, Writing(t)
  PROVE  AloneInv'
<1>1. LogTypeOK /\ LogTypeOK'
  BY LogTypeStep DEF AloneInv
<1>2. CASE overlapped'
  BY <1>1, <1>2 DEF AloneInv
<1>3. CASE ~overlapped'
  <2>1. /\ ~overlapped /\ ~undefined
        /\ \A u \in Threads \ {t} : pc[u] = "idle" /\ u \notin clearing
        /\ pc[t] = "idle" => AtRest
        /\ pc[t] # "idle" => InCall(t)
    BY <1>3, OthersIdle
  <2>2. pc \in [Threads -> Places] /\ clearing \subseteq Threads
    BY <1>1 DEF LogTypeOK
  <2> USE DEF At, Goto
  <2>3. CASE Lock(t)
    <3>1. AtRest /\ t \notin clearing
      BY <1>3, <2>1, <2>3 DEF Lock, AloneInv
    <3>2. pc' = [pc EXCEPT ![t] = "open"]
      BY <2>3, <3>1, <1>1 DEF Lock, AtRest, LogTypeOK
    <3>3. ~undefined' /\ UNCHANGED <<clearing, fileVars, curSize, expected>>
      BY <2>1, <2>3 DEF Lock
    <3>4. InCall(t)'
      BY <2>2, <3>1, <3>2, <3>3 DEF InCall, AtRest, Kept, fileVars
    <3> QED
      BY <1>1, <2>1, <2>2, <3>2, <3>3, <3>4, StepOf
  <2>4. CASE TryAgain(t)
    BY <2>1, <2>4 DEF TryAgain, InCall
  <2>5. CASE Unlock(t)
    <3>1. InCall(t) /\ pc[t] = "unlock"
      BY <2>1, <2>5 DEF Unlock
    <3>2. mutex' = mutex /\ ~mutex.valid /\ pc' = [pc EXCEPT ![t] = "idle"]
      BY <2>5, <3>1 DEF Unlock, InCall
    <3>3. ~undefined' /\ UNCHANGED <<clearing, fileVars, expected>>
      BY <2>1, <2>5 DEF Unlock, historyVars
    <3>4. AtRest' /\ t \notin clearing'
      BY <3>1, <3>2, <3>3 DEF InCall, AtRest, Kept, fileVars
    <3> QED
      BY <1>1, <2>1, <2>2, <3>2, <3>3, <3>4, StepOf
  <2>6. CASE Open(t)
    <3>1. InCall(t) /\ pc[t] = "open"
      BY <2>1, <2>6 DEF Open
    <3>2. pc' = [pc EXCEPT ![t] = "measure"] /\ ~undefined' /\ UNCHANGED <<clearing, expected>>
      BY <2>1, <2>6 DEF Open, historyVars
    <3>3. Kept' /\ Open0'
      <4>1. CASE named = 0
        <5>1. sizes' = Append(sizes, 0) /\ named' = Len(sizes) + 1 /\ sizes \in Seq(Nat)
          BY <1>1, <2>6, <4>1 DEF Open, LogTypeOK
        <5>2. sizes'[named'] = 0 /\ named' # 0
          BY ONLY <5>1
        <5>3. expected = 0
          BY <3>1, <4>1 DEF InCall, Kept
        <5> QED
          BY <2>6, <3>2, <5>2, <5>3 DEF Open, Kept, Open0
      <4>2. CASE named # 0
        BY <2>6, <3>1, <3>2, <4>2 DEF Open, Kept, Open0, InCall
      <4> QED
        BY <4>1, <4>2
    <3>4. InCall(t)'
      BY <2>2, <3>1, <3>2, <3>3 DEF InCall
    <3> QED
      BY <1>1, <2>1, <2>2, <3>2, <3>4, StepOf
  <2>7. CASE Measure(t)
    <3>1. InCall(t) /\ pc[t] = "measure"
      BY <2>1, <2>7 DEF Measure
    <3>2. Usable /\ logFile.file = named /\ logFile.held = 0 /\ sizes[named] = expected
      <4>1. logFile = [file |-> named, held |-> 0] /\ named # 0 /\ sizes[named] = expected
        BY <3>1 DEF InCall, Kept, Open0
      <4>2. named \in Nat
        BY <1>1 DEF LogTypeOK
      <4> QED
        BY <4>1, <4>2 DEF Usable
    <3>3. pc' = [pc EXCEPT ![t] = "init"] /\ ~undefined' /\ UNCHANGED <<clearing, fileVars, expected>>
      BY <2>1, <2>7, <3>2 DEF Measure, Misuse
    <3>4. curSize' = expected
      <4>1. curSize' = sizes[logFile.file] + logFile.held /\ expected \in Nat
        BY <1>1, <2>7, <3>2 DEF Measure, Misuse, LogTypeOK
      <4> QED
        BY <3>2, <4>1
    <3>5. InCall(t)'
      BY <2>2, <3>1, <3>3, <3>4 DEF InCall, Kept, Open0, fileVars
    <3> QED
      BY <1>1, <2>1, <2>2, <3>3, <3>5, StepOf
  <2>8. CASE InitMutex(t)
    <3>1. InCall(t) /\ pc[t] = "init"
      BY <2>1, <2>8 DEF InitMutex
    <3>2. /\ pc' = [pc EXCEPT ![t] = IF t \in clearing THEN "text" ELSE "check"]
          /\ ~undefined' /\ mutex' = Free /\ clearing' = clearing \ {t}
          /\ UNCHANGED <<fileVars, curSize, expected>>
      BY <2>1, <2>8 DEF InitMutex, historyVars
    <3>3. t \in clearing => expected < MaxLength
      BY <3>1, LogAssumption DEF InCall
    <3>4. InCall(t)'
      BY <2>2, <3>1, <3>2, <3>3 DEF InCall, Kept, Open0, fileVars
    <3> QED
      BY <1>1, <2>1, <2>2, <3>2, <3>4, StepOf
  <2>9. CASE DestroyMutex(t)
    <3>1. InCall(t) /\ pc[t] = "destroy"
      BY <2>1, <2>9 DEF DestroyMutex
    <3>2. pc' = [pc EXCEPT ![t] = "fclose"] /\ ~undefined' /\ UNCHANGED <<clearing, fileVars, expected>>
      BY <2>1, <2>9 DEF DestroyMutex, historyVars
    <3>3. ~mutex'.valid
      <4>1. mutex = Free /\ mutex.users = 0
        BY <3>1 DEF InCall, Free
      <4> QED
        BY <2>9, <4>1 DEF DestroyMutex, Free
    <3>4. InCall(t)'
      BY <2>2, <3>1, <3>2, <3>3 DEF InCall, Kept, Open0, fileVars
    <3> QED
      BY <1>1, <2>1, <2>2, <3>2, <3>4, StepOf
  <2>10. CASE Fclose(t)
    <3>1. InCall(t) /\ pc[t] = "fclose"
      BY <2>1, <2>10 DEF Fclose
    <3>2. /\ named \in Nat \ {0} /\ logFile.file = named
      BY <1>1, <3>1 DEF InCall, Open0, LogTypeOK
    <3>3. Usable /\ logFile # NoStream /\ logFile # Closed
      BY <3>2 DEF Usable, NoStream, Closed
    <3>4. /\ pc' = [pc EXCEPT ![t] = "forget"] /\ ~undefined' /\ logFile' = Closed
          /\ sizes' = [sizes EXCEPT ![logFile.file] = @ + logFile.held]
          /\ UNCHANGED <<clearing, mutex, named, expected>>
      BY <2>1, <2>10, <3>3 DEF Fclose, historyVars
    <3>5. t \notin clearing => Kept'
      <4>1. sizes'[logFile.file] = sizes[logFile.file] + logFile.held
        BY <1>1, <3>3, <3>4, Flushed
      <4>2. t \notin clearing => sizes[named] + logFile.held = expected
        BY <3>1 DEF InCall
      <4> QED
        BY <3>2, <3>4, <4>1, <4>2 DEF Kept
    <3>6. InCall(t)'
      BY <2>2, <3>1, <3>2, <3>4, <3>5 DEF InCall
    <3> QED
      BY <1>1, <2>1, <2>2, <3>4, <3>6, StepOf
  <2>11. CASE Forget(t)
    <3>1. InCall(t) /\ pc[t] = "forget"
      BY <2>1, <2>11 DEF Forget
    <3>2. /\ pc' = [pc EXCEPT ![t] = AfterClose(t)] /\ ~undefined' /\ logFile' = NoStream
          /\ UNCHANGED <<clearing, mutex, sizes, named, expected>>
      BY <2>1, <2>11 DEF Forget, historyVars
    <3>3. InCall(t)'
      BY <2>2, <3>1, <3>2 DEF InCall, AfterClose, Kept
    <3>4. pc'[t] # "idle"
      BY <2>2, <3>2 DEF AfterClose
    <3> QED
      BY <1>1, <2>1, <2>2, <3>2, <3>3, <3>4, StepOf
  <2>12. CASE Remove(t)
    <3>1. InCall(t) /\ pc[t] = "remove" /\ named # 0 /\ t \in clearing
      BY <2>1, <2>12 DEF Remove, InCall
    <3>2. /\ pc' = [pc EXCEPT ![t] = "open"] /\ ~undefined' /\ named' = 0
          /\ UNCHANGED <<clearing, mutex, logFile, sizes, expected>>
      BY <2>1, <2>12, <3>1 DEF Remove, historyVars
    <3>3. InCall(t)'
      BY <2>2, <3>1, <3>2 DEF InCall
    <3> QED
      BY <1>1, <2>1, <2>2, <3>2, <3>3, StepOf
  <2>13. CASE Check(t)
    <3>1. InCall(t) /\ pc[t] = "check" /\ curSize = expected /\ t \notin clearing /\ Open0 /\ Kept
          /\ mutex = Free
      BY <2>1, <2>13 DEF Check, InCall
    <3>2. logFile # NoStream /\ expected \in Nat
      BY <1>1, <3>1 DEF Open0, NoStream, Kept, LogTypeOK
    <3>3. ~undefined' /\ UNCHANGED <<mutex, fileVars, curSize>>
      BY <2>1, <2>13 DEF Check
    <3>4. CASE expected >= MaxLength
      <4>1. pc' = [pc EXCEPT ![t] = "destroy"] /\ clearing' = clearing \cup {t} /\ expected' = 0
        BY <2>13, <3>1, <3>2, <3>4 DEF Check
      <4>2. InCall(t)'
        BY <2>2, <3>1, <3>3, <4>1, EmptyBounded DEF InCall, Kept, Open0, fileVars
      <4> QED
        BY <1>1, <2>1, <2>2, <3>3, <4>1, <4>2, StepOf
    <3>5. CASE ~(expected >= MaxLength)
      <4>1. pc' = [pc EXCEPT ![t] = "text"] /\ clearing' = clearing /\ expected' = expected
        BY <2>13, <3>1, <3>2, <3>5 DEF Check
      <4>2. expected < MaxLength
        BY <3>2, <3>5, LogAssumption
      <4>3. InCall(t)'
        BY <2>2, <3>1, <3>3, <4>1, <4>2 DEF InCall, Kept, Open0, fileVars
      <4> QED
        BY <1>1, <2>1, <2>2, <3>3, <4>1, <4>3, StepOf
    <3> QED
      BY <3>4, <3>5
  <2>14. CASE Text(t)
    <3>1. InCall(t) /\ pc[t] = "text" /\ t \notin clearing
      BY <2>1, <2>14 DEF Text, InCall
    <3>2. ~undefined' /\ UNCHANGED <<clearing, mutex, fileVars, curSize, expected>>
      BY <2>1, <2>14 DEF Text, historyVars
    <3>3. CASE pc' = [pc EXCEPT ![t] = "write"]
      <4>1. InCall(t)'
        BY <2>2, <3>1, <3>2, <3>3 DEF InCall, Kept, Open0, fileVars
      <4> QED
        BY <1>1, <2>1, <2>2, <3>2, <3>3, <4>1, StepOf
    <3>4. CASE pc' = [pc EXCEPT ![t] = "idle"]
      <4>1. AtRest'
        BY <3>1, <3>2 DEF InCall, AtRest, Kept, Free, fileVars
      <4> QED
        BY <1>1, <2>1, <2>2, <3>1, <3>2, <3>4, <4>1, StepOf
    <3> QED
      BY <2>14, <3>3, <3>4 DEF Text
  <2>15. CASE Write(t)
    <3>1. InCall(t) /\ pc[t] = "write" /\ t \notin clearing /\ Open0 /\ Kept /\ mutex = Free
          /\ expected < MaxLength
      BY <2>1, <2>15 DEF Write, InCall
    <3>2. named \in Nat \ {0} /\ logFile.file = named /\ logFile.held = 0
      BY <1>1, <3>1 DEF Open0, Kept, LogTypeOK
    <3>3. Usable
      BY <3>2 DEF Usable
    <3>4. /\ pc' = [pc EXCEPT ![t] = "destroy"] /\ ~undefined'
          /\ UNCHANGED <<clearing, mutex, named>>
      BY <2>1, <2>15, <3>3 DEF Write, Misuse
    <3>5. PICK len \in Lengths :
            /\ sizes' = [sizes EXCEPT ![logFile.file] = @ + logFile.held]
            /\ logFile' = [logFile EXCEPT !.held = len] /\ expected' = expected + len
      BY <2>15, <3>3 DEF Write, Misuse
    <3>6. sizes'[named] = expected /\ logFile'.file = named /\ logFile'.held = len
      <4>1. sizes'[named] = sizes[named] + 0 /\ sizes[named] = expected /\ expected \in Nat
        BY <1>1, <3>1, <3>2, <3>3, <3>5, Flushed DEF Kept, LogTypeOK
      <4>2. logFile' = [file |-> named, held |-> len]
        BY <3>1, <3>5 DEF Open0
      <4> QED
        BY <4>1, <4>2
    <3>7. Bounded(expected') /\ sizes'[named'] + logFile'.held = expected'
      <4>1. expected \in Nat /\ len \in Nat /\ expected < MaxLength
        BY <1>1, <3>1, LogAssumption DEF LogTypeOK
      <4>2. expected + len < MaxLength + len
        BY <4>1, LogAssumption
      <4> QED
        BY <3>4, <3>5, <3>6, <4>2 DEF Bounded
    <3>8. InCall(t)'
      BY <2>2, <3>1, <3>2, <3>4, <3>6, <3>7 DEF InCall
    <3> QED
      BY <1>1, <2>1, <2>2, <3>4, <3>8, StepOf
  <2> QED
    BY <2>3, <2>4, <2>5, <2>6, <2>7, <2>8, <2>9, <2>10, <2>11, <2>12, <2>13, <2>14, <2>15 DEF Writing
<1> QED
  BY <1>2, <1>3

\* For any number of threads and any lengths: as long as no two calls of writeToLog()
\* are under way at a time, no stream is misused, and between calls the file holds every
\* text since it was last cleared and outgrows MAX_LOG_FILE_LEN bytes by less than one
\* text (Log.c, 158-200).
THEOREM LogAloneCorrect == LogSpec => []AloneIsSafe
<1>1. LogInit => AloneInv
  <2> SUFFICES ASSUME LogInit PROVE AloneInv
    OBVIOUS
  <2>1. Kept /\ expected = 0
    BY DEF LogInit, Kept
  <2> QED
    BY <2>1, LogTypeInit, EmptyBounded DEF LogInit, AloneInv, AtRest, Free
<1>2. AloneInv /\ [LogNext]_logVars => AloneInv'
  <2>1. ASSUME AloneInv, UNCHANGED logVars PROVE AloneInv'
    BY <2>1 DEF AloneInv, LogTypeOK, InCall, AtRest, Kept, Open0, logVars, threadVars, fileVars, historyVars
  <2> QED
    BY <2>1, AloneStep DEF LogNext
<1>3. AloneInv => AloneIsSafe
  BY DEF AloneInv, AloneIsSafe, AtRest, Kept, WithinLimit, Bounded
<1> QED
  BY <1>1, <1>2, <1>3, PTL DEF LogSpec
=============================================================================
