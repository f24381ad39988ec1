-------------------------- MODULE WifiSessionProofs --------------------------
(***************************************************************************)
(* Proofs about WifiSession, for a volume of any number of steps and any   *)
(* number of calls that give up.                                           *)
(***************************************************************************)
EXTENDS WifiSession, TLAPS, SequenceTheorems

-----------------------------------------------------------------------------
(* Types *)

\* What is written is a command.
LEMMA SendingKeepsType ==
  ASSUME SessionTypeOK, NEW c \in Commands, sendStr(c)
  PROVE  commands' \in Seq(Commands)
BY DEF SessionTypeOK, sendStr

\* What is read comes off the answers; what reads nothing may have given up.
LEMMA ReadingKeepsType ==
  ASSUME SessionTypeOK, (\E a \in Answers : receiveStr(a)) \/ IoException \/ EndOfStream
  PROVE  answers' \in Seq(Answers) /\ late' \in Nat
<1>1. CASE \E a \in Answers : receiveStr(a)
  <2>1. answers \in Seq(Answers) /\ answers # <<>> /\ answers' = Tail(answers) /\ late' = late
    BY <1>1 DEF receiveStr, SessionTypeOK
  <2> QED BY <2>1, HeadTailProperties DEF SessionTypeOK
<1>2. CASE IoException \/ EndOfStream
  BY <1>2 DEF SessionTypeOK, IoException, TimesOut, EndOfStream
<1> QED BY <1>1, <1>2

-----------------------------------------------------------------------------
(* Percents and the values of the mixer *)

LEMMA DivisionFacts ==
  ASSUME NEW a \in Nat, NEW b \in Nat, b > 0
  PROVE  a \div b \in Nat /\ (a \div b) * b <= a /\ a < (a \div b) * b + b
<1>1. a \div b \in Int /\ (a \div b) * b <= a /\ a < (a \div b) * b + b
  OBVIOUS
<1>2. a \div b >= 0
  OBVIOUS
<1> QED BY <1>1, <1>2

LEMMA Cancelling ==
  ASSUME NEW x \in Int, NEW y \in Int, NEW s \in Nat, s > 0, x * s < y * s
  PROVE  x < y
OBVIOUS

\* The volume that is read is one of the percents.
LEMMA ReadsPercents ==
  ASSUME NEW s \in Nat, s > 0, NEW v \in 0..s
  PROVE  (MAX_VOL * v) \div s \in Percents
<1> DEFINE m == MAX_VOL
           p == (m * v) \div s
<1>1. m \in Nat /\ m * v \in Nat
  BY SessionAssumption
<1>2. p \in Nat /\ p * s <= m * v
  BY <1>1, DivisionFacts
<1>3. m * v <= m * s
  BY <1>1
<1>4. p * s < (m + 1) * s
  <2>1. (m + 1) * s = m * s + s
    BY <1>1
  <2> HIDE DEF m, p
  <2> QED BY <1>1, <1>2, <1>3, <2>1
<1>5. p < m + 1
  <2> HIDE DEF m, p
  <2> QED BY <1>1, <1>2, <1>4, Cancelling
<1> QED BY <1>1, <1>2, <1>5 DEF Percents

\* The whole range is MAX_VOL percents.
LEMMA ReadsAll ==
  ASSUME NEW s \in Nat, s > 0
  PROVE  (MAX_VOL * s) \div s = MAX_VOL
BY SessionAssumption

\* What is set is read back as more by one percent at most and as less by one step
\* of the mixer at most, and none and all exactly, unless it is above the range.
LEMMA SetIsReadBack ==
  ASSUME NEW s \in Nat, s > 0, NEW t \in Percents, NEW v \in 0..s,
         LET w == (t * s) \div (MAX_VOL - 1) IN v = IF w > s THEN s ELSE w
  PROVE  LET p == (MAX_VOL * v) \div s
             g == (MAX_VOL + s - 1) \div s
         IN  /\ p \in Percents /\ g \in Nat
             /\ p <= t + 1 /\ t - p <= g
             /\ t = 0 => p = 0
             /\ t = MAX_VOL => p = MAX_VOL
<1> DEFINE m == MAX_VOL
           w == (t * s) \div (m - 1)
           p == (m * v) \div s
           g == (m + s - 1) \div s
<1>1. m \in Nat /\ m > 1 /\ t \in Nat /\ t <= m /\ p \in Percents /\ p \in Nat /\ p <= m
  BY SessionAssumption, ReadsPercents DEF Percents
<1>2. t * s \in Nat /\ m + s - 1 \in Nat /\ m * v \in Nat /\ m - 1 \in Nat /\ m - 1 > 0
  BY <1>1
<1>3. w \in Nat /\ w * (m - 1) <= t * s /\ t * s < w * (m - 1) + (m - 1)
  BY <1>2, DivisionFacts
<1>4. g \in Nat /\ m + s - 1 < g * s + s
  BY <1>2, DivisionFacts
<1>5. g * s >= m
  BY <1>1, <1>4
<1>6. p * s <= m * v /\ m * v < p * s + s
  BY <1>2, DivisionFacts
<1>7. v = IF w > s THEN s ELSE w
  OBVIOUS
<1>8. CASE t = 0
  <2>1. w = 0
    BY <1>2, <1>8
  <2>2. v = 0
    BY <1>7, <2>1
  <2>3. p = 0
    BY <1>1, <2>2
  <2> QED BY <1>1, <1>4, <1>8, <2>3
<1>9. CASE t >= m - 1
  <2>1. w >= s
    <3>1. t * s >= (m - 1) * s
      BY <1>1, <1>9
    <3>2. s * (m - 1) < (w + 1) * (m - 1)
      <4>1. (w + 1) * (m - 1) = w * (m - 1) + (m - 1) /\ s * (m - 1) = (m - 1) * s
        BY <1>1, <1>3
      <4> HIDE DEF m, w
      <4> QED BY <1>1, <1>2, <1>3, <3>1, <4>1
    <3>3. s < w + 1
      <4> HIDE DEF m, w
      <4> QED BY <1>2, <1>3, <3>2, Cancelling
    <3> QED BY <1>3, <3>3
  <2>2. v = s
    BY <1>3, <1>7, <2>1
  <2>3. p = m
    BY <2>2, ReadsAll
  <2> QED BY <1>1, <1>4, <1>9, <2>3
<1>10. CASE t < m - 1
  <2>1. v = w
    <3>1. t * s <= s * (m - 1)
      BY <1>1, <1>10
    <3>2. w * (m - 1) < (s + 1) * (m - 1)
      <4>1. (s + 1) * (m - 1) = s * (m - 1) + (m - 1)
        BY <1>1
      <4> HIDE DEF m, w
      <4> QED BY <1>1, <1>2, <1>3, <3>1, <4>1
    <3>3. w < s + 1
      <4> HIDE DEF m, w
      <4> QED BY <1>2, <1>3, <3>2, Cancelling
    <3> QED BY <1>3, <1>7, <3>3
  <2>2. w * (m - 1) = m * v - v
    <3>1. v * (m - 1) = v * m - v /\ v * m = m * v
      BY <1>1
    <3> QED BY <2>1, <3>1
  <2>3. p <= t
    <3>1. v <= s
      OBVIOUS
    <3>2. p * s < (t + 1) * s
      <4>1. (t + 1) * s = t * s + s
        BY <1>1
      <4>2. CASE v < s
        <5> HIDE DEF m, w, p
        <5> QED BY <1>1, <1>2, <1>3, <1>6, <2>2, <4>1, <4>2
      <4>3. CASE v = s
        <5>1. w * (m - 1) = (m - 1) * s
          BY <1>1, <2>1, <4>3
        <5>2. t * s < (m - 1) * s
          BY <1>1, <1>10
        <5> HIDE DEF m, w
        <5> QED BY <1>1, <1>2, <1>3, <5>1, <5>2
      <4> QED BY <3>1, <4>2, <4>3
    <3>3. p < t + 1
      <4> HIDE DEF m, p
      <4> QED BY <1>1, <3>2, Cancelling
    <3> QED BY <1>1, <3>3
  <2>4. t - p <= g
    <3>1. t * s < (p + g + 1) * s
      <4>1. (p + g + 1) * s = p * s + g * s + s
        BY <1>1, <1>4
      <4>2. p * s \in Int /\ g * s \in Int
        BY <1>1, <1>4
      <4> HIDE DEF m, w, p, g
      <4> QED BY <1>1, <1>2, <1>3, <1>5, <1>6, <2>2, <4>1, <4>2
    <3>2. t < p + g + 1
      <4> HIDE DEF m, p, g
      <4> QED BY <1>1, <1>4, <3>1, Cancelling
    <3> QED BY <1>1, <1>4, <3>2
  <2>5. t # m /\ (t = 0 => p = 0)
    BY <1>1, <1>10, <2>3
  <2> QED BY <1>1, <1>4, <2>3, <2>4, <2>5
<1> QED BY <1>1, <1>8, <1>9, <1>10

\* What is known of a sound, and what sounds are made of it.
LEMMA SoundFacts ==
  ASSUME NEW d \in Sounds
  PROVE  /\ d.muted \in BOOLEAN /\ d.span \in Nat /\ d.span > 0 /\ d.raw \in 0..d.span
         /\ \A v \in 0..d.span :
              /\ [d EXCEPT !.raw = v] \in Sounds
              /\ [d EXCEPT !.raw = v].muted = d.muted
              /\ [d EXCEPT !.raw = v].span = d.span
              /\ [d EXCEPT !.raw = v].raw = v
         /\ \A b \in BOOLEAN :
              /\ [d EXCEPT !.muted = b] \in Sounds
              /\ [d EXCEPT !.muted = b].muted = b
<1>1. PICK s \in Spans : d \in [muted : BOOLEAN, span : {s}, raw : 0..s]
  BY DEF Sounds
<1>2. d.muted \in BOOLEAN /\ d.span = s /\ d.raw \in 0..s /\ s \in Nat /\ s > 0
  BY <1>1, SessionAssumption
<1>3. ASSUME NEW v \in 0..s
      PROVE  /\ [d EXCEPT !.raw = v] \in Sounds
             /\ [d EXCEPT !.raw = v].muted = d.muted
             /\ [d EXCEPT !.raw = v].span = d.span
             /\ [d EXCEPT !.raw = v].raw = v
  <2>1. [d EXCEPT !.raw = v] \in [muted : BOOLEAN, span : {s}, raw : 0..s]
    BY <1>1, Zenon
  <2>2. /\ [d EXCEPT !.raw = v].muted = d.muted
        /\ [d EXCEPT !.raw = v].span = d.span
        /\ [d EXCEPT !.raw = v].raw = v
    BY <1>1
  <2> QED BY <2>1, <2>2 DEF Sounds
<1>4. ASSUME NEW b \in BOOLEAN
      PROVE  [d EXCEPT !.muted = b] \in Sounds /\ [d EXCEPT !.muted = b].muted = b
  <2>1. [d EXCEPT !.muted = b] \in [muted : BOOLEAN, span : {s}, raw : 0..s]
    BY <1>1, Zenon
  <2>2. [d EXCEPT !.muted = b].muted = b
    BY <1>1
  <2> QED BY <2>1, <2>2 DEF Sounds
<1> QED BY <1>2, <1>3, <1>4

LEMMA VolumeFacts ==
  ASSUME desktop \in Sounds
  PROVE  Volume \in Percents /\ Volume \in Int /\ Grain \in Nat
<1>1. desktop.span \in Nat /\ desktop.span > 0 /\ desktop.raw \in 0..desktop.span
  BY SoundFacts
<1>2. MAX_VOL + desktop.span - 1 \in Nat
  BY <1>1, SessionAssumption
<1>3. Volume \in Percents
  BY <1>1, ReadsPercents DEF Volume
<1> QED BY <1>1, <1>2, <1>3, DivisionFacts DEF Grain, Percents

\* The volume asked for stays within the percents.
LEMMA LimitsHold == \A v \in Int : InRange(v) \in Percents
BY SessionAssumption DEF InRange, Percents

\* A volume that is set is one of the mixer, or above its range.
LEMMA NewRawFacts ==
  ASSUME desktop \in Sounds, NEW c, c.command.number \in Int
  PROVE  InRange(Volume + c.command.number) \in Percents /\ NewRaw(c) \in Nat
<1>1. InRange(Volume + c.command.number) \in Percents
  <2>1. Volume + c.command.number \in Int
    BY VolumeFacts
  <2> QED BY <2>1, LimitsHold
<1>2. desktop.span \in Nat /\ MAX_VOL - 1 \in Nat /\ MAX_VOL - 1 > 0
  BY SoundFacts, SessionAssumption
<1>3. InRange(Volume + c.command.number) * desktop.span \in Nat
  BY <1>1, <1>2 DEF Percents
<1> QED BY <1>1, <1>2, <1>3, DivisionFacts DEF NewRaw, RawOf

\* An answer, and the sound, stay within their sets.
LEMMA ExecutingKeepsType ==
  ASSUME SessionTypeOK, current # None
  PROVE  Answer(current) \in Answers /\ SoundsAfter(current) \subseteq Sounds
<1>1. Answer(current) \in Answers
  <2>1. Volume \in Percents
    BY VolumeFacts DEF SessionTypeOK
  <2> QED BY <2>1 DEF Answer, Answers, Line, SessionTypeOK
<1>2. desktop \in Sounds
  BY DEF SessionTypeOK
<1>3. CASE current.command.word = "chg_vol"
  <2>1. current.command \in Commands \cup {Nothing}
    BY DEF SessionTypeOK
  <2>2. current.command.number \in Int
    BY <2>1 DEF Commands, Changes, Nothing, Line
  <2>3. NewRaw(current) \in Nat
    BY <1>2, <2>2, NewRawFacts
  <2>4. (IF NewRaw(current) > desktop.span THEN {desktop.raw, desktop.span} ELSE {NewRaw(current)}) \subseteq 0..desktop.span
    BY <1>2, <2>3, SoundFacts
  <2> DEFINE V == IF NewRaw(current) > desktop.span THEN {desktop.raw, desktop.span} ELSE {NewRaw(current)}
  <2>5. SoundsAfter(current) = {[desktop EXCEPT !.raw = v] : v \in V}
    BY <1>3 DEF SoundsAfter
  <2> HIDE DEF V
  <2>6. V \subseteq 0..desktop.span
    BY <2>4 DEF V
  <2> QED BY <1>1, <1>2, <2>5, <2>6, SoundFacts
<1>4. CASE current.command.word # "chg_vol"
  <2>1. \A b \in BOOLEAN : [desktop EXCEPT !.muted = b] \in Sounds
    BY <1>2, SoundFacts
  <2> QED BY <1>1, <1>2, <1>4, <2>1 DEF SoundsAfter
<1> QED BY <1>3, <1>4

\* Moving the bar is one of the changes.
LEMMA MovesAreChanges == \A v, w \in Percents : v - w \in Changes
BY SessionAssumption DEF Percents, Changes

\* The session's types are kept by each step.
LEMMA TypeKept == SessionTypeOK /\ [Next]_vars => SessionTypeOK'
<1> SUFFICES ASSUME SessionTypeOK, [Next]_vars PROVE SessionTypeOK'
  OBVIOUS
<1> USE DEF callVars, controlVars, daemonVars
<1>1. CASE Receive
  <2>1. PICK n \in 1..Len(commands) :
          /\ current' = [command |-> Head(commands), merged |-> n > 1]
          /\ commands' = SubSeq(commands, n + 1, Len(commands))
    BY <1>1 DEF Receive
  <2>2. commands \in Seq(Commands) /\ commands # <<>>
    BY <2>1 DEF SessionTypeOK
  <2>3. Head(commands) \in Commands
    BY <2>2, HeadTailProperties
  <2>4. commands' \in Seq(Commands)
    BY <2>1, <2>2, SubSeqProperties
  <2> QED BY <1>1, <2>1, <2>3, <2>4 DEF Receive, SessionTypeOK
<1>2. CASE Execute
  <2>1. current' \in [command : Commands \cup {Nothing}, merged : BOOLEAN]
    BY <1>2 DEF Execute, None
  <2>2. answers' \in Seq(Answers)
    BY <1>2, ExecutingKeepsType, AppendProperties DEF Execute, SessionTypeOK
  <2>3. desktop' \in Sounds
    BY <1>2, ExecutingKeepsType DEF Execute
  <2>4. ignored' \in BOOLEAN
    BY <1>2 DEF Execute, SessionTypeOK
  <2>5. UNCHANGED <<callVars, controlVars, closed, commands, late, slides>>
    BY <1>2 DEF Execute
  <2> QED BY <2>1, <2>2, <2>3, <2>4, <2>5 DEF SessionTypeOK
<1>3. CASE Close
  BY <1>3 DEF Close, SessionTypeOK
<1>4. CASE Greet
  <2>1. answers' \in Seq(Answers) /\ late' \in Nat
    BY <1>4, ReadingKeepsType DEF Greet, Answers
  <2>2. Line("is_muted", 0) \in Commands
    BY DEF Commands
  <2>3. commands' \in Seq(Commands)
    BY <1>4, <2>2, SendingKeepsType DEF Greet, Call, SessionTypeOK
  <2> QED BY <1>4, <2>1, <2>3 DEF Greet, Call, Calls, SessionTypeOK
<1>5. CASE AskMuted
  <2>1. answers' \in Seq(Answers) /\ late' \in Nat
    BY <1>5, ReadingKeepsType DEF AskMuted, Answers
  <2>2. Line("get_vol", 0) \in Commands
    BY DEF Commands
  <2>3. commands' \in Seq(Commands)
    BY <1>5, <2>2, SendingKeepsType DEF AskMuted, Call, SessionTypeOK
  <2> QED BY <1>5, <2>1, <2>3 DEF AskMuted, Call, Calls, SessionTypeOK
<1>6. CASE AskVolume
  <2>1. answers' \in Seq(Answers) /\ late' \in Nat
    BY <1>6, ReadingKeepsType DEF AskVolume, Answers
  <2>2. (\E v \in Percents : bar' = [enabled |-> TRUE, at |-> v]) \/ bar' = bar
    BY <1>6 DEF AskVolume
  <2>3. phone' \in Calls \cup {"idle", "refused", "crashed"}
    BY <1>6 DEF AskVolume
  <2>4. bar' \in [enabled : BOOLEAN, at : Percents]
    <3>1. bar \in [enabled : BOOLEAN, at : Percents]
      BY DEF SessionTypeOK
    <3>2. \A v \in Percents : [enabled |-> TRUE, at |-> v] \in [enabled : BOOLEAN, at : Percents]
      OBVIOUS
    <3> QED BY <2>2, <3>1, <3>2, Zenon
  <2>5. UNCHANGED <<prev, shownMuted, commands, closed, current, desktop>>
    BY <1>6 DEF AskVolume
  <2>6. (slides' = 0 /\ ignored' = FALSE) \/ UNCHANGED <<slides, ignored>>
    BY <1>6 DEF AskVolume
  <2>7. slides' \in Nat /\ ignored' \in BOOLEAN
    <3>1. CASE slides' = 0 /\ ignored' = FALSE
      BY <3>1
    <3>2. CASE UNCHANGED <<slides, ignored>>
      BY <3>2 DEF SessionTypeOK
    <3> QED BY <2>6, <3>1, <3>2
  <2> QED BY <2>1, <2>3, <2>4, <2>5, <2>7 DEF SessionTypeOK
<1>7. CASE Clicked
  <2>1. answers' \in Seq(Answers) /\ late' \in Nat
    BY <1>7, ReadingKeepsType DEF Clicked, Answers
  <2>2. Line("get_vol", 0) \in Commands
    BY DEF Commands
  <2>3. commands' \in Seq(Commands)
    BY <1>7, <2>2, SendingKeepsType DEF Clicked, Call, SessionTypeOK
  <2>4. shownMuted' \in BOOLEAN
    BY <1>7 DEF Clicked, SessionTypeOK
  <2>5. bar' \in [enabled : BOOLEAN, at : Percents]
    BY <1>7 DEF Clicked, SessionTypeOK
  <2>6. phone' \in Calls \cup {"idle", "refused", "crashed"}
    BY <1>7 DEF Clicked, Call, Calls, SessionTypeOK
  <2> QED BY <1>7, <2>1, <2>3, <2>4, <2>5, <2>6 DEF Clicked, SessionTypeOK
<1>8. CASE Slid
  <2>1. answers' \in Seq(Answers) /\ late' \in Nat
    BY <1>8, ReadingKeepsType DEF Slid, Answers
  <2> QED BY <1>8, <2>1 DEF Slid, Calls, SessionTypeOK
<1>9. CASE Click
  <2>1. PICK word \in {"mute", "unmute"} : Call(word, Line(word, 0))
    BY <1>9 DEF Click
  <2>2. commands' \in Seq(Commands)
    BY <2>1, SendingKeepsType DEF Call, Commands
  <2> QED BY <1>9, <2>1, <2>2 DEF Click, Call, Calls, SessionTypeOK
<1>10. CASE Slide
  <2>1. PICK v \in Percents :
          /\ prev' = bar.at /\ bar' = [bar EXCEPT !.at = v]
          /\ Call("chg_vol", Line("chg_vol", v - bar.at))
    BY <1>10 DEF Slide
  <2>2. bar.at \in Percents
    BY DEF SessionTypeOK
  <2>3. Line("chg_vol", v - bar.at) \in Commands
    BY <2>2, MovesAreChanges DEF Commands
  <2>4. commands' \in Seq(Commands)
    BY <2>1, <2>3, SendingKeepsType DEF Call
  <2>5. slides' \in Nat
    BY <1>10 DEF Slide, SessionTypeOK
  <2>6. bar' \in [enabled : BOOLEAN, at : Percents] /\ prev' \in Percents
    BY <2>1, <2>2 DEF SessionTypeOK
  <2>7. phone' = "chg_vol" /\ UNCHANGED <<shownMuted, daemonVars, answers, late>>
    BY <1>10, <2>1 DEF Slide, Call
  <2> QED BY <2>4, <2>5, <2>6, <2>7 DEF Calls, SessionTypeOK
<1>11. CASE UNCHANGED vars
  BY <1>11 DEF vars, SessionTypeOK
<1> QED BY <1>1, <1>2, <1>3, <1>4, <1>5, <1>6, <1>7, <1>8, <1>9, <1>10, <1>11 DEF Next, Return

\* Every variable keeps its type: the volume stays within its limits although late
\* commands change it, and what goes over the connection is a command or an answer.
THEOREM SessionTypeCorrect == Spec => []SessionTypeOK
<1>1. Init => SessionTypeOK
  <2> SUFFICES ASSUME Init PROVE SessionTypeOK
    OBVIOUS
  <2>1. 0 \in Percents
    BY SessionAssumption DEF Percents
  <2>2. commands \in Seq(Commands) /\ answers \in Seq(Answers)
    BY DEF Init, Commands
  <2>3. current \in [command : Commands \cup {Nothing}, merged : BOOLEAN]
    BY DEF Init, None
  <2>4. prev \in Percents /\ shownMuted \in BOOLEAN /\ bar \in [enabled : BOOLEAN, at : Percents]
    BY <2>1 DEF Init
  <2> QED BY <2>2, <2>3, <2>4 DEF Init, SessionTypeOK, Calls
<1> QED BY <1>1, TypeKept, PTL DEF Spec
-----------------------------------------------------------------------------
(* Calls that gave up and answers that are late *)

\* What a step does to the commands, and what it gives up.
LEMMA BehindKept == SessionTypeOK /\ AtMostLateBehind /\ [Next]_vars => AtMostLateBehind'
<1> SUFFICES ASSUME SessionTypeOK, AtMostLateBehind, [Next]_vars, ~closed' PROVE (Pending <= late + (IF Waiting THEN 1 ELSE 0))'
  BY DEF AtMostLateBehind
<1> USE DEF callVars, controlVars, daemonVars
<1>1. ~closed
  BY DEF Next, Receive, Execute, Close, Return, Greet, AskMuted, AskVolume, Clicked, Slid, Click, Slide, vars
<1>2. /\ commands \in Seq(Commands) /\ answers \in Seq(Answers) /\ late \in Nat
      /\ Pending <= late + (IF Waiting THEN 1 ELSE 0)
  BY <1>1 DEF SessionTypeOK, AtMostLateBehind
\* A call that returns has read a line, or has given up.
<1>3. ASSUME (\E a \in Answers : receiveStr(a)) \/ IoException \/ EndOfStream
      PROVE  /\ answers' \in Seq(Answers) /\ late' \in Nat
             /\ Len(answers') - late' = Len(answers) - late - 1
  <2>1. CASE \E a \in Answers : receiveStr(a)
    <3>1. answers # <<>> /\ answers' = Tail(answers) /\ late' = late
      BY <2>1 DEF receiveStr
    <3> QED BY <3>1, <1>2, HeadTailProperties
  <2>2. CASE IoException \/ EndOfStream
    BY <1>1, <1>2, <2>2 DEF IoException, TimesOut, EndOfStream
  <2> QED BY <1>3, <2>1, <2>2
\* What a call writes is one command.
<1>4. ASSUME NEW c, sendStr(c)
      PROVE  Len(commands') = Len(commands) + 1
  BY <1>1, <1>2, <1>4 DEF sendStr
<1>5. CASE Receive
  <2>1. PICK n \in 1..Len(commands) :
          /\ current' = [command |-> Head(commands), merged |-> n > 1]
          /\ commands' = SubSeq(commands, n + 1, Len(commands))
    BY <1>5 DEF Receive
  <2>2. Len(commands') = Len(commands) - n
    BY <1>2, <2>1
  <2>3. current = None /\ UNCHANGED <<answers, late, phone>>
    BY <1>5 DEF Receive
  <2>4. Len(commands) \in Nat /\ Len(answers) \in Nat /\ n >= 1 /\ n <= Len(commands)
    BY <1>2, <2>1
  <2>5. Pending = Len(commands) + Len(answers)
    BY <2>3, <2>4 DEF Pending
  <2>6. (Len(commands') + (IF current = None THEN 0 ELSE 1)' + Len(answers')) <= Len(commands) + Len(answers)
    BY <2>2, <2>3, <2>4
  <2>7. Pending' <= Pending
    BY <2>5, <2>6 DEF Pending
  <2>8. Pending \in Int /\ Pending' \in Int /\ late' = late /\ Waiting' = Waiting
    BY <2>2, <2>3, <2>4, <2>5 DEF Pending, Waiting
  <2> QED BY <1>2, <2>7, <2>8
<1>6. CASE Execute
  <2>1. Len(answers') = Len(answers) + 1
    BY <1>1, <1>2, <1>6, ExecutingKeepsType, AppendProperties DEF Execute
  <2> QED BY <1>2, <1>6, <2>1 DEF Execute, Pending, Waiting
<1>7. CASE Close
  BY <1>7 DEF Close
<1>8. CASE Return
  <2>1. UNCHANGED current
    BY <1>8 DEF Return, Greet, AskMuted, AskVolume, Clicked, Slid
  <2>2. Waiting
    BY <1>8 DEF Return, Greet, AskMuted, AskVolume, Clicked, Slid, Waiting, Calls
  <2>3. /\ answers' \in Seq(Answers) /\ late' \in Nat
        /\ Len(answers') - late' = Len(answers) - late - 1
    BY <1>3, <1>8 DEF Return, Greet, AskMuted, AskVolume, Clicked, Slid, Answers
  <2>4. \/ commands' = commands
        \/ Len(commands') = Len(commands) + 1 /\ Waiting'
    BY <1>4, <1>8 DEF Return, Greet, AskMuted, AskVolume, Clicked, Slid, Call, Waiting, Calls
  <2> QED BY <1>2, <2>1, <2>2, <2>3, <2>4 DEF Pending
<1>9. CASE Click \/ Slide
  <2>1. ~Waiting /\ Waiting' /\ UNCHANGED <<current, answers, late>>
    BY <1>9 DEF Click, Slide, Touch, Call, Waiting, Calls
  <2>2. Len(commands') = Len(commands) + 1
    BY <1>4, <1>9 DEF Click, Slide, Call
  <2> QED BY <1>2, <2>1, <2>2 DEF Pending
<1>10. CASE UNCHANGED vars
  BY <1>2, <1>10 DEF vars, Pending, Waiting
<1> QED BY <1>5, <1>6, <1>7, <1>8, <1>9, <1>10 DEF Next

\* However commands are merged and answers delayed, a call is behind by no more
\* answers than calls have given up before it; in time, by none.
THEOREM BehindCorrect == Spec => []AtMostLateBehind
<1>1. Init => AtMostLateBehind
  BY DEF Init, AtMostLateBehind, Pending, Waiting, Calls
<1> QED BY <1>1, SessionTypeCorrect, BehindKept, PTL DEF Spec
-----------------------------------------------------------------------------
(* What the controls show *)

\* What ShownIsTrue rests on.  The one command under way, and where it is.
Sent(c) == commands = <<c>> /\ current = None /\ answers = <<>>
Executed(c) == commands = <<>> /\ current = [command |-> c, merged |-> FALSE] /\ answers = <<>>
Answered(a) == commands = <<>> /\ current = None /\ answers = <<a>>
Asked(c) == Sent(c) \/ Executed(c)
Quiet == commands = <<>> /\ current = None /\ answers = <<>>

\* The controls show the sound that the desktop has, or had before the call.
ShowsMuted == shownMuted = desktop.muted /\ bar.enabled = ~desktop.muted
Audible == ~shownMuted /\ ~desktop.muted

\* Call by call, what is under way and what the controls show, on a connection on
\* which no call has given up.
InTime ==
  /\ phone # "crashed"
  /\ phone \in {"idle", "refused"} => Quiet
  /\ phone = "idle" => ShowsMuted /\ (bar.enabled /\ ~ignored => Near(bar.at, slides))
  /\ phone = "hello" => /\ Asked(Line("hello", 0)) \/ Answered(Line("hello", 0))
                        /\ ~shownMuted /\ ~bar.enabled
  /\ phone = "is_muted" =>
       /\ Asked(Line("is_muted", 0)) \/ Answered(Line(IF desktop.muted THEN "true" ELSE "false", 0))
       /\ ~shownMuted /\ ~bar.enabled
  /\ phone \in {"get_vol", "get_vol of a click"} =>
       /\ Asked(Line("get_vol", 0)) \/ Answered(Line("percents", Volume))
       /\ Audible
  /\ phone = "mute" => /\ ~shownMuted
                       /\ \/ Asked(Line("mute", 0)) /\ ShowsMuted
                          \/ Answered(Line("OK", 0)) /\ desktop.muted
  /\ phone = "unmute" => /\ shownMuted
                         /\ \/ Asked(Line("unmute", 0)) /\ ShowsMuted
                            \/ Answered(Line("OK", 0)) /\ ~desktop.muted
  /\ phone = "chg_vol" =>
       /\ Audible /\ bar.enabled
       /\ \/ /\ Asked(Line("chg_vol", bar.at - prev))
             /\ slides > 0 /\ (~ignored => Near(prev, slides - 1))
          \/ Answered(Line("OK", 0)) /\ (~ignored => Near(bar.at, slides))

ShownInv == late = 0 /\ ~closed => InTime

\* What the daemon receives is the one command that was sent ...
LEMMA ReceivesWhatWasSent ==
  ASSUME SessionTypeOK, Receive, NEW c, Asked(c)
  PROVE  Asked(c)'
<1>1. current = None
  BY DEF Receive
<1>2. CASE Sent(c)
  <2>1. PICK n \in 1..Len(commands) :
          /\ current' = [command |-> Head(commands), merged |-> n > 1]
          /\ commands' = SubSeq(commands, n + 1, Len(commands))
    BY DEF Receive
  <2>2. commands = <<c>> /\ Len(commands) = 1 /\ Head(commands) = c /\ n = 1
    BY <1>2, <2>1 DEF Sent
  <2>3. commands' \in Seq(Commands) /\ Len(commands') = 0
    BY <2>1, <2>2, SubSeqProperties DEF SessionTypeOK
  <2>4. answers' = <<>>
    BY <1>2 DEF Sent, Receive
  <2>5. commands' = <<>> /\ current' = [command |-> c, merged |-> FALSE]
    <3>1. commands' = <<>>
      BY <2>3, EmptySeq
    <3>2. (n > 1) = FALSE
      BY <2>2
    <3> QED BY <2>1, <2>2, <3>1, <3>2, Zenon
  <2> QED BY <2>4, <2>5 DEF Asked, Executed
<1>3. CASE Executed(c)
  BY <1>3 DEF Executed, Receive
<1> QED BY <1>2, <1>3 DEF Asked

\* ... and what it answers is that command.
LEMMA AnswersWhatItReceived ==
  ASSUME Execute, ~closed, NEW c, Asked(c)
  PROVE  /\ commands' = <<>> /\ current' = None
         /\ answers' = <<Answer([command |-> c, merged |-> FALSE])>>
         /\ desktop' \in SoundsAfter([command |-> c, merged |-> FALSE])
         /\ ignored' = (ignored \/ Ignores([command |-> c, merged |-> FALSE]))
<1>1. current # None /\ current' = None /\ commands' = commands
  BY DEF Execute
<1>2. Executed(c)
  BY <1>1 DEF Asked, Sent
<1>3. current = [command |-> c, merged |-> FALSE] /\ commands' = <<>>
  BY <1>1, <1>2 DEF Executed
<1>4. answers' = <<Answer(current)>> /\ desktop' \in SoundsAfter(current) /\ ignored' = (ignored \/ Ignores(current))
  BY <1>2 DEF Execute, Executed
<1> QED BY <1>1, <1>3, <1>4

\* Without a call that gives up, a call returns with the answer that is there.
LEMMA ReadsTheAnswer ==
  ASSUME SessionTypeOK, ~closed, late = 0, late' = 0,
         (\E a \in Answers : receiveStr(a)) \/ IoException \/ EndOfStream
  PROVE  /\ ~IoException /\ ~EndOfStream
         /\ \A c : ~Asked(c)
         /\ \A a : Answered(a) =>
              /\ \A b : receiveStr(b) => b = a
              /\ current = None /\ commands = <<>> /\ answers' = <<>>
<1>1. ~IoException /\ ~EndOfStream
  BY DEF IoException, TimesOut, EndOfStream
<1>2. answers # <<>> /\ answers' = Tail(answers)
  BY <1>1 DEF receiveStr
<1>3. \A c : ~Asked(c)
  BY <1>2 DEF Asked, Sent, Executed
<1>4. ASSUME NEW a, Answered(a)
      PROVE  /\ \A b : receiveStr(b) => b = a
             /\ current = None /\ commands = <<>> /\ answers' = <<>>
  BY <1>2, <1>4 DEF Answered, receiveStr
<1> QED BY <1>1, <1>3, <1>4

\* The next call begins with nothing else under way.
LEMMA CallsAlone ==
  ASSUME ~closed, NEW c, sendStr(c), commands = <<>>, current' = None, answers' = <<>>
  PROVE  Asked(c)'
BY DEF sendStr, Asked, Sent

\* A move of a bar that was near the volume leaves it near, by one percent or one
\* step of the mixer less.
LEMMA MoveArithmetic ==
  ASSUME NEW s \in Nat, s > 0, NEW r \in 0..s, NEW v \in 0..s, NEW n \in Nat,
         NEW at \in Percents, NEW before \in Percents,
         LET w == (InRange((MAX_VOL * r) \div s + (at - before)) * s) \div (MAX_VOL - 1)
         IN  v = IF w > s THEN s ELSE w,
         before - (MAX_VOL * r) \div s >= -n,
         before - (MAX_VOL * r) \div s <= n * ((MAX_VOL + s - 1) \div s)
  PROVE  /\ at - (MAX_VOL * v) \div s >= -(n + 1)
         /\ at - (MAX_VOL * v) \div s <= (n + 1) * ((MAX_VOL + s - 1) \div s)
<1> DEFINE m == MAX_VOL
           p == (m * r) \div s
           q == (m * v) \div s
           g == (m + s - 1) \div s
           t == InRange(p + (at - before))
<1>1. m \in Nat /\ at \in 0..m /\ before \in 0..m /\ p \in 0..m
  BY SessionAssumption, ReadsPercents DEF Percents
<1>2. t \in Percents /\ t = IF p + (at - before) < 0 THEN 0 ELSE IF p + (at - before) > m THEN m ELSE p + (at - before)
  <2>1. p + (at - before) \in Int
    BY <1>1
  <2> QED BY <2>1, LimitsHold DEF InRange
<1>3. q \in 0..m /\ g \in Nat /\ q <= t + 1 /\ t - q <= g /\ (t = 0 => q = 0) /\ (t = m => q = m)
  <2>1. LET w == (t * s) \div (MAX_VOL - 1) IN v = IF w > s THEN s ELSE w
    OBVIOUS
  <2> HIDE DEF t
  <2>2. /\ q \in Percents /\ g \in Nat
        /\ q <= t + 1 /\ t - q <= g
        /\ t = 0 => q = 0
        /\ t = MAX_VOL => q = MAX_VOL
    BY <1>2, <2>1, SetIsReadBack
  <2> QED BY <2>2 DEF Percents
<1>4. n * g \in Nat /\ (n + 1) * g = n * g + g
  BY <1>3
<1>5. before - p >= -n /\ before - p <= n * g
  OBVIOUS
<1> HIDE DEF m, p, q, g, t
<1>6. at - q >= -(n + 1) /\ at - q <= (n + 1) * g
  BY <1>1, <1>2, <1>3, <1>4, <1>5
<1> QED BY <1>6 DEF m, q, g

LEMMA MovesNear ==
  ASSUME SessionTypeOK, NEW n \in Nat, NEW at \in Percents, NEW before \in Percents, Near(before, n),
         NEW c, c.command = Line("chg_vol", at - before), desktop' \in SoundsAfter(c), ~Ignores(c)
  PROVE  at - Volume' >= -(n + 1) /\ at - Volume' <= (n + 1) * Grain'
<1> DEFINE s == desktop.span
           t == InRange(Volume + (at - before))
           w == (t * s) \div (MAX_VOL - 1)
<1>1. c.command.word = "chg_vol" /\ c.command.number = at - before /\ at - before \in Int
  BY SessionAssumption DEF Line, Percents
<1>2. NewRaw(c) = w /\ w \in Nat
  BY <1>1, NewRawFacts DEF NewRaw, RawOf, SessionTypeOK
<1>3. s \in Nat /\ s > 0 /\ desktop.raw \in 0..s
  BY SoundFacts DEF SessionTypeOK
<1>4. PICK v \in (IF w > s THEN {desktop.raw, s} ELSE {w}) : desktop' = [desktop EXCEPT !.raw = v]
  <2> HIDE DEF w, s
  <2>1. desktop' \in {[desktop EXCEPT !.raw = x] : x \in IF w > desktop.span THEN {desktop.raw, desktop.span} ELSE {w}}
    BY <1>1, <1>2 DEF SoundsAfter
  <2> QED BY <2>1 DEF s
<1>5. v \in 0..s
  <2> HIDE DEF w, s
  <2> QED BY <1>2, <1>3
<1>6. desktop'.span = s /\ desktop'.raw = v
  BY <1>4, <1>5, SoundFacts DEF SessionTypeOK
<1>7. v = IF w > s THEN s ELSE w
  <2>1. w > s => v = s
    BY <1>1, <1>2, <1>6 DEF Ignores
  <2> HIDE DEF w, s
  <2> QED BY <1>2, <1>3, <2>1
<1>8. Volume = (MAX_VOL * desktop.raw) \div s /\ Grain = (MAX_VOL + s - 1) \div s
  BY DEF Volume, Grain
<1>9. Volume' = (MAX_VOL * v) \div s /\ Grain' = (MAX_VOL + s - 1) \div s
  BY <1>6 DEF Volume, Grain
<1>10. before - Volume >= -n /\ before - Volume <= n * Grain
  BY DEF Near
<1> QED BY <1>3, <1>5, <1>7, <1>8, <1>9, <1>10, MoveArithmetic

LEMMA ShownKept == SessionTypeOK /\ ShownInv /\ [Next]_vars => ShownInv'
<1> SUFFICES ASSUME SessionTypeOK, ShownInv, [Next]_vars, late' = 0, ~closed' PROVE InTime'
  BY DEF ShownInv
<1> USE DEF callVars, controlVars, daemonVars
<1>1. ~closed /\ late = 0
  <2>1. ~closed
    BY DEF Next, Receive, Execute, Close, Return, Greet, AskMuted, AskVolume, Clicked, Slid, Click, Slide, vars
  <2>2. late' = late \/ late' = late + 1
    BY DEF Next, Receive, Execute, Close, Return, Greet, AskMuted, AskVolume, Clicked, Slid, Click, Slide, vars,
           receiveStr, IoException, TimesOut, EndOfStream
  <2>3. late \in Nat
    BY DEF SessionTypeOK
  <2> QED BY <2>1, <2>2, <2>3
<1>2. InTime
  BY <1>1 DEF ShownInv
<1>3. CASE Receive
  <2>1. \A c : Asked(c) => Asked(c)'
    BY <1>3, ReceivesWhatWasSent
  <2>2. \A a : ~Answered(a)
    BY <1>3 DEF Answered, Receive
  <2>3. ~Quiet
    BY <1>3 DEF Quiet, Receive
  <2>4. UNCHANGED <<phone, prev, shownMuted, bar, slides, ignored, desktop>>
    BY <1>3 DEF Receive
  <2> QED BY <1>2, <2>1, <2>2, <2>3, <2>4 DEF InTime, ShowsMuted, Audible, Near, Volume, Grain
<1>4. CASE Execute
  <2> DEFINE X(c) == [command |-> c, merged |-> FALSE]
  <2>1. \A c : Asked(c) => /\ commands' = <<>> /\ current' = None /\ answers' = <<Answer(X(c))>>
                          /\ desktop' \in SoundsAfter(X(c)) /\ ignored' = (ignored \/ Ignores(X(c)))
    BY <1>1, <1>4, AnswersWhatItReceived
  <2>2. ~Quiet /\ \A a : ~Answered(a)
    BY <1>4 DEF Answered, Quiet, Execute
  <2>3. UNCHANGED <<phone, prev, shownMuted, bar, slides>>
    BY <1>4 DEF Execute
  <2>4. CASE phone = "hello"
    <3>1. Asked(Line("hello", 0))
      BY <1>2, <2>2, <2>4 DEF InTime
    <3>2. Answer(X(Line("hello", 0))) = Line("hello", 0)
      BY DEF Answer, Line
    <3>3. SoundsAfter(X(Line("hello", 0))) = {desktop}
      BY DEF SoundsAfter, Line
    <3>4. commands' = <<>> /\ current' = None /\ answers' = <<Line("hello", 0)>> /\ desktop' = desktop
      BY <2>1, <3>1, <3>2, <3>3
    <3>5. desktop \in Sounds
      BY DEF SessionTypeOK
    <3> QED BY <1>2, <2>3, <2>4, <3>4, <3>5 DEF InTime, Answered, Audible
  <2>5. CASE phone = "is_muted"
    <3>1. Asked(Line("is_muted", 0))
      BY <1>2, <2>2, <2>5 DEF InTime
    <3>2. Answer(X(Line("is_muted", 0))) = Line(IF desktop.muted THEN "true" ELSE "false", 0)
      BY DEF Answer, Line
    <3>3. SoundsAfter(X(Line("is_muted", 0))) = {desktop}
      BY DEF SoundsAfter, Line
    <3>4. commands' = <<>> /\ current' = None /\ answers' = <<Line(IF desktop.muted THEN "true" ELSE "false", 0)>> /\ desktop' = desktop
      BY <2>1, <3>1, <3>2, <3>3
    <3>5. desktop \in Sounds
      BY DEF SessionTypeOK
    <3> QED BY <1>2, <2>3, <2>5, <3>4, <3>5 DEF InTime, Answered, Audible
  <2>6. CASE phone \in {"get_vol", "get_vol of a click"}
    <3>1. Asked(Line("get_vol", 0))
      BY <1>2, <2>2, <2>6 DEF InTime
    <3>2. Answer(X(Line("get_vol", 0))) = Line("percents", Volume)
      BY DEF Answer, Line
    <3>3. SoundsAfter(X(Line("get_vol", 0))) = {desktop}
      BY DEF SoundsAfter, Line
    <3>4. commands' = <<>> /\ current' = None /\ answers' = <<Line("percents", Volume)>> /\ desktop' = desktop
          /\ Volume' = Volume
      BY <2>1, <3>1, <3>2, <3>3 DEF Volume
    <3>5. desktop \in Sounds
      BY DEF SessionTypeOK
    <3> QED BY <1>2, <2>3, <2>6, <3>4, <3>5 DEF InTime, Answered, Audible
  <2>7. CASE phone = "mute"
    <3>1. Asked(Line("mute", 0))
      BY <1>2, <2>2, <2>7 DEF InTime
    <3>2. Answer(X(Line("mute", 0))) = Line("OK", 0)
      BY DEF Answer, Line
    <3>3. SoundsAfter(X(Line("mute", 0))) = {[desktop EXCEPT !.muted = TRUE]}
      BY DEF SoundsAfter, Line
    <3>4. commands' = <<>> /\ current' = None /\ answers' = <<Line("OK", 0)>> /\ desktop' = [desktop EXCEPT !.muted = TRUE]
      BY <2>1, <3>1, <3>2, <3>3
    <3>5. desktop \in Sounds
      BY DEF SessionTypeOK
    <3> QED BY <1>2, <2>3, <2>7, <3>4, <3>5 DEF InTime, Answered, Audible
  <2>8. CASE phone = "unmute"
    <3>1. Asked(Line("unmute", 0))
      BY <1>2, <2>2, <2>8 DEF InTime
    <3>2. Answer(X(Line("unmute", 0))) = Line("OK", 0)
      BY DEF Answer, Line
    <3>3. SoundsAfter(X(Line("unmute", 0))) = {[desktop EXCEPT !.muted = FALSE]}
      BY DEF SoundsAfter, Line
    <3>4. commands' = <<>> /\ current' = None /\ answers' = <<Line("OK", 0)>> /\ desktop' = [desktop EXCEPT !.muted = FALSE]
      BY <2>1, <3>1, <3>2, <3>3
    <3>5. desktop \in Sounds
      BY DEF SessionTypeOK
    <3> QED BY <1>2, <2>3, <2>8, <3>4, <3>5 DEF InTime, Answered, Audible
  <2>9. CASE phone = "chg_vol"
    <3>1. /\ Asked(Line("chg_vol", bar.at - prev)) /\ Audible /\ bar.enabled
          /\ slides > 0 /\ (~ignored => Near(prev, slides - 1))
      BY <1>2, <2>2, <2>9 DEF InTime
    <3> DEFINE c == X(Line("chg_vol", bar.at - prev))
    <3>2. Answer(c) = Line("OK", 0)
      BY DEF Answer, Line
    <3>3. /\ commands' = <<>> /\ current' = None /\ answers' = <<Line("OK", 0)>>
          /\ desktop' \in SoundsAfter(c) /\ ignored' = (ignored \/ Ignores(c))
      BY <2>1, <3>1, <3>2
    <3>4. desktop'.muted = desktop.muted
      <4>1. current = c
        BY <1>4, <3>1 DEF Asked, Sent, Executed, Execute
      <4>2. c.command.word = "chg_vol" /\ c.command.number \in Int
        <5>1. bar.at \in Percents /\ prev \in Percents
          BY DEF SessionTypeOK
        <5> QED BY <5>1, SessionAssumption DEF Line, Percents
      <4>3. desktop \in Sounds
        BY DEF SessionTypeOK
      <4>4. desktop' \in {[desktop EXCEPT !.raw = v] : v \in IF NewRaw(c) > desktop.span THEN {desktop.raw, desktop.span}
                                                             ELSE {NewRaw(c)}}
        BY <3>3, <4>2 DEF SoundsAfter
      <4> HIDE DEF c
      <4>5. \E v : desktop' = [desktop EXCEPT !.raw = v]
        BY <4>4
      <4>6. desktop \in [muted : BOOLEAN, span : Nat, raw : Nat]
        <5>1. PICK s \in Spans : desktop \in [muted : BOOLEAN, span : {s}, raw : 0..s]
          BY <4>3 DEF Sounds
        <5> QED BY <5>1, SessionAssumption
      <4> QED BY <4>5, <4>6
    <3>5. ~ignored' => Near(bar.at, slides)'
      <4> SUFFICES ASSUME ~ignored' PROVE Near(bar.at, slides)'
        OBVIOUS
      <4>1. ~ignored /\ ~Ignores(c)
        BY <3>3
      <4>2. PICK n \in Nat : n = slides - 1
        BY <3>1 DEF SessionTypeOK
      <4>3. PICK at \in Percents, before \in Percents : at = bar.at /\ before = prev
        BY DEF SessionTypeOK
      <4>4. c.command = Line("chg_vol", at - before) /\ Near(before, n)
        BY <3>1, <4>1, <4>2, <4>3
      <4>5. at - Volume' >= -(n + 1) /\ at - Volume' <= (n + 1) * Grain'
        <5> HIDE DEF c
        <5> QED BY <3>3, <4>1, <4>4, MovesNear
      <4>6. bar' = bar /\ slides' = slides /\ slides = n + 1
        BY <2>3, <4>2 DEF SessionTypeOK
      <4> QED BY <4>3, <4>5, <4>6 DEF Near
    <3> QED BY <2>3, <2>9, <3>1, <3>3, <3>4, <3>5 DEF InTime, Answered, Audible
  <2> QED BY <1>2, <2>2, <2>3, <2>4, <2>5, <2>6, <2>7, <2>8, <2>9 DEF InTime, SessionTypeOK, Calls
<1>5. CASE Close
  BY <1>5 DEF Close
<1>6. CASE Return
  <2>1. (\E a \in Answers : receiveStr(a)) \/ IoException \/ EndOfStream
    BY <1>6 DEF Return, Greet, AskMuted, AskVolume, Clicked, Slid, Answers
  <2>2. /\ ~IoException /\ ~EndOfStream
        /\ \A c : ~Asked(c)
        /\ \A a : Answered(a) =>
             /\ \A b : receiveStr(b) => b = a
             /\ current = None /\ commands = <<>> /\ answers' = <<>>
    BY <1>1, <2>1, ReadsTheAnswer
  <2>3. UNCHANGED <<prev, closed, current, desktop>> /\ Volume' = Volume /\ Grain' = Grain
    BY <1>6 DEF Return, Greet, AskMuted, AskVolume, Clicked, Slid, Volume, Grain
  <2>4. ASSUME NEW c, sendStr(c), commands = <<>>, current = None, answers' = <<>>
        PROVE  Asked(c)'
    BY <1>1, <2>3, <2>4, CallsAlone
  <2>5. bar \in [enabled : BOOLEAN, at : Percents] /\ desktop \in Sounds
        /\ shownMuted \in BOOLEAN /\ desktop.muted \in BOOLEAN
    BY SoundFacts DEF SessionTypeOK
  <2>6. CASE Greet
    <3>1. phone = "hello" /\ Answered(Line("hello", 0))
      BY <1>2, <2>2, <2>6 DEF Greet, InTime
    <3>2. Call("is_muted", Line("is_muted", 0)) /\ UNCHANGED <<shownMuted, bar>>
      BY <2>2, <2>6, <3>1 DEF Greet
    <3>3. phone' = "is_muted" /\ Asked(Line("is_muted", 0))'
      BY <2>2, <2>4, <3>1, <3>2 DEF Call
    <3> QED BY <1>2, <3>1, <3>2, <3>3 DEF InTime
  <2>7. CASE AskMuted
    <3>1. /\ phone = "is_muted" /\ Answered(Line(IF desktop.muted THEN "true" ELSE "false", 0))
          /\ ~shownMuted /\ ~bar.enabled
      BY <1>2, <2>2, <2>7 DEF AskMuted, InTime
    <3>2. current = None /\ commands = <<>> /\ answers' = <<>>
      BY <2>2, <3>1
    <3>3. CASE desktop.muted
      <4>1. \A b : receiveStr(b) => b = Line("true", 0)
        BY <2>2, <3>1, <3>3
      <4>2. phone' = "idle" /\ shownMuted' = TRUE /\ bar' = [bar EXCEPT !.enabled = FALSE] /\ commands' = <<>>
        BY <2>2, <2>7, <3>2, <4>1 DEF AskMuted
      <4>3. Quiet'
        BY <2>3, <3>2, <4>2 DEF Quiet
      <4> QED BY <2>3, <2>5, <3>3, <4>2, <4>3 DEF InTime, ShowsMuted
    <3>4. CASE ~desktop.muted
      <4>1. \A b : receiveStr(b) => b = Line("false", 0)
        BY <2>2, <3>1, <3>4
      <4>2. Line("false", 0) # Line("true", 0)
        BY DEF Line
      <4>3. Call("get_vol", Line("get_vol", 0)) /\ UNCHANGED <<shownMuted, bar>>
        BY <2>2, <2>7, <4>1, <4>2 DEF AskMuted
      <4>4. phone' = "get_vol" /\ Asked(Line("get_vol", 0))'
        BY <2>4, <3>2, <4>3 DEF Call
      <4> QED BY <2>3, <3>1, <3>4, <4>3, <4>4 DEF InTime, Audible
    <3> QED BY <3>3, <3>4
  <2>8. CASE AskVolume
    <3>1. phone \in {"get_vol", "get_vol of a click"} /\ Answered(Line("percents", Volume)) /\ Audible
      BY <1>2, <2>2, <2>8 DEF AskVolume, InTime
    <3>2. current = None /\ commands = <<>> /\ answers' = <<>>
      BY <2>2, <3>1
    <3>3. \A b : receiveStr(b) => b = Line("percents", Volume)
      BY <2>2, <3>1
    <3>4. \A v : Line("percents", v).word = "percents" /\ Line("percents", v).number = v
      BY DEF Line
    <3>5. phone' = "idle" /\ bar' = [enabled |-> TRUE, at |-> Volume] /\ slides' = 0
      BY <2>2, <2>8, <3>3, <3>4 DEF AskVolume
    <3>6. Quiet' /\ shownMuted' = shownMuted
      BY <2>3, <2>8, <3>2 DEF AskVolume, Quiet
    <3>7. bar'.enabled = TRUE /\ bar'.at = Volume /\ Near(bar.at, slides)'
      BY <2>3, <2>5, <3>5, VolumeFacts DEF Near
    <3>8. shownMuted = FALSE /\ desktop.muted = FALSE
      BY <2>5, <3>1 DEF Audible
    <3>9. ShowsMuted'
      BY <2>3, <3>6, <3>7, <3>8 DEF ShowsMuted
    <3> QED BY <2>3, <3>5, <3>6, <3>7, <3>9 DEF InTime
  <2>9. CASE Clicked
    <3>1. phone \in {"mute", "unmute"} /\ Answered(Line("OK", 0)) /\ shownMuted = (phone = "unmute")
          /\ desktop.muted = (phone = "mute")
      <4>1. CASE phone = "mute"
        BY <1>2, <2>2, <2>5, <4>1 DEF InTime
      <4>2. CASE phone = "unmute"
        BY <1>2, <2>2, <2>5, <4>2 DEF InTime
      <4> QED BY <2>9, <4>1, <4>2 DEF Clicked
    <3>2. current = None /\ commands = <<>> /\ answers' = <<>>
      BY <2>2, <3>1
    <3>3. receiveStr(Line("OK", 0))
      BY <2>2, <2>9, <3>1 DEF Clicked
    <3>4. /\ shownMuted' = ~shownMuted
          /\ IF shownMuted
               THEN Call("get_vol of a click", Line("get_vol", 0)) /\ UNCHANGED bar
               ELSE phone' = "idle" /\ bar' = [bar EXCEPT !.enabled = FALSE] /\ UNCHANGED commands
      BY <2>2, <2>9, <3>1 DEF Clicked
    <3>5. CASE phone = "unmute"
      <4>1. phone' = "get_vol of a click" /\ Asked(Line("get_vol", 0))'
        BY <2>4, <3>1, <3>2, <3>4, <3>5 DEF Call
      <4>2. Audible'
        BY <2>3, <3>1, <3>4, <3>5 DEF Audible
      <4> QED BY <4>1, <4>2 DEF InTime
    <3>6. CASE phone = "mute"
      <4>1. phone' = "idle" /\ bar' = [bar EXCEPT !.enabled = FALSE] /\ Quiet'
        BY <2>3, <3>1, <3>2, <3>4, <3>6 DEF Quiet
      <4>2. bar'.enabled = FALSE /\ shownMuted' = TRUE /\ desktop.muted = TRUE
        BY <2>5, <3>1, <3>4, <3>6, <4>1
      <4> QED BY <2>3, <4>1, <4>2 DEF InTime, ShowsMuted
    <3> QED BY <3>1, <3>5, <3>6
  <2>10. CASE Slid
    <3>1. phone = "chg_vol" /\ Answered(Line("OK", 0)) /\ Audible /\ bar.enabled
          /\ (~ignored => Near(bar.at, slides))
      BY <1>2, <2>2, <2>10 DEF Slid, InTime
    <3>2. current = None /\ commands = <<>> /\ answers' = <<>>
      BY <2>2, <3>1
    <3>3. phone' = "idle" /\ UNCHANGED <<bar, shownMuted, commands, slides, ignored>>
      BY <2>2, <2>10, <3>1 DEF Slid
    <3>4. Quiet'
      BY <2>3, <3>2, <3>3 DEF Quiet
    <3>5. ShowsMuted
      BY <2>5, <3>1 DEF ShowsMuted, Audible
    <3> QED BY <2>3, <3>1, <3>3, <3>4, <3>5 DEF InTime, ShowsMuted, Near
  <2> QED BY <1>6, <2>6, <2>7, <2>8, <2>9, <2>10 DEF Return
<1>7. CASE Click \/ Slide
  <2>1. /\ phone = "idle" /\ Quiet /\ ShowsMuted /\ (bar.enabled /\ ~ignored => Near(bar.at, slides))
        /\ UNCHANGED <<closed, current, desktop, ignored, answers, shownMuted>>
    BY <1>2, <1>7 DEF Click, Slide, Touch, InTime
  <2>2. ASSUME NEW c, sendStr(c) PROVE Asked(c)'
    BY <1>1, <2>1, <2>2, CallsAlone DEF Quiet
  <2>3. bar \in [enabled : BOOLEAN, at : Percents] /\ desktop \in Sounds
        /\ shownMuted \in BOOLEAN /\ desktop.muted \in BOOLEAN
    BY SoundFacts DEF SessionTypeOK
  <2>4. CASE Click /\ shownMuted
    <3>1. phone' = "unmute" /\ sendStr(Line("unmute", 0)) /\ UNCHANGED bar
      BY <2>4 DEF Click, Call
    <3>2. Asked(Line("unmute", 0))'
      BY <2>2, <3>1
    <3> QED BY <2>1, <2>4, <3>1, <3>2 DEF InTime, ShowsMuted
  <2>5. CASE Click /\ ~shownMuted
    <3>1. phone' = "mute" /\ sendStr(Line("mute", 0)) /\ UNCHANGED bar
      BY <2>5 DEF Click, Call
    <3>2. Asked(Line("mute", 0))'
      BY <2>2, <3>1
    <3> QED BY <2>1, <2>5, <3>1, <3>2 DEF InTime, ShowsMuted
  <2>6. CASE Slide
    <3>1. PICK v \in Percents : /\ prev' = bar.at /\ bar' = [bar EXCEPT !.at = v]
                               /\ Call("chg_vol", Line("chg_vol", v - bar.at))
      BY <2>6 DEF Slide
    <3>2. bar.enabled /\ bar'.at = v /\ bar'.enabled = bar.enabled
      BY <2>3, <2>6, <3>1 DEF Slide
    <3>3. PICK c : c = Line("chg_vol", v - bar.at) /\ sendStr(c)
      BY <3>1 DEF Call
    <3>4. Asked(c)' /\ c = Line("chg_vol", bar'.at - prev')
      BY <2>2, <3>1, <3>2, <3>3 DEF Line
    <3>5. Audible'
      BY <2>1, <2>3, <3>2 DEF Audible, ShowsMuted
    <3>6. slides' > 0 /\ slides' - 1 = slides
      BY <2>6 DEF Slide, SessionTypeOK
    <3>7. ~ignored' => Near(prev, slides - 1)'
      <4>1. Volume' = Volume /\ Grain' = Grain /\ prev' = bar.at
        BY <2>1, <3>1 DEF Volume, Grain
      <4> QED BY <2>1, <3>2, <3>6, <4>1 DEF Near
    <3> QED BY <2>1, <3>1, <3>2, <3>4, <3>5, <3>6, <3>7 DEF InTime, Call
  <2> QED BY <1>7, <2>4, <2>5, <2>6
<1>8. CASE UNCHANGED vars
  BY <1>2, <1>8 DEF vars, InTime, Quiet, Answered, Asked, Sent, Executed, ShowsMuted, Audible, Near, Volume, Grain
<1> QED BY <1>3, <1>4, <1>5, <1>6, <1>7, <1>8 DEF Next

\* A user who sees the controls of an idle application sees the desktop's sound, as
\* long as every call has returned in time on the connection it was made on.
THEOREM ShownCorrect == Spec => []ShownIsTrue
<1>1. Init => ShownInv
  BY DEF Init, ShownInv, InTime, Asked, Sent
<1>2. ShownInv => ShownIsTrue
  BY DEF ShownInv, InTime, ShowsMuted, ShownIsTrue
<1> QED BY <1>1, <1>2, SessionTypeCorrect, ShownKept, PTL DEF Spec

\* Nothing but the end of the connection, or a call that has given up, can end the
\* application.
THEOREM EndsCorrect == Spec => []EndsOnlyLateOrClosed
<1>1. Init => ShownInv
  BY DEF Init, ShownInv, InTime, Asked, Sent
<1>2. SessionTypeOK /\ ShownInv => EndsOnlyLateOrClosed
  BY DEF ShownInv, InTime, EndsOnlyLateOrClosed, SessionTypeOK
<1> QED BY <1>1, <1>2, SessionTypeCorrect, ShownKept, PTL DEF Spec
=============================================================================
