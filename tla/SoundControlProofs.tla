------------------------- MODULE SoundControlProofs -------------------------
(***************************************************************************)
(* Proofs about SoundControl, for mixers of any range.                     *)
(***************************************************************************)
EXTENDS SoundControl, TLAPS

\* Percents and the mixer's volume, when the range begins at zero: reading
\* rounds down by less than one percent.
LEMMA ReadingRoundsDown ==
  ASSUME NEW s \in Nat, s > 0, NEW r \in 0 .. s
  PROVE  LET p == (MAX_VOL * r) \div s
         IN  p \in 0 .. MAX_VOL /\ p * s <= MAX_VOL * r /\ MAX_VOL * r < (p + 1) * s
<1> DEFINE p == (MAX_VOL * r) \div s
<1>1. p \in Int /\ p * s <= MAX_VOL * r /\ MAX_VOL * r < (p + 1) * s
  BY DEF MAX_VOL
<1>2. p >= 0
  <2>1. SUFFICES ASSUME p < 0 PROVE FALSE
    BY <1>1
  <2>2. (p + 1) * s <= 0
    BY <1>1, <2>1
  <2> QED
    BY <1>1, <2>2 DEF MAX_VOL
<1>3. p <= MAX_VOL
  <2>1. SUFFICES ASSUME p > MAX_VOL PROVE FALSE
    BY <1>1 DEF MAX_VOL
  <2>2. p * s >= (MAX_VOL + 1) * s
    BY <1>1, <2>1 DEF MAX_VOL
  <2> QED
    BY <1>1, <2>2 DEF MAX_VOL
<1> QED
  BY <1>1, <1>2, <1>3

\* Setting more percents than were read sets no lower volume than there was.
LEMMA MoreIsNotLower ==
  ASSUME NEW s \in Nat, s > 0, NEW r \in 0 .. s, NEW t \in Nat,
         t > (MAX_VOL * r) \div s \/ t = MAX_VOL
  PROVE  (t * s) \div (MAX_VOL - 1) >= r
<1> DEFINE p == (MAX_VOL * r) \div s
           q == (t * s) \div (MAX_VOL - 1)
<1>1. p \in 0 .. MAX_VOL /\ MAX_VOL * r < (p + 1) * s
  BY ReadingRoundsDown
<1>2. t * s >= (MAX_VOL - 1) * r
  <2>1. CASE t > p
    <3>1. t * s >= (p + 1) * s
      BY <1>1, <2>1 DEF MAX_VOL
    <3> QED
      BY <1>1, <3>1 DEF MAX_VOL
  <2>2. CASE t = MAX_VOL
    BY <2>2 DEF MAX_VOL
  <2> QED
    BY <2>1, <2>2
<1>3. t * s \in Nat
  BY DEF MAX_VOL
<1>4. q \in Int /\ t * s < (q + 1) * (MAX_VOL - 1)
  BY <1>3 DEF MAX_VOL
<1> QED
  BY <1>2, <1>3, <1>4 DEF MAX_VOL

\* Setting fewer percents than were read, or none, sets no higher volume.
LEMMA LessIsNotHigher ==
  ASSUME NEW s \in Nat, s > 0, NEW r \in 0 .. s, NEW t \in Nat,
         t < (MAX_VOL * r) \div s \/ t = 0
  PROVE  /\ (t * s) \div (MAX_VOL - 1) <= r
         /\ (t * s) \div (MAX_VOL - 1) >= 0
<1> DEFINE p == (MAX_VOL * r) \div s
           q == (t * s) \div (MAX_VOL - 1)
<1>1. p \in 0 .. MAX_VOL /\ p * s <= MAX_VOL * r
  BY ReadingRoundsDown
<1>2. t * s <= (MAX_VOL - 1) * r
  <2>1. CASE t < p
    <3>1. t * s <= (p - 1) * s
      BY <1>1, <2>1 DEF MAX_VOL
    <3> QED
      BY <1>1, <3>1 DEF MAX_VOL
  <2>2. CASE t = 0
    BY <2>2 DEF MAX_VOL
  <2> QED
    BY <2>1, <2>2
<1>3. t * s \in Nat
  BY DEF MAX_VOL
<1>4. q \in Int /\ q * (MAX_VOL - 1) <= t * s /\ t * s < (q + 1) * (MAX_VOL - 1)
  BY <1>3 DEF MAX_VOL
<1> QED
  BY <1>2, <1>3, <1>4 DEF MAX_VOL

\* What is set below MAX_VOL - 1 percents is within the range, and read back as
\* no more than that, and one step of the mixer more as no less.
LEMMA SetIsReadBack ==
  ASSUME NEW s \in Nat, s > 0, NEW t \in Nat, t < MAX_VOL - 1
  PROVE  LET q == (t * s) \div (MAX_VOL - 1)
         IN  /\ q \in 0 .. s
             /\ (MAX_VOL * q) \div s <= t
             /\ (MAX_VOL * (q + 1)) \div s >= t
<1> DEFINE q == (t * s) \div (MAX_VOL - 1)
<1>1. t * s \in Nat
  BY DEF MAX_VOL
<1>2. q \in Nat /\ q * (MAX_VOL - 1) <= t * s /\ t * s < (q + 1) * (MAX_VOL - 1)
  BY <1>1 DEF MAX_VOL
<1>3. t * s <= (MAX_VOL - 1) * s
  BY DEF MAX_VOL
<1>4. q <= s
  BY <1>2, <1>3 DEF MAX_VOL
<1>5. q \in Nat => (MAX_VOL * q) \div s <= t
  <2> SUFFICES ASSUME q \in Nat, (MAX_VOL * q) \div s > t PROVE FALSE
    BY <1>2 DEF MAX_VOL
  <2> DEFINE d == (MAX_VOL * q) \div s
  <2>1. d \in Int /\ d * s <= MAX_VOL * q
    BY <1>2 DEF MAX_VOL
  <2>2. (t + 1) * s <= d * s
    BY <2>1
  <2>3. (t + 1) * s = t * s + s
    OBVIOUS
  <2>4. q * MAX_VOL >= t * s + s
    BY <1>1, <1>2, <2>1, <2>2, <2>3 DEF MAX_VOL
  <2>5. (MAX_VOL - 1) * q <= t * s /\ t * s < (MAX_VOL - 1) * s
    BY <1>2 DEF MAX_VOL
  <2> QED
    BY <1>1, <1>2, <2>4, <2>5 DEF MAX_VOL
<1>6. (MAX_VOL * (q + 1)) \div s >= t
  <2>1. MAX_VOL * (q + 1) >= t * s
    BY <1>1, <1>2 DEF MAX_VOL
  <2> DEFINE d == (MAX_VOL * (q + 1)) \div s
  <2>2. d \in Int /\ MAX_VOL * (q + 1) < (d + 1) * s
    BY <1>2 DEF MAX_VOL
  <2> SUFFICES ASSUME d < t PROVE FALSE
    BY <2>2
  <2>3. (d + 1) * s <= t * s
    BY <2>2
  <2> QED
    BY <1>1, <1>2, <2>1, <2>2, <2>3 DEF MAX_VOL
<1> QED
  BY <1>2, <1>4, <1>5, <1>6
-----------------------------------------------------------------------------
\* What the library has read is what the mixer has, as long as no other
\* program changes it; and a mixer that could not be opened is an error.
KnowsMixer ==
  /\ pc = "opened" /\ ~disturbed =>
       volume_ = PercentOf(raw) /\ state_ = (IF on THEN "UNMUTED" ELSE "MUTED")
  /\ pc = "failed" => error

SoundInv == SoundTypeOK /\ KnowsMixer

LEMMA SpanPositive ==
  ASSUME SoundTypeOK
  PROVE  /\ range.min \in Int /\ range.max \in Int
         /\ Span \in Nat /\ Span > 0
         /\ RawVolumes \subseteq Int
         /\ \A v \in Int : PercentOf(v) \in Int /\ RawOf(v) \in Int
<1>1. range.min \in Int /\ range.max \in Int /\ range.min < range.max
  BY SoundAssumption DEF SoundTypeOK
<1>2. Span \in Nat /\ Span > 0
  BY <1>1 DEF Span
<1>3. ASSUME NEW a \in Int, NEW b \in Nat, b > 0 PROVE Divide(a, b) \in Int
  BY <1>3 DEF Divide
<1>4. ASSUME NEW v \in Int PROVE PercentOf(v) \in Int
  BY <1>2, <1>3 DEF PercentOf, MAX_VOL
<1>5. ASSUME NEW v \in Int PROVE RawOf(v) \in Int
  <2>1. Divide(v * Span, MAX_VOL - 1) \in Int
    BY <1>2, <1>3 DEF MAX_VOL
  <2> QED
    BY <1>1, <2>1 DEF RawOf
<1> QED
  BY <1>1, <1>2, <1>4, <1>5 DEF RawVolumes

LEMMA ChangedIsPercents ==
  ASSUME SoundTypeOK, NEW v \in Int
  PROVE  Changed(v) \in Int
BY DEF SoundTypeOK, Changed, MAX_VOL

LEMMA SoundInvStep ==
  ASSUME SoundInv, [SoundNext]_soundVars
  PROVE  SoundInv'
<1> USE DEF SoundInv, Idle
<1>0. RawVolumes \subseteq Int /\ raw \in Int /\ range.min \in Int /\ range.max \in Int
  BY SpanPositive DEF SoundTypeOK
<1>1. CASE \E c \in Commands : Open(c)
  <2>1. PICK c \in Commands : Open(c)
    BY <1>1
  <2>2. PercentOf(raw) \in Int
    BY SpanPositive, <1>0
  <2>3. range' = range /\ raw' = raw /\ on' = on /\ disturbed' = disturbed
    BY <2>1 DEF Open, mixerVars
  <2>4. SoundTypeOK'
    BY <2>1, <2>2, <2>3 DEF Open, SoundTypeOK, libVars, ReadState, RawVolumes
  <2>5. KnowsMixer'
    BY <2>1, <2>3 DEF Open, KnowsMixer, ReadState, PercentOf, Span
  <2> QED
    BY <2>4, <2>5
<1>2. CASE ChangeVolume
  <2>1. command.value \in Int
    <3>1. \A c \in Commands \cup {Idle} : c.value \in Int
      <4>1. \A c \in [name : {"chg_vol"}, value : Changes] : c.value \in Int
        BY SoundAssumption
      <4>2. \A c \in [name : {"mute", "unmute", "get_vol", "is_muted"}, value : {0}] :
              c.value \in Int
        OBVIOUS
      <4> QED
        BY <4>1, <4>2 DEF Commands
    <3>2. command \in Commands \cup {Idle}
      BY DEF SoundTypeOK
    <3> QED
      BY <3>1, <3>2
  <2>2. Changed(command.value) \in Int
    BY <2>1, ChangedIsPercents
  <2> DEFINE r == RawOf(Changed(command.value))
  <2>3. r \in Int /\ PercentOf(r) \in Int
    BY <2>2, SpanPositive
  <2>4. MixerTakes(r) \subseteq RawVolumes
    BY <1>0, <2>3, SpanPositive, SoundAssumption
       DEF MixerTakes, RawVolumes, SoundTypeOK, Span
  <2>5. raw' \in RawVolumes /\ volume_' \in Int /\ error' \in BOOLEAN
    BY <1>2, <2>3, <2>4 DEF ChangeVolume, SetVolume, SoundTypeOK
  <2> QED
    BY <1>2, <2>5 DEF ChangeVolume, Finish, SoundTypeOK, KnowsMixer, RawVolumes
<1>3. CASE Mute \/ Unmute
  BY <1>3 DEF Mute, Unmute, Switch, SwitchFor, Finish, SoundTypeOK, KnowsMixer, RawVolumes
<1>4. CASE DoNothing
  BY <1>4 DEF DoNothing, Finish, mixerVars, libVars, SoundTypeOK, KnowsMixer, RawVolumes
<1>5. CASE GetVolume
  BY <1>5 DEF GetVolume, Finish, mixerVars, libVars, SoundTypeOK, KnowsMixer, RawVolumes
<1>6. CASE IsMuted
  BY <1>6 DEF IsMuted, ReadState, Finish, mixerVars, SoundTypeOK, KnowsMixer, RawVolumes
<1>7. CASE OtherProgram
  BY <1>7 DEF OtherProgram, libVars, SoundTypeOK, KnowsMixer, RawVolumes, PercentOf, Span
<1>8. CASE UNCHANGED soundVars
  BY <1>8 DEF soundVars, mixerVars, libVars, historyVars, SoundTypeOK, KnowsMixer,
              RawVolumes, PercentOf, Span
<1> QED
  BY <1>1, <1>2, <1>3, <1>4, <1>5, <1>6, <1>7, <1>8 DEF SoundNext

THEOREM SoundInvariance == SoundSpec => []SoundInv
<1>1. SoundInit => SoundInv
  <2>1. volume_ = 0 => volume_ \in Int
    OBVIOUS
  <2>2. SoundInit => SoundTypeOK
    BY <2>1, Zenon DEF SoundInit, SoundTypeOK
  <2>3. SoundInit => KnowsMixer
    BY DEF SoundInit, KnowsMixer
  <2> QED
    BY <2>2, <2>3 DEF SoundInv
<1> QED
  BY <1>1, SoundInvStep, PTL DEF SoundSpec

\* Type correctness: whatever fails, the library's volume is a number and the
\* mixer's volume stays in its range.
THEOREM SoundTypeCorrect == SoundSpec => []SoundTypeOK
<1>1. SoundInv => SoundTypeOK
  BY DEF SoundInv
<1> QED
  BY <1>1, SoundInvariance, PTL
-----------------------------------------------------------------------------
\* A command that was not disturbed and met no error has opened the mixer.
LEMMA AnsweredSteps ==
  ASSUME SoundInv, [SoundNext]_soundVars, Answered, Undisturbed
  PROVE  /\ pc = "opened"
         /\ \/ ChangeVolume /\ command.name = "chg_vol"
            \/ Mute /\ command.name = "mute"
            \/ Unmute /\ command.name = "unmute"
            \/ GetVolume /\ command.name = "get_vol"
            \/ IsMuted /\ command.name = "is_muted"
<1> USE DEF Answered, Undisturbed
<1>1. error \in BOOLEAN /\ (pc = "failed" => error)
  BY DEF SoundInv, SoundTypeOK, KnowsMixer
<1>2. ~(\E c \in Commands : Open(c)) /\ ~OtherProgram /\ ~UNCHANGED soundVars
  BY DEF Open, OtherProgram, soundVars
<1>3. ~DoNothing
  BY <1>1 DEF DoNothing
<1>4. ChangeVolume \/ Mute \/ Unmute \/ GetVolume \/ IsMuted
  BY <1>2, <1>3 DEF SoundNext
<1>5. CASE ChangeVolume
  BY <1>5 DEF ChangeVolume
<1>6. CASE Mute
  BY <1>6 DEF Mute, Switch
<1>7. CASE Unmute
  BY <1>7 DEF Unmute, Switch
<1>8. CASE GetVolume
  BY <1>1, <1>8 DEF GetVolume
<1>9. CASE IsMuted
  BY <1>1, <1>9 DEF IsMuted
<1> QED
  BY <1>4, <1>5, <1>6, <1>7, <1>8, <1>9

\* What a change that was neither disturbed nor refused does to a mixer whose
\* range begins at zero.
LEMMA ChangeSets ==
  ASSUME SoundInv, [SoundNext]_soundVars, Answered, Undisturbed,
         command.name = "chg_vol", range.min = 0
  PROVE  LET s == range.max
             t == Changed(command.value)
             q == (t * s) \div (MAX_VOL - 1)
         IN  /\ s \in Nat /\ s > 0 /\ Span = s /\ raw \in 0 .. s
             /\ command.value \in Int
             /\ volume_ = (MAX_VOL * raw) \div s /\ volume_ \in 0 .. MAX_VOL
             /\ t \in Nat /\ q \in Nat
             /\ q <= s => raw' = q
             /\ q > s => raw' \in {raw, s}
<1> USE DEF Undisturbed
<1>1. ChangeVolume /\ pc = "opened"
  BY AnsweredSteps
<1> DEFINE s == range.max
           t == Changed(command.value)
           p == (MAX_VOL * raw) \div s
           q == (t * s) \div (MAX_VOL - 1)
<1>2. s \in Nat /\ s > 0 /\ Span = s /\ raw \in 0 .. s
  BY SpanPositive DEF SoundInv, SoundTypeOK, RawVolumes, Span
<1>3. command.value \in Int
  <2>1. \A c \in [name : {"chg_vol"}, value : Changes] : c.value \in Int
    BY SoundAssumption
  <2> QED
    BY <2>1 DEF SoundInv, SoundTypeOK, Commands, Idle
<1>4. volume_ = p /\ p \in 0 .. MAX_VOL
  <2>1. MAX_VOL * raw >= 0
    BY <1>2 DEF MAX_VOL
  <2>2. volume_ = PercentOf(raw)
    BY <1>1 DEF SoundInv, KnowsMixer
  <2>3. PercentOf(raw) = p
    BY <1>2, <2>1 DEF PercentOf, Divide
  <2> QED
    BY <1>2, <2>2, <2>3, ReadingRoundsDown
<1>5. t \in Nat
  BY <1>3, <1>4 DEF Changed, MAX_VOL
<1>6. q \in Nat
  BY <1>2, <1>5 DEF MAX_VOL
<1>7. RawOf(t) = q
  <2>1. t * s >= 0
    BY <1>2, <1>5
  <2> QED
    BY <1>2, <1>6, <2>1 DEF RawOf, Divide
<1>8. raw' \in MixerTakes(q)
  BY <1>1, <1>7 DEF ChangeVolume, SetVolume
<1>9. ~disturbed /\ ~(q < range.min)
  BY <1>6
<1>10. q > s => raw' \in {raw, s}
  BY <1>8, Zenon DEF MixerTakes
<1>11. ASSUME q <= s PROVE raw' = q
  <2>1. ~(q > s)
    BY <1>2, <1>6, <1>11
  <2> QED
    BY <1>8, <1>9, <2>1, Zenon DEF MixerTakes
<1> QED
  BY <1>2, <1>3, <1>4, <1>5, <1>6, <1>10, <1>11

LEMMA DirectionStep ==
  ASSUME SoundInv, [SoundNext]_soundVars, Answered, Undisturbed,
         command.name = "chg_vol", range.min = 0
  PROVE  /\ command.value > 0 => raw' >= raw
         /\ command.value < 0 => raw' <= raw
<1> DEFINE s == range.max
           t == Changed(command.value)
           p == (MAX_VOL * raw) \div s
           q == (t * s) \div (MAX_VOL - 1)
<1>1. s \in Nat /\ s > 0 /\ raw \in 0 .. s /\ command.value \in Int /\ t \in Nat /\ q \in Nat
  BY ChangeSets
<1>2. volume_ = p /\ p \in 0 .. MAX_VOL
  BY ChangeSets
<1>3. raw' = q \/ (q > s /\ raw' \in {raw, s})
  BY <1>1, ChangeSets
<1>4. ASSUME command.value > 0 PROVE raw' >= raw
  <2>1. t > p \/ t = MAX_VOL
    BY <1>1, <1>2, <1>4 DEF Changed, MAX_VOL
  <2>2. q >= raw
    BY <1>1, <2>1, MoreIsNotLower
  <2> QED
    BY <1>1, <1>3, <2>2
<1>5. ASSUME command.value < 0 PROVE raw' <= raw
  <2>1. t < p \/ t = 0
    BY <1>1, <1>2, <1>5 DEF Changed, MAX_VOL
  <2>2. q <= raw
    BY <1>1, <2>1, LessIsNotHigher
  <2> QED
    BY <1>1, <1>3, <2>2
<1> QED
  BY <1>4, <1>5

\* Turning the sound up never lowers it and turning it down never raises it,
\* for a mixer of any range that begins at zero.
THEOREM DirectionCorrect == SoundSpec => ChangesInDirection
<1>1. SoundInv /\ [SoundNext]_soundVars
        => [Answered /\ command.name = "chg_vol" /\ Undisturbed /\ range.min = 0
              => /\ command.value > 0 => raw' >= raw
                 /\ command.value < 0 => raw' <= raw]_soundVars
  BY DirectionStep
<1> QED
  BY <1>1, SoundInvariance, PTL DEF SoundSpec, ChangesInDirection

\* A volume below 99 percents that is set is read back as no more than was
\* asked for, and as less by no more than one step of the mixer.
THEOREM LoudnessCorrect == SoundSpec => AsLoudAsAsked
<1>1. ASSUME SoundInv, [SoundNext]_soundVars, Answered, Undisturbed,
             command.name = "chg_vol", range.min = 0,
             Changed(command.value) < MAX_VOL - 1
      PROVE  /\ PercentOf(raw') <= Changed(command.value)
             /\ PercentOf(raw' + 1) >= Changed(command.value)
  <2> DEFINE s == range.max
             t == Changed(command.value)
             q == (t * s) \div (MAX_VOL - 1)
  <2>1. s \in Nat /\ s > 0 /\ Span = s /\ t \in Nat
    BY <1>1, ChangeSets
  <2>2. q <= s => raw' = q
    BY <1>1, ChangeSets
  <2>3. q \in 0 .. s /\ (MAX_VOL * q) \div s <= t /\ (MAX_VOL * (q + 1)) \div s >= t
    BY <1>1, <2>1, SetIsReadBack
  <2>4. PercentOf(q) = (MAX_VOL * q) \div s /\ PercentOf(q + 1) = (MAX_VOL * (q + 1)) \div s
    <3>1. MAX_VOL * q >= 0 /\ MAX_VOL * (q + 1) >= 0
      BY <2>3 DEF MAX_VOL
    <3> QED
      BY <2>1, <3>1 DEF PercentOf, Divide
  <2>5. raw' = q
    BY <2>1, <2>2, <2>3
  <2> QED
    BY <2>3, <2>4, <2>5
<1>2. SoundInv /\ [SoundNext]_soundVars
        => [Answered /\ command.name = "chg_vol" /\ Undisturbed /\ range.min = 0
              => LET asked == Changed(command.value)
                 IN  asked < MAX_VOL - 1 => /\ PercentOf(raw') <= asked
                                            /\ PercentOf(raw' + 1) >= asked]_soundVars
  BY <1>1
<1> QED
  BY <1>2, SoundInvariance, PTL DEF SoundSpec, AsLoudAsAsked

\* Muting mutes and unmuting unmutes, whatever the library believed before.
THEOREM MuteCorrect == SoundSpec => MuteIsObeyed
<1>1. ASSUME SoundInv, [SoundNext]_soundVars, Answered, Undisturbed
      PROVE  /\ command.name = "mute" => ~on'
             /\ command.name = "unmute" => on'
  <2>1. on \in BOOLEAN /\ (pc = "opened" => state_ = IF on THEN "UNMUTED" ELSE "MUTED")
    BY <1>1 DEF SoundInv, SoundTypeOK, KnowsMixer, Undisturbed
  <2>2. ASSUME command.name = "mute" PROVE ~on'
    BY <1>1, <2>1, <2>2, AnsweredSteps DEF Mute, Switch, SwitchFor, Undisturbed
  <2>3. ASSUME command.name = "unmute" PROVE on'
    BY <1>1, <2>1, <2>3, AnsweredSteps DEF Unmute, Switch, SwitchFor, Undisturbed
  <2> QED
    BY <2>2, <2>3
<1>2. SoundInv /\ [SoundNext]_soundVars
        => [Answered /\ Undisturbed
              => /\ command.name = "mute" => ~on'
                 /\ command.name = "unmute" => on']_soundVars
  BY <1>1
<1> QED
  BY <1>2, SoundInvariance, PTL DEF SoundSpec, MuteIsObeyed

\* What is reported is what the mixer has.
THEOREM ReportCorrect == SoundSpec => ReportsMixer
<1>1. ASSUME SoundInv, [SoundNext]_soundVars, Answered, Undisturbed
      PROVE  /\ command.name = "get_vol" => volume_' = PercentOf(raw)
             /\ command.name = "is_muted" => answer' = IF on THEN "false" ELSE "true"
  <2>1. /\ on \in BOOLEAN
        /\ pc = "opened" => volume_ = PercentOf(raw)
                            /\ state_ = IF on THEN "UNMUTED" ELSE "MUTED"
    BY <1>1 DEF SoundInv, SoundTypeOK, KnowsMixer, Undisturbed
  <2>2. ASSUME command.name = "get_vol" PROVE volume_' = PercentOf(raw)
    BY <1>1, <2>1, <2>2, AnsweredSteps DEF GetVolume, libVars
  <2>3. ASSUME command.name = "is_muted"
        PROVE  answer' = IF on THEN "false" ELSE "true"
    BY <1>1, <2>1, <2>3, AnsweredSteps DEF IsMuted, ReadState
  <2> QED
    BY <2>2, <2>3
<1>2. SoundInv /\ [SoundNext]_soundVars
        => [Answered /\ Undisturbed
              => /\ command.name = "get_vol" => volume_' = PercentOf(raw)
                 /\ command.name = "is_muted"
                      => answer' = (IF on THEN "false" ELSE "true")]_soundVars
  BY <1>1
<1> QED
  BY <1>2, SoundInvariance, PTL DEF SoundSpec, ReportsMixer
=============================================================================
