---------------------------- MODULE SoundControl ----------------------------
(***************************************************************************)
(* The sound of the desktop (daemon/SoundLib/SoundLib.c) as the commands   *)
(* of the dispatcher use it (SndConnector.cpp, daemon/src/commands): the   *)
(* percents of the remote side, the values of the mixer, and the mute      *)
(* switch.  Every command opens the mixer, reads its volume and its switch *)
(* and may then set one of them.  Other programs use the same mixer, also  *)
(* between these two steps, and any call of the mixer may fail.            *)
(*                                                                         *)
(* The dispatcher is the only thread that uses the library.  A command     *)
(* busy-waits for the text its own call has stored in the connector, so it *)
(* takes that text at once.                                                *)
(***************************************************************************)
EXTENDS Integers

CONSTANTS
  Ranges,  \* the volume ranges of mixers, [min |-> ..., max |-> ...]
  Changes  \* the parameters of chg_vol

ASSUME SoundAssumption ==
  /\ Ranges \subseteq [min : Int, max : Int]
  /\ \A r \in Ranges : r.min < r.max
  /\ Changes \subseteq Int

MAX_VOL == 100

Commands == [name : {"mute", "unmute", "get_vol", "is_muted"}, value : {0}]
              \cup [name : {"chg_vol"}, value : Changes]

VARIABLES
  range,      \* minv, maxv: the range of the mixer
  raw,        \* the playback volume of the mixer
  on,         \* the playback switch of the mixer: TRUE is audible
  volume_,    \* the library's volume
  state_,     \* the library's state: "MUTED" or "UNMUTED"
  pc,         \* "idle", or "opened" and "failed" after initSoundControl()
  command,    \* the command that is executed
  answer,     \* its result, "none" before there is one
  disturbed,  \* another program has changed the mixer during the command
  error       \* a call of the mixer has failed during the command

mixerVars   == <<range, raw, on>>
libVars     == <<volume_, state_>>
historyVars == <<disturbed, error>>
soundVars   == <<mixerVars, libVars, pc, command, answer, historyVars>>

RawVolumes == range.min .. range.max

Idle == [name |-> "none", value |-> 0]

SoundTypeOK ==
  /\ range \in Ranges
  /\ raw \in RawVolumes
  /\ on \in BOOLEAN
  /\ volume_ \in Int
  /\ state_ \in {"MUTED", "UNMUTED"}
  /\ pc \in {"idle", "opened", "failed"}
  /\ command \in Commands \cup {Idle}
  /\ answer \in {"none", "OK", "true", "false", "volume_"}
  /\ disturbed \in BOOLEAN
  /\ error \in BOOLEAN

SoundInit ==
  /\ range \in Ranges
  /\ raw \in RawVolumes
  /\ on \in BOOLEAN
  /\ volume_ = 0
  /\ state_ = "UNMUTED"
  /\ pc = "idle"
  /\ command = Idle
  /\ answer = "none"
  /\ disturbed = FALSE
  /\ error = FALSE
-----------------------------------------------------------------------------
\* The division of C, which rounds towards zero.
Divide(a, b) == IF a >= 0 THEN a \div b ELSE -((-a) \div b)

Span == range.max - range.min

PercentOf(rawVolume) == Divide(MAX_VOL * rawVolume, Span)

\* Mutant: the value is rounded up.
M_RawOf(percent) == Divide(percent * Span, MAX_VOL - 1) + 1 + range.min

\* The other way the divisor is MAX_VOL - 1.
RawOf(percent) == Divide(percent * Span, MAX_VOL - 1) + range.min

\* Mutant: the parameter is taken for the volume itself.
M_Changed(value) == IF value < 0 THEN 0 ELSE IF value <= MAX_VOL THEN value ELSE MAX_VOL

\* chgVol(): the volume in percents that is to be set.
Changed(value) ==
  IF value > 0
  THEN IF volume_ + value <= MAX_VOL THEN volume_ + value ELSE MAX_VOL
  ELSE IF volume_ + value >= 0 THEN volume_ + value ELSE 0
-----------------------------------------------------------------------------
\* Mutant: the state is read only once, when the mixer is opened first.
M_ReadState == state_' = state_

ReadState == state_' = IF on THEN "UNMUTED" ELSE "MUTED"

\* initSoundControl(): it may fail before it has read the volume, between the
\* volume and the switch, or not at all.
Open(c) ==
  /\ pc = "idle"
  /\ command' = c
  /\ \/ pc' = "failed" /\ error' = TRUE /\ UNCHANGED libVars
     \/ pc' = "failed" /\ error' = TRUE /\ volume_' = PercentOf(raw) /\ UNCHANGED state_
     \/ pc' = "opened" /\ error' = FALSE /\ volume_' = PercentOf(raw) /\ ReadState
  /\ answer' = "none"
  /\ UNCHANGED <<mixerVars, disturbed>>

\* finishSoundControl(), and the command returns.
Finish ==
  /\ pc' = "idle"
  /\ command' = Idle
  /\ disturbed' = FALSE

\* What the mixer does with a volume: it sets it, ignores it or limits it when
\* it is out of range, and may take it for the present one when another
\* program has changed that meanwhile.
MixerTakes(rawVolume) ==
  IF rawVolume > range.max THEN {raw, range.max}
  ELSE IF rawVolume < range.min THEN {raw, range.min}
  ELSE IF disturbed THEN {raw, rawVolume} ELSE {rawVolume}

\* The mixer takes the volume, or refuses with an error: then the library's
\* volume stays the mixer's value and does not become percents again.
SetVolume(percent) ==
  \/ /\ raw' \in MixerTakes(RawOf(percent))
     /\ volume_' = PercentOf(RawOf(percent))
     /\ UNCHANGED error
  \/ /\ raw' = raw
     /\ volume_' = RawOf(percent)
     /\ error' = TRUE

ChangeVolume ==
  /\ pc = "opened"
  /\ command.name = "chg_vol"
  /\ SetVolume(Changed(command.value))
  /\ answer' = "OK"
  /\ Finish
  /\ UNCHANGED <<range, on, state_>>

SwitchFor(state) == state = "UNMUTED"

\* The switch is set only when the state read before was the other one.
Switch(name, state) ==
  /\ pc = "opened"
  /\ command.name = name
  /\ state_' = state
  /\ \/ state_ # state /\ on' = SwitchFor(state) /\ UNCHANGED error
     \/ state_ # state /\ error' = TRUE /\ UNCHANGED on
     \/ state_ = state /\ UNCHANGED <<on, error>>
  /\ answer' = "OK"
  /\ Finish
  /\ UNCHANGED <<range, raw, volume_>>

Mute   == Switch("mute", "MUTED")
Unmute == Switch("unmute", "UNMUTED")

\* When the mixer cannot be opened nothing is done, and the answer is "OK".
DoNothing ==
  /\ pc = "failed"
  /\ command.name \in {"mute", "unmute", "chg_vol"}
  /\ answer' = "OK"
  /\ Finish
  /\ UNCHANGED <<mixerVars, libVars, error>>

\* getVol() answers whatever the library's volume is; "volume_" stands for it.
GetVolume ==
  /\ pc \in {"opened", "failed"}
  /\ command.name = "get_vol"
  /\ answer' = "volume_"
  /\ Finish
  /\ UNCHANGED <<mixerVars, libVars, error>>

\* isMuted() reads the switch once more, and may get what it has read before.
IsMuted ==
  /\ command.name = "is_muted"
  /\ \/ pc = "opened" /\ ReadState /\ UNCHANGED error
     \/ pc = "opened" /\ error' \in BOOLEAN /\ UNCHANGED state_
     \/ pc = "failed" /\ UNCHANGED <<state_, error>>
  /\ answer' = IF state_' = "MUTED" THEN "true" ELSE "false"
  /\ Finish
  /\ UNCHANGED <<mixerVars, volume_>>

\* Another program, e.g. the volume keys of the desktop, moves the volume by a
\* step or switches the sound.
OtherProgram ==
  /\ raw' \in {raw - 1, raw, raw + 1} \cap RawVolumes
  /\ on' \in BOOLEAN
  /\ disturbed' = (pc # "idle")
  /\ UNCHANGED <<range, libVars, pc, command, answer, error>>

SoundNext ==
  \/ \E c \in Commands : Open(c)
  \/ ChangeVolume \/ Mute \/ Unmute \/ DoNothing \/ GetVolume \/ IsMuted
  \/ OtherProgram

SoundSpec == SoundInit /\ [][SoundNext]_soundVars
-----------------------------------------------------------------------------
(* Properties.  The percents are those of the whole range only for a mixer   *)
(* whose range begins at zero: PercentOf() does not subtract the minimum.    *)

Answered == pc # "idle" /\ pc' = "idle"

Undisturbed == ~disturbed /\ ~error'

\* Increasing the volume never lowers it, and decreasing never raises it,
\* although it is rounded down when it is read and when it is set, with two
\* different divisors (SoundLib.c 90, 94), and may be limited or ignored.
ChangesInDirection ==
  [][Answered /\ command.name = "chg_vol" /\ Undisturbed /\ range.min = 0
       => /\ command.value > 0 => raw' >= raw
          /\ command.value < 0 => raw' <= raw]_soundVars

\* A volume that is set is read back as at most the percents asked for, and as
\* less by no more than one step of the mixer; 99 sets the maximum, and 100
\* may be out of range (SoundLib.c 90-101).
AsLoudAsAsked ==
  [][Answered /\ command.name = "chg_vol" /\ Undisturbed /\ range.min = 0
       => LET asked == Changed(command.value)
          IN  asked < MAX_VOL - 1 => /\ PercentOf(raw') <= asked
                                     /\ PercentOf(raw' + 1) >= asked]_soundVars

\* "mute" leaves the sound muted and "unmute" audible, whatever the library
\* believed before (SoundLib.c 202-229).
MuteIsObeyed ==
  [][Answered /\ Undisturbed
       => /\ command.name = "mute" => ~on'
          /\ command.name = "unmute" => on']_soundVars

\* A volume that is reported is the mixer's (SoundLib.c 257-262).
ReportsMixer ==
  [][Answered /\ Undisturbed
       => /\ command.name = "get_vol" => volume_' = PercentOf(raw)
          /\ command.name = "is_muted" => answer' = (IF on THEN "false" ELSE "true")]_soundVars
=============================================================================
