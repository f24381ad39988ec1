----------------------------- MODULE WifiSession -----------------------------
(***************************************************************************)
(* One connection of the Android application to a daemon, from the         *)
(* greeting on: the phone writes a command and reads one line, for ten     *)
(* seconds at most, and nothing in a line says which command it answers.   *)
(* A call that has given up leaves its command and its answer behind.  The *)
(* controls show what the answers said: the mute button, and the seek bar, *)
(* which sends how far it was moved.                                       *)
(*                                                                         *)
(* The range of the mixer begins at zero, nobody else changes the          *)
(* desktop's sound, and the calls of the mixer do not fail, but for a      *)
(* volume that is out of range (SoundControl has all the cases).           *)
(***************************************************************************)
EXTENDS Integers, Sequences

CONSTANTS
  MAX_VOL,    \* the percents of the whole range, 100 in the code
  Spans,      \* the maxima of mixers
  MaxSlides,  \* bound: the moves of the bar after its volume was read
  MaxLate     \* bound: after so many calls that gave up nothing is touched

ASSUME SessionAssumption ==
  /\ MAX_VOL \in Nat /\ MAX_VOL > 1
  /\ Spans \subseteq Nat \ {0}
  /\ MaxSlides \in Nat /\ MaxLate \in Nat

Percents == 0..MAX_VOL
Changes == (-MAX_VOL)..MAX_VOL
Sounds == UNION {[muted : BOOLEAN, span : {s}, raw : 0..s] : s \in Spans}

\* A command or an answer: its word, and the number that goes with it.
Line(word, number) == [word |-> word, number |-> number]
Commands == {Line(w, 0) : w \in {"hello", "is_muted", "get_vol", "mute", "unmute"}}
              \cup {Line("chg_vol", n) : n \in Changes}
Answers == {Line(w, 0) : w \in {"hello", "OK", "ERR", "true", "false"}} \cup {Line("percents", n) : n \in Percents}

Nothing == Line("nothing", 0)

VARIABLES
  phone,       \* the call that a thread of the application is in
  prev,        \* prevProgres: the seek bar's progress when it was touched
  shownMuted,  \* MuteButton.shownMuted
  bar,         \* the seek bar: enabled or not, and its progress
  closed,      \* the daemon has closed the connection
  commands,    \* what the phone has sent and the daemon has not received
  current,     \* the command the daemon executes, and whether it has parameters too many
  answers,     \* what the phone has not read yet
  late,        \* history: the calls of this connection that gave up
  slides,      \* history: the moves of the bar since it was set to a volume that was read
  ignored,     \* history: the mixer has ignored one of them
  desktop      \* the sound of the desktop: its switch, and the mixer's maximum and volume

callVars    == <<phone, prev>>
controlVars == <<shownMuted, bar>>
daemonVars  == <<closed, current, ignored, desktop>>
vars == <<callVars, controlVars, daemonVars, commands, answers, late, slides>>

Calls == {"hello", "is_muted", "get_vol", "get_vol of a click", "mute", "unmute", "chg_vol"}
Waiting == phone \in Calls

SessionTypeOK ==
  /\ phone \in Calls \cup {"idle", "refused", "crashed"}
  /\ prev \in Percents /\ shownMuted \in BOOLEAN /\ bar \in [enabled : BOOLEAN, at : Percents]
  /\ closed \in BOOLEAN /\ commands \in Seq(Commands) /\ answers \in Seq(Answers)
  /\ current \in [command : Commands \cup {Nothing}, merged : BOOLEAN]
  /\ late \in Nat /\ slides \in Nat /\ ignored \in BOOLEAN
  /\ desktop \in Sounds

None == [command |-> Nothing, merged |-> FALSE]

\* The phone has connected and greets; its controls are fresh.
Init ==
  /\ phone = "hello" /\ prev = 0
  /\ shownMuted = FALSE /\ bar = [enabled |-> FALSE, at |-> 0]
  /\ closed = FALSE /\ current = None
  /\ commands = <<Line("hello", 0)>> /\ answers = <<>>
  /\ late = 0 /\ slides = 0 /\ ignored = FALSE
  /\ desktop \in Sounds

-----------------------------------------------------------------------------
(* The daemon *)

\* recv() takes what has arrived, at least a line; the first is the command and
\* the words of the others are its parameters.
Receive ==
  /\ current = None
  /\ \E n \in 1..Len(commands) :
       /\ current' = [command |-> Head(commands), merged |-> n > 1]
       /\ commands' = SubSeq(commands, n + 1, Len(commands))
  /\ UNCHANGED <<callVars, controlVars, closed, answers, late, slides, ignored, desktop>>

\* The volume in percents, rounded down ...
Volume == (MAX_VOL * desktop.raw) \div desktop.span

\* ... and the mixer's value for percents, with another divisor.
RawOf(percent) == (percent * desktop.span) \div (MAX_VOL - 1)

InRange(v) == IF v < 0 THEN 0 ELSE IF v > MAX_VOL THEN MAX_VOL ELSE v

\* The value that chg_vol sets; that of MAX_VOL percents may be above the range.
NewRaw(c) == RawOf(InRange(Volume + c.command.number))

\* A command with parameters it does not expect does nothing, and all but get_vol
\* answer "OK" to it; chg_vol takes its first parameter.
Answer(c) ==
  CASE c.merged                     -> Line(IF c.command.word = "get_vol" THEN "ERR" ELSE "OK", 0)
    [] c.command.word = "hello"     -> Line("hello", 0)
    [] c.command.word = "is_muted"  -> Line(IF desktop.muted THEN "true" ELSE "false", 0)
    [] c.command.word = "get_vol"   -> Line("percents", Volume)
    [] OTHER                        -> Line("OK", 0)

\* A value above its range is ignored or limited by the mixer, or an error that
\* nobody looks at.
SoundsAfter(c) ==
  CASE c.command.word = "chg_vol" ->
         {[desktop EXCEPT !.raw = v] : v \in IF NewRaw(c) > desktop.span THEN {desktop.raw, desktop.span}
                                                                     ELSE {NewRaw(c)}}
    [] ~c.merged /\ c.command.word = "mute"   -> {[desktop EXCEPT !.muted = TRUE]}
    [] ~c.merged /\ c.command.word = "unmute" -> {[desktop EXCEPT !.muted = FALSE]}
    [] OTHER                                 -> {desktop}

Ignores(c) == c.command.word = "chg_vol" /\ NewRaw(c) > desktop.span /\ desktop'.raw # desktop.span

Execute ==
  /\ current # None
  /\ current' = None
  /\ desktop' \in SoundsAfter(current)
  /\ ignored' = (ignored \/ Ignores(current))
  /\ answers' = IF closed THEN answers ELSE Append(answers, Answer(current))
  /\ UNCHANGED <<callVars, controlVars, closed, commands, late, slides>>

\* The daemon ends, or drops the connection: what it has not received is lost.
Close ==
  /\ ~closed
  /\ closed' = TRUE /\ commands' = <<>>
  /\ UNCHANGED <<callVars, controlVars, current, answers, late, slides, ignored, desktop>>

-----------------------------------------------------------------------------
(* sendStr() and receiveStr() *)

\* Writing to a connection that the daemon has closed may go unnoticed.
sendStr(c) == commands' = IF closed THEN commands ELSE Append(commands, c)

\* A call of the controls: what is written, and what then waits for its answer.
Call(word, c) == phone' = word /\ sendStr(c)

\* The next line, whichever command it answers.
receiveStr(a) == answers # <<>> /\ a = Head(answers) /\ answers' = Tail(answers) /\ UNCHANGED late

\* The call gives up after ten seconds ...
TimesOut == answers = <<>> /\ late' = late + 1 /\ UNCHANGED answers

\* ... or finds the connection reset.  Both are an IOException.
IoException == TimesOut \/ (answers = <<>> /\ closed /\ UNCHANGED <<answers, late>>)

\* At the end of the stream readLine() returns no string at all.
EndOfStream == answers = <<>> /\ closed /\ UNCHANGED <<answers, late>>

-----------------------------------------------------------------------------
(* The calls *)

\* handShake(), on the connecting thread, where nobody catches the missing string.
Greet ==
  /\ phone = "hello"
  /\ \/ /\ receiveStr(Line("hello", 0))
        /\ Call("is_muted", Line("is_muted", 0))
     \/ /\ IoException \/ \E a \in Answers \ {Line("hello", 0)} : receiveStr(a)
        /\ phone' = "refused" /\ UNCHANGED commands
     \/ /\ EndOfStream
        /\ phone' = "crashed" /\ UNCHANGED commands
  /\ UNCHANGED <<prev, controlVars, daemonVars, slides>>

\* isMuted(): what cannot be read is taken for "not muted".  setVolumeUI() catches
\* the missing string.
AskMuted ==
  /\ phone = "is_muted"
  /\ \/ /\ receiveStr(Line("true", 0))
        /\ shownMuted' = TRUE /\ bar' = [bar EXCEPT !.enabled = FALSE]
        /\ phone' = "idle" /\ UNCHANGED commands
     \/ /\ IoException \/ \E a \in Answers \ {Line("true", 0)} : receiveStr(a)
        /\ Call("get_vol", Line("get_vol", 0)) /\ UNCHANGED controlVars
     \/ /\ EndOfStream
        /\ phone' = "idle" /\ UNCHANGED <<commands, controlVars>>
  /\ UNCHANGED <<prev, daemonVars, slides>>

\* enableVolumeSeekBar(): an answer that is no number is an exception, which
\* setVolumeUI() catches and a click does not.
AskVolume ==
  /\ phone \in {"get_vol", "get_vol of a click"}
  /\ \/ /\ \E v \in Percents : receiveStr(Line("percents", v)) /\ bar' = [enabled |-> TRUE, at |-> v]
        /\ phone' = "idle" /\ slides' = 0 /\ ignored' = FALSE
     \/ /\ \E a \in Answers : a.word # "percents" /\ receiveStr(a)
        /\ phone' = IF phone = "get_vol" THEN "idle" ELSE "crashed"
        /\ UNCHANGED <<bar, slides, ignored>>
     \/ /\ IoException \/ EndOfStream
        /\ phone' = "idle" /\ UNCHANGED <<bar, slides, ignored>>
  /\ UNCHANGED <<prev, shownMuted, commands, closed, current, desktop>>

\* The user touches the controls again.
Touch == phone = "idle" /\ late < MaxLate

\* Mutant: the button sends what it shows.
M_Click ==
  /\ Touch
  /\ LET word == IF shownMuted THEN "mute" ELSE "unmute" IN Call(word, Line(word, 0))
  /\ UNCHANGED <<prev, controlVars, daemonVars, answers, late, slides>>

\* MuteButton.onClick()
Click ==
  /\ Touch
  /\ LET word == IF shownMuted THEN "unmute" ELSE "mute" IN Call(word, Line(word, 0))
  /\ UNCHANGED <<prev, controlVars, daemonVars, answers, late, slides>>

\* sendMuteState() and setShownMuted()
Clicked ==
  /\ phone \in {"mute", "unmute"}
  /\ \/ /\ receiveStr(Line("OK", 0))
        /\ shownMuted' = ~shownMuted
        /\ IF shownMuted
             THEN Call("get_vol of a click", Line("get_vol", 0)) /\ UNCHANGED bar
             ELSE phone' = "idle" /\ bar' = [bar EXCEPT !.enabled = FALSE] /\ UNCHANGED commands
     \/ /\ IoException \/ \E a \in Answers \ {Line("OK", 0)} : receiveStr(a)
        /\ phone' = "idle" /\ UNCHANGED <<controlVars, commands>>
     \/ /\ EndOfStream
        /\ phone' = "crashed" /\ UNCHANGED <<controlVars, commands>>
  /\ UNCHANGED <<prev, daemonVars, slides>>

\* onStopTrackingTouch()
Slide ==
  /\ Touch /\ bar.enabled /\ slides < MaxSlides
  /\ slides' = slides + 1
  /\ \E v \in Percents :
       /\ prev' = bar.at /\ bar' = [bar EXCEPT !.at = v]
       /\ Call("chg_vol", Line("chg_vol", v - bar.at))
  /\ UNCHANGED <<shownMuted, daemonVars, answers, late>>

\* Mutant: nobody reads the answer to a change of the volume.
M_Slid ==
  /\ phone = "chg_vol"
  /\ phone' = "idle"
  /\ UNCHANGED <<prev, controlVars, commands, daemonVars, answers, late, slides>>

\* sendChgVol()
Slid ==
  /\ phone = "chg_vol"
  /\ \/ /\ receiveStr(Line("OK", 0))
        /\ phone' = "idle" /\ UNCHANGED bar
     \/ /\ IoException \/ \E a \in Answers \ {Line("OK", 0)} : receiveStr(a)
        /\ phone' = "idle" /\ bar' = [bar EXCEPT !.at = prev]
     \/ /\ EndOfStream
        /\ phone' = "crashed" /\ UNCHANGED bar
  /\ UNCHANGED <<prev, shownMuted, commands, daemonVars, slides>>

Return == Greet \/ AskMuted \/ AskVolume \/ Clicked \/ Slid

Next == Receive \/ Execute \/ Close \/ Return \/ Click \/ Slide

Spec == Init /\ [][Next]_vars

-----------------------------------------------------------------------------
(* Properties *)

\* What is under way between the two: commands, the one executed, and answers.
Pending == Len(commands) + (IF current = None THEN 0 ELSE 1) + Len(answers)

\* The answers that calls are behind are no more than the calls that gave up
\* (WifiConnector.receiveStr(), 265): a connection on which no call has given up
\* has nothing under way but the call it waits for.
AtMostLateBehind == ~closed => Pending <= late + (IF Waiting THEN 1 ELSE 0)

\* A step of the mixer in percents, rounded up.
Grain == (MAX_VOL + desktop.span - 1) \div desktop.span

\* A bar at a volume that was read, and moved n times since: each move may set
\* less than it says by the mixer's rounding, and more by one percent at most,
\* for MAX_VOL - 1 percents set the whole range.
Near(at, n) == at - Volume >= -n /\ at - Volume <= n * Grain

\* As long as no call has given up and the connection is open, the controls of an
\* idle application show the desktop's sound (UI.setVolumeUiElements() and the
\* listeners of the button and of the bar): the mute button its switch, a bar is
\* enabled just when the desktop is audible, and it shows the volume exactly when
\* it has just been read, and otherwise by as much less or more as the moves since
\* then have been rounded, unless the mixer has ignored one (SoundLib.c 90-101).
ShownIsTrue ==
  phone = "idle" /\ late = 0 /\ ~closed =>
    /\ shownMuted = desktop.muted
    /\ bar.enabled = ~desktop.muted
    /\ bar.enabled /\ ~ignored => Near(bar.at, slides)

\* Only an end of the connection, or a number that is none because a call before
\* had given up, ends the application (the listeners in UI.java, 346 and 571, and
\* the connecting thread catch neither).
EndsOnlyLateOrClosed == phone = "crashed" => closed \/ late > 0

\* sendMuteState() is true when "the command was sent and executed successfully"
\* (WifiConnector.java, 159): the button changes to what the desktop then is.
MuteReportedIsMade ==
  [][(phone \in {"mute", "unmute"} /\ shownMuted' # shownMuted) => shownMuted' = desktop.muted]_vars
=============================================================================
