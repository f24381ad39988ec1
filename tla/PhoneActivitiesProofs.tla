----------------------- MODULE PhoneActivitiesProofs -----------------------
(***************************************************************************)
(* Proofs about PhoneActivities, for any desktops and lists, and for any   *)
(* number of connectors, connecting threads and observers.                 *)
(*                                                                         *)
(* Two invariants.  Base holds always: the types with the positions within *)
(* the list (a message of the spinner that is on its way names one too),   *)
(* the activities on top of the main one each once, the editor below the   *)
(* others and the main activity stopped meanwhile.  QuietInv holds while   *)
(* no connecting thread was disturbed: each thread that lives connects to  *)
(* the selected desktop through the current connector, and nothing is      *)
(* connecting or about to be drawn while the list is edited or empty.      *)
(* Every step of the user, a message, an observer and a connecting thread  *)
(* keeps both; what ends "quiet" is found in the same steps.               *)
(***************************************************************************)
EXTENDS PhoneActivities, SequenceTheorems, TLAPS

\* The activities ab on top of the main one, when the threads are th: each of them once,
\* a connecting one as long as its thread lives.
Stack(ab, th) ==
  /\ \A i, j \in 1..Len(ab) : ab[i] = ab[j] => i = j
  /\ \A i \in 1..Len(ab) : ab[i] # Edit => th[ab[i]].pc \notin {"none", "done"}

Edited(ab) == \E i \in 1..Len(ab) : ab[i] = Edit
Editing == Edited(above)

NoItems(q) == \A i \in 1..Len(q) : q[i][1] # "item"

\* The editor, which has stopped the main activity, is below the others.
Screens ==
  /\ Stack(above, thread)
  /\ Editing => above[1] = Edit /\ main = "stopped" /\ NoItems(inbox)

\* A message of the spinner names a position of the list, which only the editor changes.
ItemsIn(q, n) == \A i \in 1..Len(q) : q[i][1] = "item" => q[i][2] < n
ItemsInList == ItemsIn(inbox, Len(ui.list))

Base == ActivitiesTypeOK /\ Screens /\ ItemsInList

\* A connecting thread r that nobody has disturbed: it connects to the desktop that u selects,
\* through the current connector k, whose state is c.
Touches(r, u, k, c) ==
  /\ u.list # <<>> /\ r.target = Target(u)
  /\ r.pc \in {"dial", "answer", "greeted"} => r.connector = k
  /\ r.pc \in {"answer", "greeted"} => c.sock = "open"

InTouch(t) == Touches(thread[t], ui, current, conn[current])

ConnectorsInOrder ==
  \A c \in Connectors :
    /\ c > current => conn[c] = NewConnector
    /\ c < current => conn[c].sock = "closed"
    /\ conn[c].flag => conn[c].sock = "open"

\* What is so until a connecting thread or the drawing of the volume is disturbed.
Undisturbed ==
  /\ ~crashed
  /\ ConnectorsInOrder
  /\ \A t \in Threads : Alive(t) => InTouch(t)
  /\ ui.list # <<>> /\ conn[current].sock = "open" => conn[current].peer = Target(ui)
  /\ Editing \/ ui.list = <<>> => ~SomeAlive /\ ~Drawing /\ ~pending
  /\ ui.list = <<>> => ~ui.enabled

QuietInv == quiet => Undisturbed

-----------------------------------------------------------------------------
(* Sequences *)

LEMMA Removed ==
  ASSUME NEW S, NEW s \in Seq(S), NEW i \in 1..Len(s)
  PROVE  /\ RemoveAt(s, i) \in Seq(S)
         /\ Len(RemoveAt(s, i)) = Len(s) - 1
         /\ \A j \in 1..(Len(s) - 1) : RemoveAt(s, i)[j] = IF j < i THEN s[j] ELSE s[j + 1]
<1> DEFINE n == Len(s)
           k == i - 1
           m == i + 1
           head == SubSeq(s, 1, k)
           tail == SubSeq(s, m, n)
<1>1. n \in Nat /\ i \in 1..n /\ \A j \in 1..n : s[j] \in S
  BY ElementOfSeq, LenProperties
<1>2. RemoveAt(s, i) = head \o tail
  BY DEF RemoveAt
<1> HIDE DEF n
<1>3. k \in Int /\ m \in Int /\ (\A j \in 1..k : j \in 1..n) /\ (\A j \in m..n : j \in 1..n)
  BY <1>1
<1>4. /\ k - 1 + 1 = k /\ (IF 1 <= k THEN k - 1 + 1 ELSE 0) = k
      /\ (IF m <= n THEN n - m + 1 ELSE 0) = n - i
      /\ \A j \in 1..k : j \in 1..(k - 1 + 1) /\ 1 + j - 1 = j
      /\ \A j \in 1..(n - i) : j \in 1..(n - m + 1) /\ m + j - 1 = i + j
  BY <1>1
<1> HIDE DEF k, m
<1>5. /\ head \in Seq(S) /\ Len(head) = IF 1 <= k THEN k - 1 + 1 ELSE 0
      /\ \A j \in 1..(k - 1 + 1) : head[j] = s[1 + j - 1]
  BY <1>1, <1>3, SubSeqProperties
<1>6. /\ tail \in Seq(S) /\ Len(tail) = IF m <= n THEN n - m + 1 ELSE 0
      /\ \A j \in 1..(n - m + 1) : tail[j] = s[m + j - 1]
  BY <1>1, <1>3, SubSeqProperties
<1> HIDE DEF head, tail
<1>7. Len(head) = k /\ Len(tail) = n - i /\ (\A j \in 1..k : head[j] = s[j])
        /\ \A j \in 1..(n - i) : tail[j] = s[i + j]
  BY <1>4, <1>5, <1>6
<1>8. /\ head \o tail \in Seq(S) /\ Len(head \o tail) = Len(head) + Len(tail)
      /\ \A j \in 1..(Len(head) + Len(tail)) :
           (head \o tail)[j] = IF j <= Len(head) THEN head[j] ELSE tail[j - Len(head)]
  BY <1>5, <1>6, ConcatProperties
<1>9. k + (n - i) = n - 1
  BY <1>1 DEF k
<1>10. ASSUME NEW j \in 1..(n - 1)
       PROVE  (head \o tail)[j] = IF j < i THEN s[j] ELSE s[j + 1]
  <2>1. (head \o tail)[j] = IF j <= k THEN head[j] ELSE tail[j - k]
    BY <1>7, <1>8, <1>9
  <2>2. CASE j < i
    <3>1. j <= k /\ j \in 1..k
      BY <1>1, <2>2 DEF k
    <3> QED
      BY <1>7, <2>1, <2>2, <3>1
  <2>3. CASE ~(j < i)
    <3>1. ~(j <= k) /\ j - k \in 1..(n - i) /\ i + (j - k) = j + 1
      BY <1>1, <2>3 DEF k
    <3> QED
      BY <1>7, <2>1, <2>3, <3>1
  <2> QED
    BY <2>2, <2>3
<1> QED
  BY <1>2, <1>7, <1>8, <1>9, <1>10 DEF n

LEMMA FrontLast ==
  ASSUME NEW S, NEW s \in Seq(S), s # <<>>
  PROVE  /\ Front(s) \in Seq(S) /\ Len(Front(s)) = Len(s) - 1
         /\ \A j \in 1..(Len(s) - 1) : Front(s)[j] = s[j]
         /\ Len(s) \in 1..Len(s) /\ Last(s) = s[Len(s)]
<1> DEFINE n == Len(s)
<1>0. n \in Nat /\ n > 0
  BY EmptySeq, LenProperties
<1>1. \A j \in 1..(n - 1) : s[j] \in S
  BY <1>0, ElementOfSeq
<1> HIDE DEF n
<1>2. n - 1 \in Int /\ n \in 1..n /\ (IF 1 <= n - 1 THEN n - 1 - 1 + 1 ELSE 0) = n - 1
  BY <1>0
<1>3. \A j \in 1..(n - 1) : j \in 1..(n - 1 - 1 + 1) /\ 1 + j - 1 = j
  BY <1>0
<1>4. /\ SubSeq(s, 1, n - 1) \in Seq(S)
      /\ Len(SubSeq(s, 1, n - 1)) = IF 1 <= n - 1 THEN n - 1 - 1 + 1 ELSE 0
      /\ \A j \in 1..(n - 1 - 1 + 1) : SubSeq(s, 1, n - 1)[j] = s[1 + j - 1]
  BY <1>1, <1>2, SubSeqProperties
<1>5. Front(s) = SubSeq(s, 1, n - 1) /\ Last(s) = s[n]
  BY DEF Front, Last, n
<1>6. /\ Front(s) \in Seq(S) /\ Len(Front(s)) = n - 1
      /\ \A j \in 1..(n - 1) : Front(s)[j] = s[j]
  BY <1>2, <1>3, <1>4, <1>5
<1> QED
  BY <1>2, <1>5, <1>6 DEF n
-----------------------------------------------------------------------------
(* Types *)

UiFields == [list : Seq(Desktops), selected : Nat, edited : Nat \cup {NoEdit}, hostChecked : BOOLEAN,
             redrawVol : BOOLEAN, enabled : BOOLEAN]
ThreadStates == [pc : {"none", "reach", "dial", "hello", "answer", "greeted", "done"},
                 target : Desktops \cup {NoDesktop}, connector : Connectors \cup {Nobody}]
ConnectorStates == [sock : {"fresh", "open", "closed", "failed"}, peer : Desktops \cup {NoDesktop}, flag : BOOLEAN]
ObserverStates == [pc : {"none", "begun", "polling", "acting", "ended"}, stop : BOOLEAN]
Letters == {<<"redrawVol">>} \cup ({"item"} \X Nat)
Tops == Threads \cup {Edit}

\* The fields of WifiUI fit together: the positions lie within the list.
Fits(u) ==
  /\ u \in UiFields
  /\ u.list # <<>> => u.selected < Len(u.list)
  /\ u.edited # NoEdit => u.edited < Len(u.list)

LEMMA TypeParts ==
  ActivitiesTypeOK <=>
    /\ main \in {"started", "stopped"} /\ above \in Seq(Tops)
    /\ pending \in BOOLEAN /\ crashed \in BOOLEAN /\ quiet \in BOOLEAN
    /\ Fits(ui) /\ inbox \in Seq(Letters)
    /\ conn \in [Connectors -> ConnectorStates] /\ current \in Connectors
    /\ thread \in [Threads -> ThreadStates] /\ observer \in [Observers -> ObserverStates]
BY DEF ActivitiesTypeOK, UiFields, ThreadStates, ConnectorStates, ObserverStates, Letters, Tops, Fits

LEMMA TargetIsDesktop ==
  ASSUME NEW u, Fits(u), u.list # <<>>
  PROVE  Target(u) \in Desktops
<1>1. u.list \in Seq(Desktops) /\ u.selected \in Nat /\ u.selected < Len(u.list)
  BY DEF Fits, UiFields
<1>2. u.selected + 1 \in 1..Len(u.list)
  BY <1>1, LenProperties
<1> QED
  BY <1>1, <1>2, ElementOfSeq DEF Target

\* The flags may change without a change of the positions.
LEMMA FlagsFit ==
  ASSUME NEW u, Fits(u), NEW b \in BOOLEAN
  PROVE  /\ Fits([u EXCEPT !.enabled = b]) /\ Fits([u EXCEPT !.hostChecked = b])
         /\ Fits([u EXCEPT !.redrawVol = b]) /\ Fits(Connected(u))
<1> DEFINE SameList(v) == v.list = u.list /\ v.selected = u.selected /\ v.edited = u.edited
<1>1. ASSUME NEW v \in UiFields, SameList(v) PROVE Fits(v)
  BY <1>1 DEF Fits
<1>2. u \in UiFields
  BY DEF Fits
<1>3. [u EXCEPT !.enabled = b] \in UiFields /\ SameList([u EXCEPT !.enabled = b])
  BY <1>2 DEF UiFields
<1>4. [u EXCEPT !.hostChecked = b] \in UiFields /\ SameList([u EXCEPT !.hostChecked = b])
  BY <1>2 DEF UiFields
<1>5. [u EXCEPT !.redrawVol = b] \in UiFields /\ SameList([u EXCEPT !.redrawVol = b])
  BY <1>2 DEF UiFields
<1>6. Connected(u) \in UiFields /\ SameList(Connected(u))
  BY <1>2 DEF UiFields, Connected
<1> QED
  BY <1>1, <1>3, <1>4, <1>5, <1>6

LEMMA ClosedTypes ==
  ASSUME NEW cs \in [Connectors -> ConnectorStates], NEW c
  PROVE  closeConnection(c, cs) \in [Connectors -> ConnectorStates]
BY DEF closeConnection, NewConnector, ConnectorStates

LEMMA NewIsConnector == NewConnector \in ConnectorStates
BY DEF NewConnector, ConnectorStates
-----------------------------------------------------------------------------
(* Drawing: what setVolumeUI() and reDrawUI() may leave behind. *)

\* A connecting activity is opened over ab for the desktop that u selects.
Opened(u, ab, c) ==
  /\ u.list # <<>>
  /\ \E t \in Threads :
       /\ thread[t].pc = "none"
       /\ thread' = [thread EXCEPT ![t] = [pc |-> "reach", target |-> Target(u), connector |-> Nobody]]
       /\ above' = Append(ab, t)
  /\ quiet' = (quiet /\ ~SomeAlive /\ c.sock # "open")

\* Of the fields u only the controls change.
Drawn(u, ab, c) ==
  /\ crashed' = crashed
  /\ \E b \in BOOLEAN : ui' = [u EXCEPT !.enabled = b] /\ (u.list = <<>> => ~b)
  /\ \/ Opened(u, ab, c)
     \/ (u.hostChecked \/ u.list = <<>>) /\ above' = ab /\ thread' = thread /\ quiet' = quiet

\* The volume of an empty list was drawn.
Crash(u, ab) == u.list = <<>> /\ crashed' = TRUE /\ ui' = u /\ above' = ab /\ thread' = thread /\ quiet' = quiet

LEMMA SetVolume ==
  ASSUME NEW u, Fits(u), NEW ab, NEW c \in ConnectorStates, setVolumeUI(u, ab, c)
  PROVE  Drawn(u, ab, c) \/ Crash(u, ab)
<1>0. u \in UiFields /\ u.enabled \in BOOLEAN /\ u = [u EXCEPT !.enabled = u.enabled]
  BY DEF Fits, UiFields
<1>1. CASE u.list # <<>> /\ ~u.hostChecked /\ openConnectingActivity(u, ab, c)
  <2>1. Opened(u, ab, c) /\ ui' = u /\ crashed' = crashed
    BY <1>1 DEF openConnectingActivity, Opened
  <2> QED
    BY <1>0, <1>1, <2>1 DEF Drawn
<1>2. CASE /\ u.list # <<>> /\ u.hostChecked /\ ui' = [u EXCEPT !.enabled = u.enabled \/ c.flag] /\ above' = ab
           /\ UNCHANGED <<thread, quiet, crashed>>
  <2>1. (u.enabled \/ c.flag) \in BOOLEAN
    BY DEF Fits, UiFields, ConnectorStates
  <2> QED
    BY <1>2, <2>1 DEF Drawn
<1>3. CASE u.list = <<>> /\ crashed' = TRUE /\ ui' = u /\ above' = ab /\ UNCHANGED <<thread, quiet>>
  BY <1>3 DEF Crash
<1> QED
  BY <1>1, <1>2, <1>3 DEF setVolumeUI

LEMMA Redraw ==
  ASSUME NEW u, Fits(u), NEW ab, NEW c \in ConnectorStates, NEW q, reDrawUI(u, ab, c, q)
  PROVE  /\ Drawn(u, ab, c)
         /\ \/ inbox' = q
            \/ u.edited # NoEdit /\ u.edited < Len(u.list) /\ inbox' = Append(q, <<"item", u.edited>>)
<1> DEFINE fresh == [u EXCEPT !.enabled = FALSE]
           pos == IF u.edited # NoEdit THEN u.edited ELSE u.selected
<1>1. Fits(fresh) /\ fresh.list = u.list /\ fresh.selected = u.selected /\ fresh.hostChecked = u.hostChecked
  BY FlagsFit DEF Fits, UiFields
<1>2. \A b \in BOOLEAN : [fresh EXCEPT !.enabled = b] = [u EXCEPT !.enabled = b]
  BY DEF Fits, UiFields
<1>3. inbox' = q \/ (u.edited # NoEdit /\ u.edited < Len(u.list) /\ inbox' = Append(q, <<"item", u.edited>>))
  BY DEF reDrawUI, Fits
<1>4. CASE u.list = <<>> /\ ui' = fresh /\ above' = ab /\ UNCHANGED <<thread, quiet, crashed>>
  BY <1>3, <1>4 DEF Drawn
<1>5. CASE u.list # <<>> /\ setVolumeUI(fresh, ab, c)
  <2>1. Drawn(fresh, ab, c) \/ Crash(fresh, ab)
    BY <1>1, <1>5, SetVolume
  <2>2. Drawn(fresh, ab, c)
    BY <1>1, <1>5, <2>1 DEF Crash
  <2>3. Opened(fresh, ab, c) => Opened(u, ab, c)
    BY <1>1 DEF Opened, Target
  <2> QED
    BY <1>1, <1>2, <1>3, <2>2, <2>3 DEF Drawn
<1> QED
  BY <1>4, <1>5 DEF reDrawUI

\* The list and the positions are those the drawing was given.
LEMMA DrawnFields ==
  ASSUME NEW u, Fits(u), NEW ab, NEW c, Drawn(u, ab, c) \/ Crash(u, ab)
  PROVE  /\ Fits(ui') /\ ui'.list = u.list /\ ui'.selected = u.selected /\ ui'.edited = u.edited
         /\ ui'.redrawVol = u.redrawVol /\ ui'.hostChecked = u.hostChecked
<1>1. CASE ui' = u
  BY <1>1
<1>2. ASSUME NEW b \in BOOLEAN, ui' = [u EXCEPT !.enabled = b]
      PROVE  /\ Fits(ui') /\ ui'.list = u.list /\ ui'.selected = u.selected /\ ui'.edited = u.edited
             /\ ui'.redrawVol = u.redrawVol /\ ui'.hostChecked = u.hostChecked
  <2>1. Fits(ui')
    BY <1>2, FlagsFit
  <2> QED
    BY <1>2, <2>1 DEF Fits, UiFields
<1> QED
  BY <1>1, <1>2 DEF Drawn, Crash

\* What is on top of the main activity stays in order.
LEMMA DrawnStack ==
  ASSUME thread \in [Threads -> ThreadStates], quiet \in BOOLEAN, crashed \in BOOLEAN,
         NEW u, Fits(u), NEW ab \in Seq(Tops), NEW c, Stack(ab, thread), Drawn(u, ab, c) \/ Crash(u, ab)
  PROVE  /\ thread' \in [Threads -> ThreadStates] /\ quiet' \in BOOLEAN /\ crashed' \in BOOLEAN
         /\ above' \in Seq(Tops) /\ Stack(above', thread')
         /\ Edited(above') => Edited(ab) /\ above'[1] = ab[1]
<1>1. CASE above' = ab /\ thread' = thread
  BY <1>1 DEF Drawn, Crash, Opened
<1>2. CASE Opened(u, ab, c) /\ crashed' = crashed
  <2>1. PICK t \in Threads :
          /\ thread[t].pc = "none" /\ above' = Append(ab, t)
          /\ thread' = [thread EXCEPT ![t] = [pc |-> "reach", target |-> Target(u), connector |-> Nobody]]
    BY <1>2 DEF Opened
  <2>2. [pc |-> "reach", target |-> Target(u), connector |-> Nobody] \in ThreadStates
    BY <1>2, TargetIsDesktop DEF ThreadStates, Opened
  <2>3. thread' \in [Threads -> ThreadStates]
    BY <2>1, <2>2
  <2> DEFINE n == Len(ab)
  <2>4. /\ n \in Nat /\ above' \in Seq(Tops) /\ Len(above') = n + 1
        /\ \A i \in 1..n : above'[i] = ab[i]
        /\ above'[n + 1] = t
    BY <2>1, AppendProperties, LenProperties DEF Tops
  <2>5. \A i \in 1..n : ab[i] \in Tops
    BY ElementOfSeq
  <2>6. t # Edit
    BY DEF Threads, Edit
  <2>7. \A i \in 1..n : ab[i] # t
    BY <2>1, <2>6 DEF Stack
  <2> HIDE DEF n
  <2>8. \A i \in 1..(n + 1) : i \in 1..n \/ i = n + 1
    BY <2>4
  <2>9. \A i, j \in 1..n : ab[i] = ab[j] => i = j
    BY DEF Stack, n
  <2>10. \A i, j \in 1..(n + 1) : above'[i] = above'[j] => i = j
    BY <2>4, <2>7, <2>8, <2>9
  <2>11. thread'[t].pc = "reach" /\ \A s \in Threads : s # t => thread'[s] = thread[s]
    BY <2>1, <2>2
  <2>12. \A i \in 1..n : ab[i] # Edit => thread[ab[i]].pc \notin {"none", "done"} /\ ab[i] \in Threads
    BY <2>5 DEF Stack, n, Tops
  <2>13. \A i \in 1..(n + 1) : above'[i] # Edit => thread'[above'[i]].pc \notin {"none", "done"}
    BY <2>4, <2>7, <2>8, <2>11, <2>12
  <2>14. Stack(above', thread')
    BY <2>4, <2>10, <2>13 DEF Stack
  <2>15. Edited(above') => Edited(ab) /\ above'[1] = ab[1]
    <3>1. (\E i \in 1..(n + 1) : above'[i] = Edit) => \E i \in 1..n : ab[i] = Edit
      BY <2>4, <2>6, <2>8
    <3>2. \A i \in 1..n : 1 \in 1..n
      BY <2>4
    <3> QED
      BY <2>4, <3>1, <3>2 DEF Edited, n
  <2>16. quiet' \in BOOLEAN
    BY <1>2 DEF Opened
  <2> QED
    BY <1>2, <2>3, <2>4, <2>14, <2>15, <2>16 DEF n
<1> QED
  BY <1>1, <1>2 DEF Drawn, Crash

-----------------------------------------------------------------------------
(* The types, what is on top of the main activity, and the items: every step *)
LEMMA BaseParts ==
  Base <=>
    /\ main \in {"started", "stopped"} /\ above \in Seq(Tops)
    /\ pending \in BOOLEAN /\ crashed \in BOOLEAN /\ quiet \in BOOLEAN
    /\ Fits(ui) /\ inbox \in Seq(Letters)
    /\ conn \in [Connectors -> ConnectorStates] /\ current \in Connectors
    /\ thread \in [Threads -> ThreadStates] /\ observer \in [Observers -> ObserverStates]
    /\ Stack(above, thread) /\ ItemsIn(inbox, Len(ui.list))
    /\ Edited(above) => above[1] = Edit /\ main = "stopped" /\ NoItems(inbox)
BY TypeParts DEF Base, Screens, ItemsInList, Editing

\* What is taken from the messages, and what comes to them.
LEMMA Messages ==
  ASSUME NEW q \in Seq(Letters), NEW n \in Nat, ItemsIn(q, n)
  PROVE  /\ q # <<>> => /\ Tail(q) \in Seq(Letters) /\ ItemsIn(Tail(q), n)
                        /\ NoItems(q) => NoItems(Tail(q)) /\ Head(q)[1] # "item"
                        /\ Head(q) \in Letters
                        /\ Head(q)[1] = "item" => Head(q)[2] \in Nat /\ Head(q)[2] < n
         /\ /\ Append(q, <<"redrawVol">>) \in Seq(Letters) /\ ItemsIn(Append(q, <<"redrawVol">>), n)
            /\ NoItems(q) => NoItems(Append(q, <<"redrawVol">>))
         /\ \A k \in Nat : k < n => Append(q, <<"item", k>>) \in Seq(Letters) /\ ItemsIn(Append(q, <<"item", k>>), n)
<1> DEFINE m == Len(q)
<1>0. m \in Nat /\ \A i \in 1..m : q[i] \in Letters
  BY ElementOfSeq, LenProperties
<1>1. ASSUME q # <<>>
      PROVE  /\ Tail(q) \in Seq(Letters) /\ Len(Tail(q)) = m - 1 /\ Head(q) = q[1] /\ 1 \in 1..m
             /\ \A i \in 1..(m - 1) : Tail(q)[i] = q[i + 1] /\ i + 1 \in 1..m
  <2>1. m > 0
    BY <1>0, <1>1, EmptySeq
  <2>2. Tail(q) \in Seq(Letters) /\ Len(Tail(q)) = m - 1 /\ \A i \in 1..(m - 1) : Tail(q)[i] = q[i + 1]
    BY <1>1, HeadTailProperties
  <2>3. 1 \in 1..m /\ \A i \in 1..(m - 1) : i + 1 \in 1..m
    BY <1>0, <2>1
  <2> QED
    BY <2>2, <2>3
<1>2. ASSUME NEW x \in Letters
      PROVE  /\ Append(q, x) \in Seq(Letters) /\ Len(Append(q, x)) = m + 1 /\ Append(q, x)[m + 1] = x
             /\ \A i \in 1..m : Append(q, x)[i] = q[i]
             /\ \A i \in 1..(m + 1) : i \in 1..m \/ i = m + 1
  <2>1. /\ Append(q, x) \in Seq(Letters) /\ Len(Append(q, x)) = m + 1 /\ Append(q, x)[m + 1] = x
        /\ \A i \in 1..m : Append(q, x)[i] = q[i]
    BY AppendProperties
  <2>2. \A i \in 1..(m + 1) : i \in 1..m \/ i = m + 1
    BY <1>0
  <2> QED
    BY <2>1, <2>2
<1>3. (\A i \in 1..m : q[i][1] = "item" => q[i][2] < n) /\ (NoItems(q) <=> \A i \in 1..m : q[i][1] # "item")
  BY DEF ItemsIn, NoItems
<1> HIDE DEF m
<1>4. \A x \in Letters : x[1] = "item" => x[2] \in Nat
  BY DEF Letters
<1>5. <<"redrawVol">> \in Letters /\ <<"redrawVol">>[1] # "item"
  BY DEF Letters
<1>6. \A k \in Nat : <<"item", k>> \in Letters /\ <<"item", k>>[2] = k
  BY DEF Letters
<1>7. q # <<>> => /\ Tail(q) \in Seq(Letters) /\ ItemsIn(Tail(q), n)
                  /\ NoItems(q) => NoItems(Tail(q)) /\ Head(q)[1] # "item"
                  /\ Head(q) \in Letters
                  /\ Head(q)[1] = "item" => Head(q)[2] \in Nat /\ Head(q)[2] < n
  BY <1>0, <1>1, <1>3, <1>4 DEF ItemsIn, NoItems
<1>8. ASSUME NEW x \in Letters, x[1] = "item" => x[2] < n
      PROVE  /\ Append(q, x) \in Seq(Letters) /\ ItemsIn(Append(q, x), n)
             /\ x[1] # "item" /\ NoItems(q) => NoItems(Append(q, x))
  <2>1. \A i \in 1..(m + 1) : Append(q, x)[i][1] = "item" => Append(q, x)[i][2] < n
    BY <1>2, <1>3, <1>8
  <2>2. x[1] # "item" /\ NoItems(q) => \A i \in 1..(m + 1) : Append(q, x)[i][1] # "item"
    BY <1>2, <1>3
  <2> QED
    BY <1>2, <2>1, <2>2 DEF ItemsIn, NoItems
<1>9. \A k \in Nat : k < n => Append(q, <<"item", k>>) \in Seq(Letters) /\ ItemsIn(Append(q, <<"item", k>>), n)
  BY <1>6, <1>8
<1>10. /\ Append(q, <<"redrawVol">>) \in Seq(Letters) /\ ItemsIn(Append(q, <<"redrawVol">>), n)
       /\ NoItems(q) => NoItems(Append(q, <<"redrawVol">>))
  BY <1>5, <1>8
<1> QED
  BY <1>7, <1>9, <1>10

\* A handler of the UI thread that ends with a drawing of the fields u over the activities ab.
LEMMA DrawBase ==
  ASSUME Base, NEW u, Fits(u), NEW ab \in Seq(Tops), NEW c, Stack(ab, thread),
         Drawn(u, ab, c) \/ Crash(u, ab),
         main' \in {"started", "stopped"}, pending' \in BOOLEAN, inbox' \in Seq(Letters),
         conn' \in [Connectors -> ConnectorStates], current' \in Connectors,
         observer' \in [Observers -> ObserverStates],
         ItemsIn(inbox', Len(u.list)),
         Edited(ab) => ab[1] = Edit /\ main' = "stopped" /\ NoItems(inbox')
  PROVE  Base'
<1>1. thread \in [Threads -> ThreadStates] /\ quiet \in BOOLEAN /\ crashed \in BOOLEAN
  BY BaseParts
<1>2. /\ thread' \in [Threads -> ThreadStates] /\ quiet' \in BOOLEAN /\ crashed' \in BOOLEAN
      /\ above' \in Seq(Tops) /\ Stack(above', thread')
      /\ Edited(above') => Edited(ab) /\ above'[1] = ab[1]
  BY <1>1, DrawnStack
<1>3. Fits(ui') /\ ui'.list = u.list
  BY DrawnFields
<1> QED
  BY <1>2, <1>3 DEF Base, Screens, ItemsInList, Editing, ActivitiesTypeOK, UiFields, ThreadStates,
       ConnectorStates, ObserverStates, Letters, Tops, Fits

LEMMA ListLength ==
  ASSUME NEW u, Fits(u)
  PROVE  Len(u.list) \in Nat /\ u.selected \in Nat /\ (u.edited # NoEdit => u.edited \in Nat)
BY LenProperties DEF Fits, UiFields

LEMMA NewStates ==
  /\ [pc |-> "begun", stop |-> TRUE] \in ObserverStates
  /\ [NoThread EXCEPT !.pc = "done"] \in ThreadStates
  /\ \A ob \in ObserverStates : Stopped(ob) \in ObserverStates
<1>1. [pc |-> "begun", stop |-> TRUE] \in ObserverStates
  BY DEF ObserverStates
<1>2. [NoThread EXCEPT !.pc = "done"] \in ThreadStates
  BY DEF NoThread, ThreadStates
<1>3. \A ob \in ObserverStates : Stopped(ob) \in ObserverStates
  BY DEF Stopped, ObserverStates
<1> QED
  BY <1>1, <1>2, <1>3

LEMMA StartBase ==
  ASSUME Base, NEW u, Fits(u), NEW ab \in Seq(Tops), Stack(ab, thread), ~Edited(ab),
         ItemsIn(inbox, Len(u.list)), pending' \in BOOLEAN, onStart(u, ab)
  PROVE  Base'
<1>1. /\ inbox \in Seq(Letters) /\ conn \in [Connectors -> ConnectorStates] /\ current \in Connectors
      /\ observer \in [Observers -> ObserverStates]
  BY BaseParts
<1>2. conn[current] \in ConnectorStates /\ reDrawUI(u, ab, conn[current], inbox)
  BY <1>1 DEF onStart
<1>3. /\ Drawn(u, ab, conn[current])
      /\ \/ inbox' = inbox
         \/ u.edited # NoEdit /\ u.edited < Len(u.list) /\ inbox' = Append(inbox, <<"item", u.edited>>)
  BY <1>2, Redraw
<1>4. inbox' \in Seq(Letters) /\ ItemsIn(inbox', Len(u.list))
  BY <1>1, <1>3, ListLength, Messages
<1>5. main' \in {"started", "stopped"} /\ conn' = conn /\ current' = current
  BY DEF onStart
<1>6. observer' \in [Observers -> ObserverStates]
  BY <1>1, NewStates DEF onStart
<1> QED
  BY <1>1, <1>3, <1>4, <1>5, <1>6, DrawBase

\* The editor, when it is in front, is alone above the main activity.
LEMMA EditorAlone ==
  ASSUME Base, above # <<>>, Last(above) = Edit
  PROVE  Editing /\ Len(above) = 1 /\ above = <<Edit>> /\ Front(above) = <<>>
<1> DEFINE n == Len(above)
<1>1. above \in Seq(Tops) /\ n \in Nat
  BY BaseParts, LenProperties
<1>2. n \in 1..n /\ Last(above) = above[n] /\ Len(Front(above)) = n - 1 /\ Front(above) \in Seq(Tops)
  BY <1>1, FrontLast
<1>3. above[n] = Edit /\ Edited(above)
  BY <1>2 DEF Edited
<1>4. above[1] = Edit /\ \A i, j \in 1..n : above[i] = above[j] => i = j
  BY <1>3, BaseParts DEF Stack
<1> HIDE DEF n
<1>5. n = 1
  <2>1. 1 \in 1..n /\ n \in 1..n
    BY <1>1, <1>2
  <2>2. above[1] = above[n]
    BY <1>3, <1>4
  <2> QED
    BY <1>4, <2>1, <2>2
<1>6. Len(Front(above)) = 0
  BY <1>2, <1>5
<1>7. Front(above) = <<>>
  BY <1>2, <1>6, EmptySeq
<1>8. above = <<Edit>>
  BY <1>1, <1>3, <1>5 DEF n
<1> QED
  BY <1>3, <1>5, <1>7, <1>8 DEF Editing, n

LEMMA NothingAbove == <<>> \in Seq(Tops) /\ ~Edited(<<>>) /\ \A th : Stack(<<>>, th)
BY EmptySeq DEF Edited, Stack

LEMMA LeaveBase ==
  ASSUME Base, NEW u, Fits(u), LeaveEditor(u)
  PROVE  Base'
<1>1. Len(above) = 1 /\ Front(above) = <<>> /\ Editing
  BY EditorAlone DEF LeaveEditor
<1>2. NoItems(inbox) /\ pending \in BOOLEAN
  BY <1>1, BaseParts DEF Editing
<1>3. \A n : ItemsIn(inbox, n)
  BY <1>2 DEF ItemsIn, NoItems
<1>4. Fits(Connected(u))
  BY FlagsFit
<1>5. PICK v \in {u, Connected(u)} : onStart(v, <<>>)
  BY <1>1 DEF LeaveEditor
<1>6. pending' \in BOOLEAN
  BY <1>2 DEF LeaveEditor
<1> QED
  BY <1>3, <1>4, <1>5, <1>6, NothingAbove, StartBase

\* The list without a desktop, and what the editor makes of it, are lists with their positions.
LEMMA WithoutIsList ==
  ASSUME NEW u, Fits(u)
  PROVE  /\ Without(u.list, u.edited) \in Seq(Desktops)
         /\ Len(Without(u.list, u.edited)) \in Nat
<1>1. CASE u.edited = NoEdit
  BY <1>1, LenProperties DEF Without, Fits, UiFields
<1>2. CASE u.edited # NoEdit
  <2>1. u.list \in Seq(Desktops) /\ u.edited + 1 \in 1..Len(u.list)
    BY <1>2, ListLength DEF Fits, UiFields
  <2>2. RemoveAt(u.list, u.edited + 1) \in Seq(Desktops)
    BY <2>1, Removed
  <2> QED
    BY <1>2, <2>2, LenProperties DEF Without
<1> QED
  BY <1>1, <1>2

EditedOk(u, d, isDefault) ==
  [u EXCEPT !.list = IF isDefault THEN <<d>> \o Without(u.list, u.edited) ELSE Append(Without(u.list, u.edited), d),
            !.selected = IF isDefault THEN 0 ELSE Len(Without(u.list, u.edited)),
            !.edited = NoEdit, !.hostChecked = FALSE]
Deleted(u) == [u EXCEPT !.list = Without(u.list, u.edited), !.selected = 0, !.edited = NoEdit, !.hostChecked = FALSE]

LEMMA EditedFits ==
  ASSUME NEW u, Fits(u)
  PROVE  /\ \A d \in Desktops, isDefault \in BOOLEAN : Fits(EditedOk(u, d, isDefault)) /\ EditedOk(u, d, isDefault).list # <<>>
         /\ Fits(Deleted(u))
         /\ Fits([u EXCEPT !.hostChecked = FALSE, !.edited = NoEdit])
<1> DEFINE rest == Without(u.list, u.edited)
<1>0. u \in UiFields /\ rest \in Seq(Desktops) /\ Len(rest) \in Nat
  BY WithoutIsList DEF Fits
<1>1. ASSUME NEW l \in Seq(Desktops), NEW k \in Nat, l # <<>> => k < Len(l)
      PROVE  Fits([u EXCEPT !.list = l, !.selected = k, !.edited = NoEdit, !.hostChecked = FALSE])
  <2>1. [u EXCEPT !.list = l, !.selected = k, !.edited = NoEdit, !.hostChecked = FALSE] \in UiFields
    BY <1>0 DEF UiFields
  <2> QED
    BY <1>0, <1>1, <2>1 DEF Fits, UiFields
<1> HIDE DEF rest
<1>2. \A d \in Desktops : /\ Append(rest, d) \in Seq(Desktops) /\ Len(Append(rest, d)) = Len(rest) + 1
  BY <1>0, AppendProperties
<1>3. \A d \in Desktops : <<d>> \o rest \in Seq(Desktops) /\ Len(<<d>> \o rest) = 1 + Len(rest)
  <2> TAKE d \in Desktops
  <2>1. <<d>> \in Seq(Desktops) /\ Len(<<d>>) = 1
    OBVIOUS
  <2> QED
    BY <1>0, <2>1, ConcatProperties
<1>4. ASSUME NEW d \in Desktops, NEW isDefault \in BOOLEAN
      PROVE  Fits(EditedOk(u, d, isDefault)) /\ EditedOk(u, d, isDefault).list # <<>>
  <2> DEFINE l == IF isDefault THEN <<d>> \o rest ELSE Append(rest, d)
             k == IF isDefault THEN 0 ELSE Len(rest)
  <2>1. l \in Seq(Desktops) /\ k \in Nat /\ k < Len(l) /\ Len(l) # 0
    BY <1>0, <1>2, <1>3
  <2>2. EditedOk(u, d, isDefault) = [u EXCEPT !.list = l, !.selected = k, !.edited = NoEdit, !.hostChecked = FALSE]
    BY DEF EditedOk, rest
  <2> HIDE DEF l, k
  <2>3. [u EXCEPT !.list = l, !.selected = k, !.edited = NoEdit, !.hostChecked = FALSE].list = l
    BY <1>0 DEF UiFields
  <2>4. l # <<>>
    BY <2>1, EmptySeq
  <2> QED
    BY <1>1, <2>1, <2>2, <2>3, <2>4
<1>5. Fits(Deleted(u))
  <2>1. rest # <<>> => 0 < Len(rest)
    BY <1>0, EmptySeq
  <2> QED
    BY <1>0, <1>1, <2>1 DEF Deleted, rest
<1>6. Fits([u EXCEPT !.hostChecked = FALSE, !.edited = NoEdit])
  <2>1. [u EXCEPT !.hostChecked = FALSE, !.edited = NoEdit] \in UiFields
    BY <1>0 DEF UiFields
  <2> QED
    BY <1>0, <2>1 DEF Fits, UiFields
<1> QED
  BY <1>4, <1>5, <1>6

LEMMA EditorBase ==
  ASSUME Base,
         \/ \E d \in Desktops, isDefault \in BOOLEAN : EditOk(d, isDefault)
         \/ EditDelete \/ EditCancel \/ EditBack
  PROVE  Base'
<1>1. Fits(ui)
  BY BaseParts
<1>2. CASE \E d \in Desktops, isDefault \in BOOLEAN : EditOk(d, isDefault)
  <2>1. \E d \in Desktops, isDefault \in BOOLEAN : LeaveEditor(EditedOk(ui, d, isDefault))
    BY <1>2 DEF EditOk, EditedOk
  <2> QED
    BY <1>1, <2>1, EditedFits, LeaveBase
<1>3. CASE EditDelete
  <2>1. LeaveEditor(Deleted(ui))
    BY <1>3 DEF EditDelete, Deleted
  <2> QED
    BY <1>1, <2>1, EditedFits, LeaveBase
<1>4. CASE EditCancel
  BY <1>1, <1>4, EditedFits, LeaveBase DEF EditCancel
<1>5. CASE EditBack
  BY <1>1, <1>5, LeaveBase DEF EditBack
<1> QED
  BY <1>2, <1>3, <1>4, <1>5
\* The fields after another desktop was selected.
Selected(u, pos) == [u EXCEPT !.selected = pos, !.hostChecked = FALSE]

LEMMA SelectedFits ==
  ASSUME NEW u, Fits(u), NEW pos \in Nat, pos < Len(u.list)
  PROVE  Fits(Selected(u, pos)) /\ Selected(u, pos).list = u.list /\ Selected(u, pos).selected = pos
BY DEF Fits, UiFields, Selected

LEMMA ItemSelectedBase ==
  ASSUME Base, NEW pos \in Nat, pos < Len(ui.list), NEW q \in Seq(Letters), ItemsIn(q, Len(ui.list)),
         ~Editing, onItemSelected(pos, q)
  PROVE  Base'
<1>1. /\ Fits(ui) /\ conn \in [Connectors -> ConnectorStates] /\ current \in Connectors
      /\ observer \in [Observers -> ObserverStates] /\ above \in Seq(Tops) /\ Stack(above, thread)
      /\ main \in {"started", "stopped"} /\ pending \in BOOLEAN
  BY BaseParts
<1>2. Fits(Selected(ui, pos)) /\ Selected(ui, pos).list = ui.list
  BY <1>1, SelectedFits
<1>3. setVolumeUI(Selected(ui, pos), above, NewConnector)
  BY DEF onItemSelected, Selected
<1>4. Drawn(Selected(ui, pos), above, NewConnector) \/ Crash(Selected(ui, pos), above)
  BY <1>2, <1>3, NewIsConnector, SetVolume
<1>5. current' \in Connectors
  <2>1. current < MaxConnectors /\ current' = current + 1
    BY DEF onItemSelected
  <2> QED
    BY <1>1, <2>1, ActivitiesAssumption DEF Connectors
<1>6. conn' \in [Connectors -> ConnectorStates] /\ observer' = observer /\ main' = main /\ pending' = pending
        /\ inbox' = q
  BY <1>1, ClosedTypes DEF onItemSelected
<1> QED
  BY <1>1, <1>2, <1>4, <1>5, <1>6, DrawBase DEF Editing

LEMMA StopTypes ==
  ASSUME Base, onStop
  PROVE  /\ conn' \in [Connectors -> ConnectorStates] /\ observer' \in [Observers -> ObserverStates]
         /\ quiet' \in BOOLEAN
<1>1. /\ conn \in [Connectors -> ConnectorStates] /\ observer \in [Observers -> ObserverStates]
      /\ quiet \in BOOLEAN
  BY BaseParts
<1>2. conn' \in [Connectors -> ConnectorStates]
  BY <1>1, ClosedTypes DEF onStop
<1>3. observer' \in [Observers -> ObserverStates]
  <2>1. observer' = [observer EXCEPT ![LastObserver] = Stopped(observer[LastObserver])]
    BY DEF onStop
  <2> HIDE DEF onStop
  <2> QED
    BY <1>1, <2>1, NewStates
<1>4. quiet' \in BOOLEAN
  BY <1>1 DEF onStop
<1> QED
  BY <1>2, <1>3, <1>4

LEMMA UserBase ==
  ASSUME Base, User
  PROVE  Base'
<1>1. /\ Fits(ui) /\ above \in Seq(Tops) /\ Stack(above, thread) /\ inbox \in Seq(Letters)
      /\ pending \in BOOLEAN /\ main \in {"started", "stopped"} /\ crashed \in BOOLEAN
      /\ conn \in [Connectors -> ConnectorStates] /\ current \in Connectors
      /\ thread \in [Threads -> ThreadStates] /\ ItemsIn(inbox, Len(ui.list))
      /\ observer \in [Observers -> ObserverStates] /\ quiet \in BOOLEAN
      /\ Editing => above[1] = Edit /\ main = "stopped" /\ NoItems(inbox)
  BY BaseParts DEF Editing
<1>2. ASSUME NEW pos \in 0..(Len(ui.list) - 1), Select(pos)
      PROVE  Base'
  <2>1. pos \in Nat /\ pos < Len(ui.list)
    BY <1>1, ListLength
  <2>2. ~Editing /\ onItemSelected(pos, inbox)
    BY <1>1, <1>2 DEF Select, InFront
  <2> QED
    BY <1>1, <2>1, <2>2, ItemSelectedBase
<1>3. ASSUME NEW index, index = NoEdit \/ (index = ui.selected /\ ui.list # <<>>), OpenEditor(index)
      PROVE  Base'
  <2>1. ui' = [ui EXCEPT !.edited = index] /\ above' = <<Edit>> /\ main' = "stopped" /\ onStop
          /\ pending' = pending /\ inbox' = inbox /\ current' = current /\ thread' = thread /\ crashed' = crashed
          /\ NoItems(inbox)
    BY <1>3 DEF OpenEditor, InFront, NoItems
  <2>2. Fits(ui') /\ ui'.list = ui.list
    BY <1>1, <1>3, <2>1 DEF Fits, UiFields
  <2>3. <<Edit>> \in Seq(Tops) /\ Len(<<Edit>>) = 1 /\ <<Edit>>[1] = Edit
    BY DEF Tops
  <2>4. Stack(<<Edit>>, thread)
    BY <2>3 DEF Stack
  <2>5. above' \in Seq(Tops) /\ Stack(above', thread') /\ above'[1] = Edit
    BY <2>1, <2>3, <2>4
  <2>6. conn' \in [Connectors -> ConnectorStates] /\ observer' \in [Observers -> ObserverStates] /\ quiet' \in BOOLEAN
    BY <2>1, StopTypes
  <2> QED
    BY <1>1, <2>1, <2>2, <2>5, <2>6 DEF Base, Screens, ItemsInList, Editing, ActivitiesTypeOK, UiFields, ThreadStates,
         ConnectorStates, ObserverStates, Letters, Tops, Fits
<1>4. CASE Home
  <2>1. conn' \in [Connectors -> ConnectorStates] /\ observer' \in [Observers -> ObserverStates] /\ quiet' \in BOOLEAN
    BY <1>4, StopTypes DEF Home
  <2> QED
    BY <1>1, <1>4, <2>1 DEF Home, Base, Screens, ItemsInList, Editing, ActivitiesTypeOK, UiFields, ThreadStates,
         ConnectorStates, ObserverStates, Letters, Tops, Fits
<1>5. CASE Return
  <2>1. ~Edited(above)
    <3>1. DOMAIN above = 1..Len(above)
      BY <1>1
    <3>2. \A i \in 1..Len(above) : above[i] # Edit
      BY <1>5, <3>1 DEF Return, ToSet
    <3> QED
      BY <3>2 DEF Edited
  <2>2. PICK v \in {ui, Connected(ui)} : onStart(v, above)
    BY <1>5 DEF Return
  <2>3. Fits(v) /\ v.list = ui.list
    <3>1. Fits(Connected(ui))
      BY <1>1, FlagsFit
    <3>2. Connected(ui).list = ui.list
      BY <1>1 DEF Connected, Fits, UiFields
    <3> QED
      BY <1>1, <3>1, <3>2
  <2>4. pending' \in BOOLEAN
    BY <1>1, <1>5 DEF Return
  <2> QED
    BY <1>1, <2>1, <2>2, <2>3, <2>4, StartBase
<1>6. CASE BackFromConnecting
  <2>1. above' = Front(above) /\ pending' = TRUE /\ above # <<>> /\ quiet' \in BOOLEAN /\ main = "started"
    BY <1>1, <1>6 DEF BackFromConnecting
  <2> DEFINE n == Len(above)
  <2>2. /\ above' \in Seq(Tops) /\ Len(above') = n - 1 /\ n \in Nat
        /\ \A j \in 1..(n - 1) : above'[j] = above[j]
    BY <1>1, <2>1, FrontLast, LenProperties
  <2>3. /\ \A i, j \in 1..n : above[i] = above[j] => i = j
        /\ \A i \in 1..n : above[i] # Edit /\ thread[above[i]].pc \notin {"none", "done"}
    BY <1>1, <2>1 DEF Stack, Editing, Edited
  <2> HIDE DEF n
  <2>4. \A j \in 1..(n - 1) : j \in 1..n
    BY <2>2
  <2>5. Stack(above', thread) /\ ~Edited(above')
    BY <2>2, <2>3, <2>4 DEF Stack, Edited
  <2> QED
    BY <1>1, <1>6, <2>1, <2>2, <2>5 DEF BackFromConnecting, Base, Screens, ItemsInList, Editing, ActivitiesTypeOK,
         UiFields, ThreadStates, ConnectorStates, ObserverStates, Letters, Tops, Fits
<1>7. CASE \/ \E d \in Desktops, isDefault \in BOOLEAN : EditOk(d, isDefault)
           \/ EditDelete \/ EditCancel \/ EditBack
  BY <1>7, EditorBase
<1>8. (EditSelected => ui.list # <<>> /\ OpenEditor(ui.selected)) /\ (New => OpenEditor(NoEdit))
  BY DEF EditSelected, New
<1> QED
  BY <1>2, <1>3, <1>4, <1>5, <1>6, <1>7, <1>8 DEF User

LEMMA MessageBase ==
  ASSUME Base, DeliverResult \/ handleMessage
  PROVE  Base'
<1>1. /\ Fits(ui) /\ above \in Seq(Tops) /\ Stack(above, thread) /\ inbox \in Seq(Letters)
      /\ pending \in BOOLEAN /\ main \in {"started", "stopped"} /\ crashed \in BOOLEAN
      /\ conn \in [Connectors -> ConnectorStates] /\ current \in Connectors
      /\ thread \in [Threads -> ThreadStates] /\ ItemsIn(inbox, Len(ui.list))
      /\ observer \in [Observers -> ObserverStates] /\ quiet \in BOOLEAN
      /\ Edited(above) => above[1] = Edit /\ main = "stopped" /\ NoItems(inbox)
  BY BaseParts
<1>2. CASE DeliverResult
  <2>1. Fits(Connected(ui)) /\ Connected(ui).list = ui.list
    BY <1>1, FlagsFit DEF Connected, Fits, UiFields
  <2> QED
    BY <1>1, <1>2, <2>1 DEF DeliverResult, Base, Screens, ItemsInList, Editing, ActivitiesTypeOK,
         UiFields, ThreadStates, ConnectorStates, ObserverStates, Letters, Tops, Fits
<1>3. ASSUME inbox # <<>>
      PROVE  /\ Tail(inbox) \in Seq(Letters) /\ ItemsIn(Tail(inbox), Len(ui.list))
             /\ NoItems(inbox) => NoItems(Tail(inbox)) /\ Head(inbox)[1] # "item"
             /\ Head(inbox)[1] = "item" => Head(inbox)[2] \in Nat /\ Head(inbox)[2] < Len(ui.list)
  BY <1>1, <1>3, ListLength, Messages
<1>4. CASE /\ inbox # <<>> /\ setVolumeUI(ui, above, conn[current]) /\ inbox' = Tail(inbox)
           /\ UNCHANGED <<main, pending, conn, current, observer>>
  <2>1. Drawn(ui, above, conn[current]) \/ Crash(ui, above)
    BY <1>1, <1>4, SetVolume
  <2> QED
    BY <1>1, <1>3, <1>4, <2>1, DrawBase
<1>5. CASE inbox # <<>> /\ Head(inbox)[1] = "item" /\ onItemSelected(Head(inbox)[2], Tail(inbox))
  BY <1>1, <1>3, <1>5, ItemSelectedBase DEF Editing
<1>6. CASE /\ inbox # <<>> /\ inbox' = Tail(inbox)
           /\ UNCHANGED <<main, above, pending, ui, conn, current, thread, observer, crashed, quiet>>
  BY <1>1, <1>3, <1>6 DEF Base, Screens, ItemsInList, Editing, ActivitiesTypeOK,
       UiFields, ThreadStates, ConnectorStates, ObserverStates, Letters, Tops, Fits
<1> QED
  BY <1>2, <1>4, <1>5, <1>6 DEF handleMessage

LEMMA ObserverBase ==
  ASSUME Base, NEW o \in Observers, ObserverStep(o)
  PROVE  Base'
<1>1. /\ Fits(ui) /\ above \in Seq(Tops) /\ Stack(above, thread) /\ inbox \in Seq(Letters)
      /\ pending \in BOOLEAN /\ main \in {"started", "stopped"} /\ crashed \in BOOLEAN
      /\ conn \in [Connectors -> ConnectorStates] /\ current \in Connectors
      /\ thread \in [Threads -> ThreadStates] /\ ItemsIn(inbox, Len(ui.list))
      /\ observer \in [Observers -> ObserverStates] /\ quiet \in BOOLEAN
      /\ Edited(above) => above[1] = Edit /\ main = "stopped" /\ NoItems(inbox)
  BY BaseParts
<1>2. ASSUME Fits(ui'), ui'.list = ui.list, inbox' \in Seq(Letters), ItemsIn(inbox', Len(ui.list)),
             NoItems(inbox) => NoItems(inbox'), observer' \in [Observers -> ObserverStates], ObserverUnchanged
      PROVE  Base'
  BY <1>1, <1>2 DEF ObserverUnchanged, Base, Screens, ItemsInList, Editing, ActivitiesTypeOK,
       UiFields, ThreadStates, ConnectorStates, ObserverStates, Letters, Tops, Fits
<1>3. CASE BeginObserving(o) \/ Poll(o)
  <2>1. observer' = [observer EXCEPT ![o] = [pc |-> "polling", stop |-> FALSE]]
          \/ observer' = [observer EXCEPT ![o] = [observer[o] EXCEPT !.pc = "acting"]]
    BY <1>3 DEF BeginObserving, Poll
  <2>2. [pc |-> "polling", stop |-> FALSE] \in ObserverStates /\ [observer[o] EXCEPT !.pc = "acting"] \in ObserverStates
    BY <1>1 DEF ObserverStates
  <2>3. observer' \in [Observers -> ObserverStates]
    BY <1>1, <2>1, <2>2
  <2> QED
    BY <1>1, <1>2, <1>3, <2>3 DEF BeginObserving, Poll
<1>4. CASE Post(o)
  <2>1. observer' \in [Observers -> ObserverStates]
    <3>1. observer' = [observer EXCEPT ![o] = [observer[o] EXCEPT !.pc = IF observer[o].stop THEN "ended" ELSE "polling"]]
      BY <1>4 DEF Post
    <3>2. [observer[o] EXCEPT !.pc = IF observer[o].stop THEN "ended" ELSE "polling"] \in ObserverStates
      BY <1>1 DEF ObserverStates
    <3> QED
      BY <1>1, <3>1, <3>2
  <2>2. Fits(ui') /\ ui'.list = ui.list
    BY <1>1, <1>4, FlagsFit DEF Post, Fits, UiFields
  <2>3. inbox' \in Seq(Letters) /\ ItemsIn(inbox', Len(ui.list)) /\ (NoItems(inbox) => NoItems(inbox'))
    BY <1>1, <1>4, ListLength, Messages DEF Post
  <2> QED
    BY <1>2, <1>4, <2>1, <2>2, <2>3 DEF Post
<1> QED
  BY <1>3, <1>4 DEF ObserverStep

\* finish() takes the animation of its thread, and no other, from the top of the main activity.
LEMMA Finished ==
  ASSUME Base, NEW t \in Threads, Finish(t)
  PROVE  /\ thread' \in [Threads -> ThreadStates] /\ above' \in Seq(Tops) /\ pending' \in BOOLEAN
         /\ thread'[t].pc = "done" /\ \A s \in Threads : s # t => thread'[s] = thread[s]
         /\ Stack(above', thread')
         /\ Edited(above') => Edited(above) /\ above'[1] = above[1]
<1> DEFINE n == Len(above)
<1>1. /\ above \in Seq(Tops) /\ thread \in [Threads -> ThreadStates] /\ pending \in BOOLEAN /\ n \in Nat
      /\ \A i, j \in 1..n : above[i] = above[j] => i = j
      /\ \A i \in 1..n : above[i] # Edit => thread[above[i]].pc \notin {"none", "done"}
      /\ \A i \in 1..n : above[i] # Edit => above[i] \in Threads
      /\ (\E i \in 1..n : above[i] = Edit) => above[1] = Edit
  BY BaseParts, ElementOfSeq, LenProperties DEF Stack, Edited, Tops
<1>2. thread' = [thread EXCEPT ![t] = [NoThread EXCEPT !.pc = "done"]]
  BY DEF Finish
<1>3. /\ thread' \in [Threads -> ThreadStates] /\ thread'[t].pc = "done"
      /\ \A s \in Threads : s # t => thread'[s] = thread[s]
  <2>1. [NoThread EXCEPT !.pc = "done"] \in ThreadStates /\ [NoThread EXCEPT !.pc = "done"].pc = "done"
    BY NewStates DEF NoThread
  <2> QED
    BY <1>1, <1>2, <2>1
<1>4. t # Edit /\ DOMAIN above = 1..n
  BY <1>1 DEF Threads, Edit
<1>5. CASE t \notin ToSet(above) /\ UNCHANGED <<above, pending>>
  <2>1. \A i \in 1..n : above[i] # t
    BY <1>4, <1>5 DEF ToSet
  <2>2. \A i \in 1..n : above[i] # Edit => thread'[above[i]].pc \notin {"none", "done"}
    BY <1>1, <1>3, <2>1
  <2> QED
    BY <1>1, <1>3, <1>5, <2>2 DEF Stack
<1>6. CASE \E i \in DOMAIN above : above[i] = t /\ above' = RemoveAt(above, i) /\ pending' = TRUE
  <2>1. PICK i \in 1..n : above[i] = t /\ above' = RemoveAt(above, i)
    BY <1>4, <1>6
  <2> DEFINE Old(j) == IF j < i THEN j ELSE j + 1
             m == Len(above')
  <2>2. /\ above' \in Seq(Tops) /\ m = n - 1
        /\ \A j \in 1..(n - 1) : above'[j] = IF j < i THEN above[j] ELSE above[j + 1]
    BY <1>1, <2>1, Removed
  <2> HIDE DEF n, m
  <2>3. \A j \in 1..m : above'[j] = above[Old(j)] /\ Old(j) \in 1..n /\ Old(j) # i
    BY <1>1, <2>1, <2>2
  <2>4. \A j, k \in 1..m : Old(j) = Old(k) => j = k
    BY <1>1, <2>1, <2>2
  <2> HIDE DEF Old
  <2>5. \A j \in 1..m : above'[j] # t
    BY <1>1, <2>1, <2>3
  <2>6. \A j, k \in 1..m : above'[j] = above'[k] => j = k
    BY <1>1, <2>3, <2>4
  <2>7. \A j \in 1..m : above'[j] # Edit => thread'[above'[j]].pc \notin {"none", "done"}
    BY <1>1, <1>3, <2>3, <2>5
  <2>8. ASSUME NEW j \in 1..m, above'[j] = Edit
        PROVE  Edited(above) /\ above'[1] = above[1]
    <3>1. Edited(above) /\ above[1] = Edit
      BY <1>1, <2>3, <2>8 DEF Edited, n
    <3>2. i # 1
      BY <1>4, <2>1, <3>1
    <3>3. 1 \in 1..(n - 1) /\ 1 < i
      BY <1>1, <2>1, <2>2, <3>2
    <3> QED
      BY <2>2, <3>1, <3>3
  <2> QED
    BY <1>3, <1>6, <2>2, <2>6, <2>7, <2>8 DEF Stack, Edited, m
<1> QED
  BY <1>5, <1>6 DEF Finish

\* A step of a connecting thread changes its own state and that of the connectors.
LEMMA ThreadBase ==
  ASSUME Base, ThreadUnchanged, conn' \in [Connectors -> ConnectorStates],
         thread' \in [Threads -> ThreadStates], above' \in Seq(Tops), pending' \in BOOLEAN,
         Stack(above', thread'), Edited(above') => Edited(above) /\ above'[1] = above[1]
  PROVE  Base'
<1>1. /\ Fits(ui) /\ inbox \in Seq(Letters)
      /\ main \in {"started", "stopped"} /\ crashed \in BOOLEAN
      /\ current \in Connectors /\ ItemsIn(inbox, Len(ui.list))
      /\ observer \in [Observers -> ObserverStates] /\ quiet \in BOOLEAN
      /\ Edited(above) => above[1] = Edit /\ main = "stopped" /\ NoItems(inbox)
  BY BaseParts
<1> QED
  BY <1>1 DEF ThreadUnchanged, Base, Screens, ItemsInList, Editing, ActivitiesTypeOK,
       UiFields, ThreadStates, ConnectorStates, ObserverStates, Letters, Tops, Fits

\* One thread goes on to r and no activity goes.
LEMMA GoesOn ==
  ASSUME Base, NEW t \in Threads, NEW r \in ThreadStates, r.pc \notin {"none", "done"},
         thread' = [thread EXCEPT ![t] = r], UNCHANGED <<above, pending>>
  PROVE  /\ thread' \in [Threads -> ThreadStates] /\ above' \in Seq(Tops) /\ pending' \in BOOLEAN
         /\ thread'[t] = r /\ \A s \in Threads : s # t => thread'[s] = thread[s]
         /\ Stack(above', thread')
         /\ Edited(above') => Edited(above) /\ above'[1] = above[1]
<1>1. /\ above \in Seq(Tops) /\ thread \in [Threads -> ThreadStates] /\ pending \in BOOLEAN
      /\ Stack(above, thread)
      /\ \A i \in 1..Len(above) : above[i] # Edit => above[i] \in Threads
  BY BaseParts, ElementOfSeq, LenProperties DEF Tops
<1>2. thread' \in [Threads -> ThreadStates] /\ thread'[t] = r /\ \A s \in Threads : s # t => thread'[s] = thread[s]
  BY <1>1
<1>3. Stack(above, thread')
  BY <1>1, <1>2 DEF Stack
<1> QED
  BY <1>1, <1>2, <1>3

LEMMA ThreadMoves ==
  ASSUME NEW r \in ThreadStates
  PROVE  /\ \A p \in {"hello", "greeted"} : [r EXCEPT !.pc = p] \in ThreadStates
         /\ \A c \in Connectors, p \in {"dial", "answer"} : [r EXCEPT !.pc = p, !.connector = c] \in ThreadStates
BY DEF ThreadStates

LEMMA ConnectorMoves ==
  ASSUME NEW r \in ConnectorStates
  PROVE  /\ \A b \in BOOLEAN : [r EXCEPT !.flag = b] \in ConnectorStates
         /\ \A d \in Desktops \cup {NoDesktop} : [r EXCEPT !.sock = "open", !.peer = d] \in ConnectorStates
         /\ [r EXCEPT !.sock = "failed"] \in ConnectorStates
         /\ [r EXCEPT !.flag = FALSE, !.sock = IF r.sock = "closed" THEN "fresh" ELSE r.sock] \in ConnectorStates
BY DEF ConnectorStates

LEMMA ThreadStepBase ==
  ASSUME Base, NEW t \in Threads, ThreadStep(t)
  PROVE  Base'
<1>1. thread \in [Threads -> ThreadStates] /\ conn \in [Connectors -> ConnectorStates] /\ current \in Connectors
  BY BaseParts
<1> DEFINE r == thread[t]
           c == r.connector
<1>2. r \in ThreadStates /\ r.target \in Desktops \cup {NoDesktop}
  BY <1>1 DEF ThreadStates
<1>3. ASSUME ThreadUnchanged, conn' \in [Connectors -> ConnectorStates], Finish(t)
      PROVE  Base'
  BY <1>3, Finished, ThreadBase
<1>4. ASSUME ThreadUnchanged, conn' \in [Connectors -> ConnectorStates], UNCHANGED <<above, pending>>,
             NEW p \in {"dial", "hello", "answer", "greeted"}, NEW s \in ThreadStates, s.pc = p,
             thread' = [thread EXCEPT ![t] = s]
      PROVE  Base'
  <2>1. s.pc \notin {"none", "done"}
    BY <1>4
  <2> QED
    BY <1>4, <2>1, GoesOn, ThreadBase
<1>5. CASE Reach(t)
  <2>1. CASE /\ thread' = [thread EXCEPT ![t].pc = "dial", ![t].connector = current]
             /\ conn' = [conn EXCEPT ![current].flag = FALSE, ![current].sock = IF @ = "closed" THEN "fresh" ELSE @]
             /\ UNCHANGED <<above, pending>>
    <3>1. thread' = [thread EXCEPT ![t] = [r EXCEPT !.pc = "dial", !.connector = current]]
      BY <1>1, <2>1
    <3>2. conn' = [conn EXCEPT ![current] =
                     [conn[current] EXCEPT !.flag = FALSE,
                                           !.sock = IF conn[current].sock = "closed" THEN "fresh" ELSE conn[current].sock]]
      BY <1>1, <2>1
    <3>3. conn' \in [Connectors -> ConnectorStates]
      BY <1>1, <3>2, ConnectorMoves
    <3>4. /\ [r EXCEPT !.pc = "dial", !.connector = current] \in ThreadStates
          /\ [r EXCEPT !.pc = "dial", !.connector = current].pc = "dial"
      BY <1>1, <1>2, ThreadMoves DEF ThreadStates
    <3> QED
      BY <1>4, <1>5, <2>1, <3>1, <3>3, <3>4 DEF Reach
  <2>2. CASE Finish(t) /\ UNCHANGED conn
    BY <1>1, <1>3, <1>5, <2>2 DEF Reach
  <2> QED
    BY <1>5, <2>1, <2>2 DEF Reach
<1>6. CASE ConnectEnds(t)
  <2>1. CASE /\ conn' = [conn EXCEPT ![c].sock = "open", ![c].peer = r.target]
             /\ Goto(t, "hello") /\ UNCHANGED <<above, pending>>
    <3>1. conn' \in [Connectors -> ConnectorStates]
      <4>1. CASE c \in Connectors
        <5>1. conn' = [conn EXCEPT ![c] = [conn[c] EXCEPT !.sock = "open", !.peer = r.target]]
          BY <1>1, <2>1, <4>1
        <5>2. [conn[c] EXCEPT !.sock = "open", !.peer = r.target] \in ConnectorStates
          BY <1>1, <1>2, <4>1, ConnectorMoves
        <5> QED
          BY <1>1, <5>1, <5>2
      <4>2. CASE c \notin Connectors
        BY <1>1, <2>1, <4>2
      <4> QED
        BY <4>1, <4>2
    <3>2. thread' = [thread EXCEPT ![t] = [r EXCEPT !.pc = "hello"]]
      BY <2>1 DEF Goto
    <3>3. [r EXCEPT !.pc = "hello"] \in ThreadStates /\ [r EXCEPT !.pc = "hello"].pc = "hello"
      BY <1>2, ThreadMoves DEF ThreadStates
    <3> QED
      BY <1>4, <1>6, <2>1, <3>1, <3>2, <3>3 DEF ConnectEnds
  <2>2. CASE conn' = [conn EXCEPT ![c].sock = "failed"] /\ Finish(t)
    <3>1. conn' \in [Connectors -> ConnectorStates]
      BY <1>1, <2>2, ConnectorMoves
    <3> QED
      BY <1>3, <1>6, <2>2, <3>1 DEF ConnectEnds
  <2>3. CASE UNCHANGED conn /\ Finish(t)
    BY <1>1, <1>3, <1>6, <2>3 DEF ConnectEnds
  <2> QED
    BY <1>6, <2>1, <2>2, <2>3 DEF ConnectEnds
<1>7. CASE SendHello(t)
  <2>1. conn' \in [Connectors -> ConnectorStates]
    BY <1>1, <1>7, ConnectorMoves DEF SendHello
  <2>2. CASE /\ thread' = [thread EXCEPT ![t].pc = "answer", ![t].connector = current]
             /\ UNCHANGED <<above, pending>>
    <3>1. thread' = [thread EXCEPT ![t] = [r EXCEPT !.pc = "answer", !.connector = current]]
      BY <1>1, <2>2
    <3>2. /\ [r EXCEPT !.pc = "answer", !.connector = current] \in ThreadStates
          /\ [r EXCEPT !.pc = "answer", !.connector = current].pc = "answer"
      BY <1>1, <1>2, ThreadMoves DEF ThreadStates
    <3> QED
      BY <1>4, <1>7, <2>1, <2>2, <3>1, <3>2 DEF SendHello
  <2> QED
    BY <1>3, <1>7, <2>1, <2>2 DEF SendHello
<1>8. CASE ReceiveHello(t)
  <2>1. conn' \in [Connectors -> ConnectorStates] /\ ThreadUnchanged
    BY <1>1, <1>8 DEF ReceiveHello
  <2>2. CASE Goto(t, "greeted") /\ UNCHANGED <<above, pending>>
    <3>1. thread' = [thread EXCEPT ![t] = [r EXCEPT !.pc = "greeted"]]
      BY <2>2 DEF Goto
    <3>2. [r EXCEPT !.pc = "greeted"] \in ThreadStates /\ [r EXCEPT !.pc = "greeted"].pc = "greeted"
      BY <1>2, ThreadMoves DEF ThreadStates
    <3> QED
      BY <1>4, <2>1, <2>2, <3>1, <3>2
  <2> QED
    BY <1>3, <1>8, <2>1, <2>2 DEF ReceiveHello
<1>9. CASE SetConnected(t)
  <2>1. conn' \in [Connectors -> ConnectorStates]
    BY <1>1, <1>9, ConnectorMoves DEF SetConnected
  <2> QED
    BY <1>3, <1>9, <2>1 DEF SetConnected
<1> QED
  BY <1>5, <1>6, <1>7, <1>8, <1>9 DEF ThreadStep

LEMMA InitBase ==
  ASSUME Init
  PROVE  Base
<1>1. PICK list \in SavedLists :
        ui = [list |-> list, selected |-> 0, edited |-> NoEdit, hostChecked |-> FALSE,
              redrawVol |-> FALSE, enabled |-> FALSE]
  BY DEF Init
<1>2. list \in Seq(Desktops) /\ list # <<>> /\ Len(list) > 0
  <2>1. list \in Seq(Desktops) /\ list # <<>>
    BY ActivitiesAssumption
  <2> QED
    BY <2>1, EmptySeq, LenProperties
<1>3. ui \in UiFields
  BY <1>1, <1>2 DEF UiFields
<1>4. Fits(ui) /\ ui.list # <<>>
  BY <1>1, <1>2, <1>3 DEF Fits
<1>5. Target(ui) \in Desktops
  BY <1>4, TargetIsDesktop
<1>6. 1 \in Threads /\ 1 \in Connectors /\ 1 # Edit
  BY ActivitiesAssumption DEF Threads, Connectors, Edit
<1>7. conn \in [Connectors -> ConnectorStates] /\ current \in Connectors
  BY <1>6, NewIsConnector DEF Init, Kept
<1>8. thread \in [Threads -> ThreadStates] /\ thread[1].pc = "reach"
  <2>1. [pc |-> "reach", target |-> Target(ui), connector |-> Nobody] \in ThreadStates /\ NoThread \in ThreadStates
    BY <1>5 DEF ThreadStates, NoThread
  <2> QED
    BY <1>6, <2>1 DEF Init
<1>9. observer \in [Observers -> ObserverStates]
  BY DEF Init, ObserverStates
<1>10. above = <<1>> /\ above \in Seq(Tops) /\ Len(above) = 1 /\ above[1] = 1
  BY <1>6 DEF Init, Tops
<1>11. Stack(above, thread) /\ ~Edited(above)
  BY <1>6, <1>8, <1>10 DEF Stack, Edited
<1>12. inbox \in Seq(Letters) /\ ItemsIn(inbox, Len(ui.list))
  BY EmptySeq DEF Init, ItemsIn
<1> QED
  BY <1>4, <1>7, <1>8, <1>9, <1>10, <1>11, <1>12, BaseParts DEF Init

LEMMA NextBase ==
  ASSUME Base, [Next]_vars
  PROVE  Base'
<1>1. CASE Next
  BY <1>1, UserBase, MessageBase, ObserverBase, ThreadStepBase DEF Next
<1>2. CASE UNCHANGED vars
  BY <1>2 DEF vars, Base, Screens, ItemsInList, Editing, ActivitiesTypeOK, Stack, Edited
<1> QED
  BY <1>1, <1>2

LEMMA BaseHolds == Spec => []Base
<1> QED
  BY InitBase, NextBase, PTL DEF Spec

\* The state is always of its type: in particular the selected and the edited position lie
\* within the list, whatever the editor has taken from it and whichever message comes late.
THEOREM ActivitiesTypeCorrect == Spec => []ActivitiesTypeOK
<1>1. Base => ActivitiesTypeOK
  BY DEF Base
<1> QED
  BY <1>1, BaseHolds, PTL

-----------------------------------------------------------------------------
(* What holds until a connecting thread or the drawing of the volume is disturbed: every step *)

LEMMA DrawQuiet ==
  ASSUME Base, ~crashed, quiet', NEW u, Fits(u), NEW ab \in Seq(Tops), Stack(ab, thread), ~Edited(ab),
         NEW c, conn'[current'] = c, Drawn(u, ab, c), ConnectorsInOrder',
         u.list # <<>> /\ u.hostChecked /\ c.sock = "open" => c.peer = Target(u),
         u.list # <<>> /\ u.hostChecked => \A t \in Threads : Alive(t) => Touches(thread[t], u, current', c),
         u.list = <<>> => ~SomeAlive /\ ~Drawing' /\ ~pending'
  PROVE  Undisturbed'
<1>1. thread \in [Threads -> ThreadStates] /\ quiet \in BOOLEAN /\ crashed \in BOOLEAN
  BY BaseParts
<1>2. ui'.list = u.list /\ ui'.selected = u.selected /\ (u.list = <<>> => ~ui'.enabled)
  <2>1. ui'.list = u.list /\ ui'.selected = u.selected
    BY DrawnFields
  <2>2. u.list = <<>> => ~ui'.enabled
    BY DEF Drawn, Fits, UiFields
  <2> QED
    BY <2>1, <2>2
<1>3. ~Editing' /\ ~crashed'
  BY <1>1, DrawnStack DEF Editing, Drawn
<1>4. Target(ui') = Target(u)
  BY <1>2 DEF Target
<1>5. CASE Opened(u, ab, c)
  <2>1. PICK t \in Threads :
          thread' = [thread EXCEPT ![t] = [pc |-> "reach", target |-> Target(u), connector |-> Nobody]]
    BY <1>5 DEF Opened
  <2>2. u.list # <<>> /\ ~SomeAlive /\ c.sock # "open"
    BY <1>5 DEF Opened
  <2>3. \A s \in Threads : Alive(s)' => s = t /\ thread'[s] = [pc |-> "reach", target |-> Target(u), connector |-> Nobody]
    BY <1>1, <2>1, <2>2 DEF SomeAlive, Alive
  <2>4. \A s \in Threads : Alive(s)' => InTouch(s)'
    BY <1>2, <1>4, <2>2, <2>3 DEF InTouch, Touches
  <2> QED
    BY <1>2, <1>3, <2>2, <2>4 DEF Undisturbed
<1>6. CASE (u.hostChecked \/ u.list = <<>>) /\ thread' = thread
  <2>1. (\A s \in Threads : Alive(s)' <=> Alive(s)) /\ (SomeAlive' <=> SomeAlive)
    BY <1>6 DEF Alive, SomeAlive
  <2>2. \A s \in Threads : Alive(s)' => InTouch(s)'
    BY <1>2, <1>4, <1>6, <2>1 DEF InTouch, Touches, SomeAlive
  <2> QED
    BY <1>2, <1>3, <1>4, <1>6, <2>1, <2>2 DEF Undisturbed
<1> QED
  BY <1>5, <1>6 DEF Drawn

\* The messages that ask for the volume.
LEMMA RedrawLetters ==
  ASSUME NEW q \in Seq(Letters)
  PROVE  /\ \A k : <<"redrawVol">> \in ToSet(Append(q, <<"item", k>>)) => <<"redrawVol">> \in ToSet(q)
         /\ q # <<>> => /\ <<"redrawVol">> \in ToSet(Tail(q)) => <<"redrawVol">> \in ToSet(q)
                        /\ Head(q) = <<"redrawVol">> => <<"redrawVol">> \in ToSet(q)
<1> DEFINE m == Len(q)
<1>1. m \in Nat /\ DOMAIN q = 1..m
  BY LenProperties
<1>2. ASSUME NEW k, <<"redrawVol">> \in ToSet(Append(q, <<"item", k>>))
      PROVE  <<"redrawVol">> \in ToSet(q)
  <2>1. /\ Len(Append(q, <<"item", k>>)) = m + 1 /\ DOMAIN Append(q, <<"item", k>>) = 1..(m + 1)
        /\ \A i \in 1..m : Append(q, <<"item", k>>)[i] = q[i]
        /\ Append(q, <<"item", k>>)[m + 1] = <<"item", k>>
    BY <1>1
  <2> HIDE DEF m
  <2>2. PICK i \in 1..(m + 1) : Append(q, <<"item", k>>)[i] = <<"redrawVol">>
    BY <1>2, <2>1 DEF ToSet
  <2>3. i \in 1..m
    BY <1>1, <2>1, <2>2
  <2> QED
    BY <1>1, <2>1, <2>2, <2>3 DEF ToSet
<1>3. ASSUME q # <<>>
      PROVE  /\ <<"redrawVol">> \in ToSet(Tail(q)) => <<"redrawVol">> \in ToSet(q)
             /\ Head(q) = <<"redrawVol">> => <<"redrawVol">> \in ToSet(q)
  <2>1. m > 0 /\ Head(q) = q[1]
    BY <1>1, <1>3, EmptySeq
  <2>2. Tail(q) \in Seq(Letters) /\ Len(Tail(q)) = m - 1 /\ \A i \in 1..(m - 1) : Tail(q)[i] = q[i + 1]
    BY <1>3, HeadTailProperties
  <2>3. DOMAIN Tail(q) = 1..(m - 1)
    BY <2>2, LenProperties
  <2> HIDE DEF m
  <2>4. 1 \in 1..m /\ \A i \in 1..(m - 1) : i + 1 \in 1..m
    BY <1>1, <2>1
  <2> QED
    BY <1>1, <2>1, <2>2, <2>3, <2>4 DEF ToSet
<1> QED
  BY <1>2, <1>3

LEMMA StartQuiet ==
  ASSUME Base, QuietInv, quiet', ~crashed, NEW u, Fits(u), NEW ab \in Seq(Tops), Stack(ab, thread), ~Edited(ab),
         onStart(u, ab),
         quiet => /\ u.list # <<>> /\ u.hostChecked /\ conn[current].sock = "open" => conn[current].peer = Target(u)
                  /\ u.list # <<>> /\ u.hostChecked =>
                       \A t \in Threads : Alive(t) => Touches(thread[t], u, current, conn[current])
                  /\ u.list = <<>> => ~SomeAlive /\ ~Drawing /\ ~u.redrawVol /\ ~pending'
  PROVE  Undisturbed'
<1>1. /\ inbox \in Seq(Letters) /\ conn \in [Connectors -> ConnectorStates] /\ current \in Connectors
      /\ observer \in [Observers -> ObserverStates] /\ quiet \in BOOLEAN
  BY BaseParts
<1>2. conn[current] \in ConnectorStates /\ reDrawUI(u, ab, conn[current], inbox)
  BY <1>1 DEF onStart
<1>3. /\ Drawn(u, ab, conn[current])
      /\ \/ inbox' = inbox
         \/ u.edited # NoEdit /\ u.edited < Len(u.list) /\ inbox' = Append(inbox, <<"item", u.edited>>)
  BY <1>2, Redraw
<1>4. quiet
  BY <1>1, <1>3 DEF Drawn, Opened
<1>5. Undisturbed /\ conn' = conn /\ current' = current
  BY <1>4 DEF QuietInv, onStart
<1>6. ConnectorsInOrder'
  BY <1>5 DEF Undisturbed, ConnectorsInOrder
<1>7. ASSUME u.list = <<>>
      PROVE  ~Drawing'
  <2>1. ~Drawing /\ ~u.redrawVol
    BY <1>4, <1>7
  <2>2. ui'.redrawVol = u.redrawVol
    BY <1>3, DrawnFields
  <2>3. <<"redrawVol">> \in ToSet(inbox') => <<"redrawVol">> \in ToSet(inbox)
    BY <1>1, <1>3, RedrawLetters
  <2>4. \A o \in Observers : observer'[o].pc = "acting" => observer[o].pc = "acting"
    BY <1>1 DEF onStart
  <2> QED
    BY <2>1, <2>2, <2>3, <2>4 DEF Drawing
<1> QED
  BY <1>3, <1>4, <1>5, <1>6, <1>7, DrawQuiet

\* The main activity starts again, after a stop or after the editor.
LEMMA ReturnQuiet ==
  ASSUME Base, QuietInv, Return, quiet'
  PROVE  Undisturbed'
<1>1. Fits(ui) /\ above \in Seq(Tops) /\ Stack(above, thread) /\ pending \in BOOLEAN
  BY BaseParts
<1>2. ~Edited(above)
  <2>1. DOMAIN above = 1..Len(above)
    BY <1>1
  <2> QED
    BY <2>1 DEF Return, ToSet, Edited
<1>3. PICK v \in {ui, Connected(ui)} :
        onStart(v, above) /\ (v # ui => pending) /\ ~crashed /\ pending' = (pending /\ above # <<>>)
  BY DEF Return
<1>4. Fits(v) /\ v.list = ui.list /\ v.selected = ui.selected
  <2>1. Fits(Connected(ui))
    BY <1>1, FlagsFit
  <2>2. Connected(ui).list = ui.list /\ Connected(ui).selected = ui.selected
    BY <1>1 DEF Connected, Fits, UiFields
  <2> QED
    BY <1>1, <2>1, <2>2
<1>5. Target(v) = Target(ui)
  BY <1>4 DEF Target
<1>6. ASSUME quiet
      PROVE  /\ v.list # <<>> /\ conn[current].sock = "open" => conn[current].peer = Target(v)
             /\ \A t \in Threads : Alive(t) => Touches(thread[t], v, current, conn[current])
             /\ v.list = <<>> => ~SomeAlive /\ ~Drawing /\ ~v.redrawVol /\ ~pending'
  <2>1. /\ ui.list # <<>> /\ conn[current].sock = "open" => conn[current].peer = Target(ui)
        /\ \A t \in Threads : Alive(t) => InTouch(t)
        /\ ui.list = <<>> => ~SomeAlive /\ ~Drawing /\ ~pending
    BY <1>6 DEF QuietInv, Undisturbed
  <2>2. \A t \in Threads : Alive(t) => Touches(thread[t], v, current, conn[current])
    BY <1>4, <1>5, <2>1 DEF InTouch, Touches
  <2>3. ui.list = <<>> => v = ui /\ ~v.redrawVol
    BY <1>3, <2>1 DEF Drawing
  <2> QED
    BY <1>3, <1>4, <1>5, <2>1, <2>2, <2>3
<1> QED
  BY <1>1, <1>2, <1>3, <1>4, <1>6, StartQuiet

LEMMA LeaveQuiet ==
  ASSUME Base, QuietInv, NEW u, Fits(u), LeaveEditor(u), quiet',
         u.redrawVol = ui.redrawVol, u.hostChecked => u.list = ui.list /\ u.selected = ui.selected
  PROVE  Undisturbed'
<1>1. Len(above) = 1 /\ Front(above) = <<>> /\ Editing
  BY EditorAlone DEF LeaveEditor
<1>2. pending \in BOOLEAN /\ pending' = FALSE /\ ~crashed
  BY <1>1, BaseParts DEF LeaveEditor
<1>3. quiet => ~SomeAlive /\ ~Drawing /\ ~pending
  BY <1>1 DEF QuietInv, Undisturbed
<1>4. PICK v \in {u, Connected(u)} : onStart(v, <<>>) /\ (v # u => pending)
  BY <1>1 DEF LeaveEditor
<1>5. Fits(v)
  BY <1>4, FlagsFit
<1>6. quiet => v = u
  BY <1>3, <1>4
<1>7. quiet => /\ v.list # <<>> /\ v.hostChecked /\ conn[current].sock = "open" => conn[current].peer = Target(v)
               /\ v.list # <<>> /\ v.hostChecked =>
                    \A t \in Threads : Alive(t) => Touches(thread[t], v, current, conn[current])
               /\ v.list = <<>> => ~SomeAlive /\ ~Drawing /\ ~v.redrawVol /\ ~pending'
  <2> SUFFICES ASSUME quiet
               PROVE  /\ u.list # <<>> /\ u.hostChecked /\ conn[current].sock = "open" => conn[current].peer = Target(u)
                      /\ ~SomeAlive /\ ~Drawing /\ ~u.redrawVol /\ ~pending'
    BY <1>6 DEF SomeAlive
  <2>1. u.hostChecked => Target(u) = Target(ui)
    BY DEF Target
  <2>2. ui.list # <<>> /\ conn[current].sock = "open" => conn[current].peer = Target(ui)
    BY DEF QuietInv, Undisturbed
  <2> QED
    BY <1>2, <1>3, <2>1, <2>2 DEF Drawing
<1> QED
  BY <1>2, <1>4, <1>5, <1>7, NothingAbove, StartQuiet

LEMMA EditorQuiet ==
  ASSUME Base, QuietInv, quiet',
         \/ \E d \in Desktops, isDefault \in BOOLEAN : EditOk(d, isDefault)
         \/ EditDelete \/ EditCancel \/ EditBack
  PROVE  Undisturbed'
<1>1. Fits(ui) /\ ui \in UiFields
  BY BaseParts DEF Fits
<1>2. CASE \E d \in Desktops, isDefault \in BOOLEAN : EditOk(d, isDefault)
  <2>1. PICK d \in Desktops, isDefault \in BOOLEAN : LeaveEditor(EditedOk(ui, d, isDefault))
    BY <1>2 DEF EditOk, EditedOk
  <2>2. EditedOk(ui, d, isDefault).redrawVol = ui.redrawVol /\ ~EditedOk(ui, d, isDefault).hostChecked
    BY <1>1 DEF EditedOk, UiFields
  <2> QED
    BY <1>1, <2>1, <2>2, EditedFits, LeaveQuiet
<1>3. CASE EditDelete
  <2>1. LeaveEditor(Deleted(ui))
    BY <1>3 DEF EditDelete, Deleted
  <2>2. Deleted(ui).redrawVol = ui.redrawVol /\ ~Deleted(ui).hostChecked
    BY <1>1 DEF Deleted, UiFields
  <2> QED
    BY <1>1, <2>1, <2>2, EditedFits, LeaveQuiet
<1>4. CASE EditCancel
  <2> DEFINE u == [ui EXCEPT !.hostChecked = FALSE, !.edited = NoEdit]
  <2>1. u.redrawVol = ui.redrawVol /\ ~u.hostChecked
    BY <1>1 DEF UiFields
  <2>2. Fits(u) /\ LeaveEditor(u)
    BY <1>1, <1>4, EditedFits DEF EditCancel
  <2> HIDE DEF u
  <2> QED
    BY <2>1, <2>2, LeaveQuiet
<1>5. CASE EditBack
  BY <1>1, <1>5, LeaveQuiet DEF EditBack
<1> QED
  BY <1>2, <1>3, <1>4, <1>5

\* Another desktop takes the next connector, which is new.
LEMMA ItemSelectedQuiet ==
  ASSUME Base, QuietInv, quiet', ~crashed, NEW pos \in Nat, pos < Len(ui.list), NEW q, ~Editing,
         onItemSelected(pos, q)
  PROVE  Undisturbed'
<1> DEFINE u == Selected(ui, pos)
<1>1. /\ Fits(ui) /\ conn \in [Connectors -> ConnectorStates] /\ current \in Connectors
      /\ above \in Seq(Tops) /\ Stack(above, thread) /\ quiet \in BOOLEAN
  BY BaseParts
<1>2. Fits(u) /\ u.list = ui.list /\ u.list # <<>> /\ ~u.hostChecked
  <2>1. ui.list # <<>>
    BY <1>1, EmptySeq DEF Fits, UiFields
  <2> QED
    BY <1>1, <2>1, SelectedFits DEF Selected, Fits, UiFields
<1>3. setVolumeUI(u, above, NewConnector)
  BY DEF onItemSelected, Selected
<1> HIDE DEF u
<1>4. Drawn(u, above, NewConnector)
  BY <1>2, <1>3, NewIsConnector, SetVolume DEF Crash
<1>5. quiet /\ Undisturbed
  BY <1>1, <1>4 DEF Drawn, Opened, QuietInv
<1>6. current' = current + 1 /\ current' \in Connectors /\ conn' = closeConnection(current, conn)
  <2>1. current < MaxConnectors /\ current' = current + 1 /\ conn' = closeConnection(current, conn)
    BY DEF onItemSelected
  <2> QED
    BY <1>1, <2>1, ActivitiesAssumption DEF Connectors
<1>7. \A c \in Connectors : conn'[c] = IF c = current THEN [NewConnector EXCEPT !.sock = "closed"] ELSE conn[c]
  BY <1>1, <1>6 DEF closeConnection
<1>8. \A c \in Connectors : /\ c > current + 1 <=> c > current /\ c # current + 1
                            /\ c < current + 1 <=> c < current \/ c = current
                            /\ ~(c = current /\ c > current)
  BY <1>1 DEF Connectors
<1>9. conn'[current'] = NewConnector
  BY <1>1, <1>5, <1>6, <1>7, <1>8 DEF Undisturbed, ConnectorsInOrder, Connectors
<1>10. ConnectorsInOrder'
  BY <1>1, <1>5, <1>6, <1>7, <1>8 DEF Undisturbed, ConnectorsInOrder, NewConnector
<1> QED
  BY <1>1, <1>2, <1>4, <1>9, <1>10, DrawQuiet DEF Editing, NewConnector

\* A stop closes the connector the activity keeps, which is the current one or closed already.
LEMMA StopQuiet ==
  ASSUME Base, QuietInv, quiet', onStop, UNCHANGED <<pending, inbox, current, thread, crashed>>,
         ui'.list = ui.list, ui'.selected = ui.selected, ui'.redrawVol = ui.redrawVol, ui'.enabled = ui.enabled,
         Editing' => Editing \/ ~pending
  PROVE  Undisturbed'
<1>1. /\ conn \in [Connectors -> ConnectorStates] /\ current \in Connectors
      /\ observer \in [Observers -> ObserverStates] /\ quiet \in BOOLEAN
  BY BaseParts
<1>2. quiet /\ ~SomeAlive /\ ~Drawing /\ Undisturbed
  BY DEF onStop, QuietInv
<1>3. 1 \in Connectors /\ \A c \in Connectors : ~(c > 1 /\ c = 1) /\ ~(c < 1) /\ (c = 1 => c = current \/ c < current)
  BY <1>1, ActivitiesAssumption DEF Connectors
<1>4. conn' = [conn EXCEPT ![1] = [NewConnector EXCEPT !.sock = "closed"]]
  BY DEF onStop, closeConnection, Kept
<1>5. \A c \in Connectors : conn'[c] = IF c = 1 THEN [NewConnector EXCEPT !.sock = "closed"] ELSE conn[c]
  BY <1>1, <1>4
<1>6. /\ [NewConnector EXCEPT !.sock = "closed"].sock = "closed"
      /\ [NewConnector EXCEPT !.sock = "closed"].flag = FALSE
  BY DEF NewConnector
<1>7. \A c \in Connectors : c > current => c # 1
  BY <1>1 DEF Connectors
<1>8. ConnectorsInOrder'
  BY <1>2, <1>5, <1>6, <1>7 DEF Undisturbed, ConnectorsInOrder
<1>9. ~SomeAlive' /\ \A t \in Threads : ~Alive(t)'
  BY <1>2 DEF SomeAlive, Alive
<1>10. ~Drawing'
  <2>1. observer' = [observer EXCEPT ![LastObserver] = Stopped(observer[LastObserver])]
    BY DEF onStop
  <2> HIDE DEF onStop
  <2>2. \A o \in Observers : observer'[o].pc = "acting" => observer[o].pc = "acting"
    BY <1>1, <2>1 DEF Stopped
  <2> QED
    BY <1>2, <2>2 DEF Drawing
<1>11. Target(ui') = Target(ui)
  BY DEF Target
<1>12. ui'.list # <<>> /\ conn'[current].sock = "open" => conn'[current].peer = Target(ui)
  BY <1>1, <1>2, <1>5, <1>6 DEF Undisturbed
<1> QED
  BY <1>2, <1>8, <1>9, <1>10, <1>11, <1>12 DEF Undisturbed

LEMMA UserQuiet ==
  ASSUME Base, QuietInv, User, quiet'
  PROVE  Undisturbed'
<1>1. Fits(ui) /\ ui \in UiFields /\ above \in Seq(Tops) /\ inbox \in Seq(Letters) /\ quiet \in BOOLEAN
  BY BaseParts DEF Fits
<1>2. Editing => main = "stopped"
  BY BaseParts DEF Editing
<1>3. ASSUME NEW pos \in 0..(Len(ui.list) - 1), Select(pos)
      PROVE  Undisturbed'
  <2>1. pos \in Nat /\ pos < Len(ui.list)
    BY <1>1, ListLength
  <2>2. ~Editing /\ ~crashed /\ onItemSelected(pos, inbox)
    BY <1>2, <1>3 DEF Select, InFront
  <2> QED
    BY <2>1, <2>2, ItemSelectedQuiet
<1>4. ASSUME NEW index, OpenEditor(index)
      PROVE  Undisturbed'
  <2>1. ~pending /\ onStop /\ UNCHANGED <<pending, inbox, current, thread, crashed>> /\ ui' = [ui EXCEPT !.edited = index]
    BY <1>4 DEF OpenEditor, InFront
  <2>2. ui'.list = ui.list /\ ui'.selected = ui.selected /\ ui'.redrawVol = ui.redrawVol /\ ui'.enabled = ui.enabled
    BY <1>1, <2>1 DEF UiFields
  <2> QED
    BY <2>1, <2>2, StopQuiet
<1>5. CASE Home
  <2>1. onStop /\ UNCHANGED <<above, pending, ui, inbox, current, thread, crashed>>
    BY <1>5 DEF Home
  <2>2. Editing' => Editing
    BY <2>1 DEF Editing, Edited
  <2> QED
    BY <2>1, <2>2, StopQuiet
<1>6. CASE Return
  BY <1>6, ReturnQuiet
<1>7. CASE BackFromConnecting
  <2>1. above # <<>> /\ Last(above) # Edit /\ ~Alive(Last(above))
    BY <1>7 DEF BackFromConnecting
  <2>2. Len(above) \in 1..Len(above) /\ Last(above) = above[Len(above)]
    BY <1>1, <2>1, FrontLast
  <2>3. Stack(above, thread)
    BY BaseParts
  <2> QED
    BY <2>1, <2>2, <2>3 DEF Stack, Alive
<1>8. CASE \/ \E d \in Desktops, isDefault \in BOOLEAN : EditOk(d, isDefault)
           \/ EditDelete \/ EditCancel \/ EditBack
  BY <1>8, EditorQuiet
<1>9. (EditSelected => OpenEditor(ui.selected)) /\ (New => OpenEditor(NoEdit))
  BY DEF EditSelected, New
<1> QED
  BY <1>3, <1>4, <1>5, <1>6, <1>7, <1>8, <1>9 DEF User

\* Nothing is drawn, delivered or connected while the editor is open or the list is empty.
LEMMA MessageQuiet ==
  ASSUME Base, QuietInv, DeliverResult \/ handleMessage, quiet'
  PROVE  Undisturbed'
<1>1. /\ Fits(ui) /\ ui \in UiFields /\ above \in Seq(Tops) /\ Stack(above, thread) /\ inbox \in Seq(Letters)
      /\ quiet \in BOOLEAN /\ conn \in [Connectors -> ConnectorStates] /\ current \in Connectors
      /\ ItemsIn(inbox, Len(ui.list)) /\ (Editing => NoItems(inbox))
  BY BaseParts DEF Fits, Editing
<1>2. CASE DeliverResult
  <2>1. quiet /\ Undisturbed /\ pending /\ ui' = Connected(ui)
          /\ UNCHANGED <<above, inbox, conn, current, thread, observer, crashed>>
    BY <1>2 DEF DeliverResult, QuietInv
  <2>2. ~Editing /\ ui.list # <<>>
    BY <2>1 DEF Undisturbed
  <2>3. ui'.list = ui.list /\ ui'.selected = ui.selected
    BY <1>1, <2>1 DEF Connected, UiFields
  <2>4. Target(ui') = Target(ui)
    BY <2>3 DEF Target
  <2>5. ConnectorsInOrder' /\ ~Editing'
    BY <2>1, <2>2 DEF Undisturbed, ConnectorsInOrder, Editing, Edited
  <2>6. \A t \in Threads : Alive(t)' => InTouch(t)'
    BY <2>1, <2>3, <2>4 DEF Undisturbed, Alive, InTouch, Touches
  <2> QED
    BY <2>1, <2>2, <2>3, <2>4, <2>5, <2>6 DEF Undisturbed
<1>3. ASSUME inbox # <<>>
      PROVE  /\ Head(inbox)[1] = "item" => ~Editing /\ Head(inbox)[2] \in Nat /\ Head(inbox)[2] < Len(ui.list)
             /\ Head(inbox) = <<"redrawVol">> => <<"redrawVol">> \in ToSet(inbox)
             /\ <<"redrawVol">> \in ToSet(Tail(inbox)) => <<"redrawVol">> \in ToSet(inbox)
  <2>1. /\ NoItems(inbox) => Head(inbox)[1] # "item"
        /\ Head(inbox)[1] = "item" => Head(inbox)[2] \in Nat /\ Head(inbox)[2] < Len(ui.list)
    BY <1>1, <1>3, ListLength, Messages
  <2>2. /\ Head(inbox) = <<"redrawVol">> => <<"redrawVol">> \in ToSet(inbox)
        /\ <<"redrawVol">> \in ToSet(Tail(inbox)) => <<"redrawVol">> \in ToSet(inbox)
    BY <1>1, <1>3, RedrawLetters
  <2> QED
    BY <1>1, <2>1, <2>2
<1>4. CASE /\ inbox # <<>> /\ ~crashed /\ Head(inbox) = <<"redrawVol">> /\ setVolumeUI(ui, above, conn[current])
           /\ UNCHANGED <<main, pending, conn, current, observer>>
  <2>1. Drawn(ui, above, conn[current]) \/ Crash(ui, above)
    BY <1>1, <1>4, SetVolume
  <2>2. quiet /\ Undisturbed
    BY <1>1, <2>1 DEF Drawn, Opened, Crash, QuietInv
  <2>3. ~Editing /\ ui.list # <<>>
    BY <1>3, <1>4, <2>2 DEF Undisturbed, Drawing
  <2>4. Drawn(ui, above, conn[current])
    BY <2>1, <2>3 DEF Crash
  <2>5. ConnectorsInOrder' /\ conn'[current] = conn[current] /\ current' = current
    BY <1>4, <2>2 DEF Undisturbed, ConnectorsInOrder
  <2>6. \A t \in Threads : Alive(t) => Touches(thread[t], ui, current', conn[current])
    BY <2>2, <2>5 DEF Undisturbed, InTouch
  <2>7. ui.list # <<>> /\ conn[current].sock = "open" => conn[current].peer = Target(ui)
    BY <2>2 DEF Undisturbed
  <2> QED
    BY <1>1, <1>4, <2>3, <2>4, <2>5, <2>6, <2>7, DrawQuiet DEF Editing
<1>5. CASE inbox # <<>> /\ ~crashed /\ Head(inbox)[1] = "item" /\ onItemSelected(Head(inbox)[2], Tail(inbox))
  BY <1>3, <1>5, ItemSelectedQuiet
<1>6. CASE /\ inbox # <<>> /\ inbox' = Tail(inbox)
           /\ UNCHANGED <<main, above, pending, ui, conn, current, thread, observer, crashed, quiet>>
  <2>1. quiet /\ Undisturbed
    BY <1>6 DEF QuietInv
  <2>2. Drawing' => Drawing
    BY <1>3, <1>6 DEF Drawing
  <2>3. (SomeAlive' <=> SomeAlive) /\ (Editing' <=> Editing) /\ ConnectorsInOrder'
    BY <1>6, <2>1 DEF SomeAlive, Alive, Editing, Edited, Undisturbed, ConnectorsInOrder
  <2>4. \A t \in Threads : Alive(t)' => InTouch(t)'
    BY <1>6, <2>1 DEF Undisturbed, Alive, InTouch
  <2> QED
    BY <1>6, <2>1, <2>2, <2>3, <2>4 DEF Undisturbed
<1>7. handleMessage => inbox # <<>> /\ ~crashed
  BY DEF handleMessage
<1> QED
  BY <1>2, <1>4, <1>5, <1>6, <1>7 DEF handleMessage

LEMMA ObserverQuiet ==
  ASSUME Base, QuietInv, NEW o \in Observers, ObserverStep(o), quiet'
  PROVE  Undisturbed'
<1>1. Fits(ui) /\ ui \in UiFields /\ observer \in [Observers -> ObserverStates]
  BY BaseParts DEF Fits
<1>2. UNCHANGED <<above, pending, conn, current, thread, crashed, quiet>>
  BY DEF ObserverStep, BeginObserving, Poll, Post, ObserverUnchanged
<1>3. quiet /\ Undisturbed
  BY <1>2 DEF QuietInv
<1>4. ui'.list = ui.list /\ ui'.selected = ui.selected /\ ui'.enabled = ui.enabled
  BY <1>1 DEF ObserverStep, BeginObserving, Poll, Post, UiFields
<1>5. Target(ui') = Target(ui)
  BY <1>4 DEF Target
<1>6. (SomeAlive' <=> SomeAlive) /\ (Editing' <=> Editing) /\ ConnectorsInOrder'
  BY <1>2, <1>3 DEF SomeAlive, Alive, Editing, Edited, Undisturbed, ConnectorsInOrder
<1>7. \A t \in Threads : Alive(t)' => InTouch(t)'
  BY <1>2, <1>3, <1>4, <1>5 DEF Undisturbed, Alive, InTouch, Touches
<1>8. Drawing' => Drawing
  <2>1. CASE BeginObserving(o)
    <3>1. \A p \in Observers : observer'[p].pc = "acting" => observer[p].pc = "acting"
      BY <1>1, <2>1 DEF BeginObserving
    <3> QED
      BY <2>1, <3>1 DEF BeginObserving, Drawing
  <2>2. CASE Poll(o)
    BY <2>2 DEF Poll, Drawing
  <2>3. CASE Post(o)
    BY <2>3 DEF Post, Drawing
  <2> QED
    BY <2>1, <2>2, <2>3 DEF ObserverStep
<1> QED
  BY <1>2, <1>3, <1>4, <1>5, <1>6, <1>7, <1>8 DEF Undisturbed

\* A connecting thread that is in touch changes only the current connector, to the state x.
LEMMA TouchQuiet ==
  ASSUME Base, Undisturbed, NEW t \in Threads, Alive(t), ThreadUnchanged, Edited(above') => Edited(above),
         NEW x, conn' = [conn EXCEPT ![current] = x],
         x.flag => x.sock = "open", x.sock = "open" => x.peer = Target(ui),
         conn[current].sock = "open" => x.sock = "open",
         thread'[t].pc # "done" => Touches(thread'[t], ui, current, x),
         \A s \in Threads : s # t => thread'[s] = thread[s]
  PROVE  Undisturbed'
<1>1. conn \in [Connectors -> ConnectorStates] /\ current \in Connectors
  BY BaseParts
<1>2. InTouch(t) /\ SomeAlive
  BY DEF Undisturbed, SomeAlive
<1>3. ~Editing /\ ~Editing' /\ ui.list # <<>>
  BY <1>2 DEF Undisturbed, Editing
<1>4. UNCHANGED <<ui, current, crashed>>
  BY DEF ThreadUnchanged
<1>5. conn'[current] = x /\ \A c \in Connectors : c # current => conn'[c] = conn[c]
  BY <1>1
<1>6. ConnectorsInOrder'
  <2>1. ~(current < current) /\ ~(current > current)
    BY <1>1 DEF Connectors
  <2> QED
    BY <1>4, <1>5, <2>1 DEF Undisturbed, ConnectorsInOrder
<1>7. \A s \in Threads : Alive(s)' => InTouch(s)'
  <2>1. Alive(t)' => InTouch(t)'
    BY <1>4, <1>5 DEF Alive, InTouch
  <2>2. \A s \in Threads : s # t /\ Alive(s)' => InTouch(s)'
    BY <1>4, <1>5 DEF Undisturbed, Alive, InTouch, Touches
  <2> QED
    BY <2>1, <2>2
<1> QED
  BY <1>3, <1>4, <1>5, <1>6, <1>7 DEF Undisturbed

LEMMA ThreadQuiet ==
  ASSUME Base, QuietInv, NEW t \in Threads, ThreadStep(t), quiet'
  PROVE  Undisturbed'
<1> DEFINE r == thread[t]
           k == conn[current]
<1>1. /\ thread \in [Threads -> ThreadStates] /\ conn \in [Connectors -> ConnectorStates] /\ current \in Connectors
      /\ r \in ThreadStates /\ k \in ConnectorStates
  BY BaseParts
<1>2. ThreadUnchanged /\ Alive(t)
  BY DEF ThreadStep, Reach, ConnectEnds, SendHello, ReceiveHello, SetConnected, Alive
<1>3. Undisturbed /\ InTouch(t)
  BY <1>2 DEF ThreadUnchanged, QuietInv, Undisturbed
<1>4. /\ ui.list # <<>> /\ r.target = Target(ui)
      /\ r.pc \in {"dial", "answer", "greeted"} => r.connector = current
      /\ r.pc \in {"answer", "greeted"} => k.sock = "open"
      /\ k.flag => k.sock = "open"
      /\ k.sock = "open" => k.peer = Target(ui)
  BY <1>1, <1>3 DEF Undisturbed, ConnectorsInOrder, InTouch, Touches
<1>5. ASSUME NEW x, conn' = [conn EXCEPT ![current] = x],
             x.flag => x.sock = "open", x.sock = "open" => x.peer = Target(ui), k.sock = "open" => x.sock = "open",
             Finish(t)
      PROVE  Undisturbed'
  <2>1. /\ thread'[t].pc = "done" /\ (Edited(above') => Edited(above))
        /\ \A s \in Threads : s # t => thread'[s] = thread[s]
    BY <1>5, Finished
  <2> QED
    BY <1>2, <1>3, <1>5, <2>1, TouchQuiet
<1>6. ASSUME NEW x, conn' = [conn EXCEPT ![current] = x],
             x.flag => x.sock = "open", x.sock = "open" => x.peer = Target(ui), k.sock = "open" => x.sock = "open",
             NEW s \in ThreadStates, s.pc \notin {"none", "done"}, Touches(s, ui, current, x),
             thread' = [thread EXCEPT ![t] = s], UNCHANGED <<above, pending>>
      PROVE  Undisturbed'
  <2>1. /\ thread'[t] = s /\ (Edited(above') => Edited(above))
        /\ \A w \in Threads : w # t => thread'[w] = thread[w]
    BY <1>6, GoesOn
  <2> QED
    BY <1>2, <1>3, <1>6, <2>1, TouchQuiet
<1>7. conn = [conn EXCEPT ![current] = k]
  BY <1>1
<1>8. CASE Reach(t)
  <2>1. CASE /\ thread' = [thread EXCEPT ![t].pc = "dial", ![t].connector = current]
             /\ conn' = [conn EXCEPT ![current].flag = FALSE, ![current].sock = IF @ = "closed" THEN "fresh" ELSE @]
             /\ UNCHANGED <<above, pending>>
    <3> DEFINE s == [r EXCEPT !.pc = "dial", !.connector = current]
               x == [k EXCEPT !.flag = FALSE, !.sock = IF k.sock = "closed" THEN "fresh" ELSE k.sock]
    <3>1. thread' = [thread EXCEPT ![t] = s] /\ conn' = [conn EXCEPT ![current] = x]
      BY <1>1, <2>1
    <3>2. s \in ThreadStates /\ s.pc = "dial" /\ s.connector = current /\ s.target = r.target
      BY <1>1 DEF ThreadStates
    <3>3. x.flag = FALSE /\ (x.sock = "open" <=> k.sock = "open") /\ x.peer = k.peer
      BY <1>1 DEF ConnectorStates
    <3> HIDE DEF s, x
    <3>4. s.pc \notin {"none", "done"} /\ Touches(s, ui, current, x)
      BY <1>4, <3>2 DEF Touches
    <3> QED
      BY <1>4, <1>6, <2>1, <3>1, <3>2, <3>3, <3>4
  <2>2. CASE Finish(t) /\ UNCHANGED conn
    BY <1>4, <1>5, <1>7, <2>2
  <2> QED
    BY <1>8, <2>1, <2>2 DEF Reach
<1>9. CASE ConnectEnds(t)
  <2>1. r.pc = "dial" /\ r.connector = current
    BY <1>4, <1>9 DEF ConnectEnds
  <2>2. CASE /\ k.sock = "fresh" /\ conn' = [conn EXCEPT ![current].sock = "open", ![current].peer = r.target]
             /\ Goto(t, "hello") /\ UNCHANGED <<above, pending>>
    <3> DEFINE s == [r EXCEPT !.pc = "hello"]
               x == [k EXCEPT !.sock = "open", !.peer = r.target]
    <3>1. thread' = [thread EXCEPT ![t] = s] /\ conn' = [conn EXCEPT ![current] = x]
      BY <1>1, <2>2 DEF Goto
    <3>2. s \in ThreadStates /\ s.pc = "hello" /\ s.target = r.target
      BY <1>1 DEF ThreadStates
    <3>3. x.sock = "open" /\ x.peer = r.target
      BY <1>1 DEF ConnectorStates
    <3> HIDE DEF s, x
    <3>4. s.pc \notin {"none", "done"} /\ Touches(s, ui, current, x)
      BY <1>4, <3>2 DEF Touches
    <3> QED
      BY <1>4, <1>6, <2>2, <3>1, <3>2, <3>3, <3>4
  <2>3. CASE k.sock = "fresh" /\ conn' = [conn EXCEPT ![current].sock = "failed"] /\ Finish(t)
    <3> DEFINE x == [k EXCEPT !.sock = "failed"]
    <3>1. conn' = [conn EXCEPT ![current] = x]
      BY <1>1, <2>3
    <3>2. x.sock = "failed" /\ x.flag = k.flag
      BY <1>1 DEF ConnectorStates
    <3> HIDE DEF x
    <3> QED
      BY <1>4, <1>5, <2>3, <3>1, <3>2
  <2>4. CASE UNCHANGED conn /\ Finish(t)
    BY <1>4, <1>5, <1>7, <2>4
  <2> QED
    BY <1>9, <2>1, <2>2, <2>3, <2>4 DEF ConnectEnds
<1>10. CASE SendHello(t)
  <2> DEFINE x == [k EXCEPT !.flag = FALSE]
  <2>1. conn' = [conn EXCEPT ![current] = x]
    BY <1>1, <1>10 DEF SendHello
  <2>2. x.flag = FALSE /\ x.sock = k.sock /\ x.peer = k.peer
    BY <1>1 DEF ConnectorStates
  <2> HIDE DEF x
  <2>3. CASE /\ k.sock = "open" /\ thread' = [thread EXCEPT ![t].pc = "answer", ![t].connector = current]
             /\ UNCHANGED <<above, pending>>
    <3> DEFINE s == [r EXCEPT !.pc = "answer", !.connector = current]
    <3>1. thread' = [thread EXCEPT ![t] = s]
      BY <1>1, <2>3
    <3>2. s \in ThreadStates /\ s.pc = "answer" /\ s.connector = current /\ s.target = r.target
      BY <1>1 DEF ThreadStates
    <3> HIDE DEF s
    <3>3. s.pc \notin {"none", "done"} /\ Touches(s, ui, current, x)
      BY <1>4, <2>2, <2>3, <3>2 DEF Touches
    <3> QED
      BY <1>4, <1>6, <2>1, <2>2, <2>3, <3>1, <3>2, <3>3
  <2>4. CASE Finish(t)
    BY <1>4, <1>5, <2>1, <2>2, <2>4
  <2> QED
    BY <1>10, <2>3, <2>4 DEF SendHello
<1>11. CASE ReceiveHello(t)
  <2>1. r.pc = "answer" /\ conn' = conn
    BY <1>11 DEF ReceiveHello
  <2>2. CASE Goto(t, "greeted") /\ UNCHANGED <<above, pending>>
    <3> DEFINE s == [r EXCEPT !.pc = "greeted"]
    <3>1. thread' = [thread EXCEPT ![t] = s]
      BY <2>2 DEF Goto
    <3>2. s \in ThreadStates /\ s.pc = "greeted" /\ s.connector = r.connector /\ s.target = r.target
      BY <1>1 DEF ThreadStates
    <3> HIDE DEF s
    <3>3. s.pc \notin {"none", "done"} /\ Touches(s, ui, current, k)
      BY <1>4, <2>1, <3>2 DEF Touches
    <3> QED
      BY <1>4, <1>6, <1>7, <2>1, <2>2, <3>1, <3>2, <3>3
  <2>3. CASE Finish(t)
    BY <1>4, <1>5, <1>7, <2>1, <2>3
  <2> QED
    BY <1>11, <2>2, <2>3 DEF ReceiveHello
<1>12. CASE SetConnected(t)
  <2> DEFINE x == [k EXCEPT !.flag = TRUE]
  <2>1. r.pc = "greeted" /\ r.connector = current /\ Finish(t)
    BY <1>4, <1>12 DEF SetConnected
  <2>2. conn' = [conn EXCEPT ![current] = x]
    BY <1>1, <1>12, <2>1 DEF SetConnected
  <2>3. x.sock = k.sock /\ x.peer = k.peer
    BY <1>1 DEF ConnectorStates
  <2> HIDE DEF x
  <2> QED
    BY <1>4, <1>5, <2>1, <2>2, <2>3
<1> QED
  BY <1>8, <1>9, <1>10, <1>11, <1>12 DEF ThreadStep

LEMMA InitQuiet ==
  ASSUME Init
  PROVE  QuietInv
<1>1. PICK list \in SavedLists :
        ui = [list |-> list, selected |-> 0, edited |-> NoEdit, hostChecked |-> FALSE,
              redrawVol |-> FALSE, enabled |-> FALSE]
  BY DEF Init
<1>2. ui.list # <<>>
  BY <1>1, ActivitiesAssumption
<1>3. above = <<1>> /\ ~crashed /\ current = 1 /\ conn = [c \in Connectors |-> NewConnector]
  BY DEF Init, Kept
<1>4. ~Editing
  BY <1>3 DEF Editing, Edited, Edit
<1>5. 1 \in Connectors /\ \A c \in Connectors : ~(c < 1)
  BY ActivitiesAssumption DEF Connectors
<1>6. ConnectorsInOrder /\ conn[current].sock = "fresh"
  BY <1>3, <1>5 DEF ConnectorsInOrder, NewConnector
<1>7. \A t \in Threads : Alive(t) => thread[t] = [pc |-> "reach", target |-> Target(ui), connector |-> Nobody]
  BY DEF Init, Alive, NoThread
<1>8. \A t \in Threads : Alive(t) => InTouch(t)
  BY <1>2, <1>7 DEF InTouch, Touches
<1> QED
  BY <1>2, <1>3, <1>4, <1>6, <1>8 DEF QuietInv, Undisturbed

LEMMA NextQuiet ==
  ASSUME Base, QuietInv, [Next]_vars
  PROVE  QuietInv'
<1> SUFFICES ASSUME quiet' PROVE Undisturbed'
  BY DEF QuietInv
<1>1. CASE Next
  BY <1>1, UserQuiet, MessageQuiet, ObserverQuiet, ThreadQuiet DEF Next
<1>2. CASE UNCHANGED vars
  BY <1>2 DEF vars, QuietInv, Undisturbed, ConnectorsInOrder, SomeAlive, Alive, InTouch, Drawing, Editing
<1> QED
  BY <1>1, <1>2

LEMMA QuietHolds == Spec => []QuietInv
<1> QED
  BY InitQuiet, NextQuiet, BaseHolds, PTL DEF Spec

\* As long as no connecting thread and no drawing of the volume was disturbed, the enabled controls
\* of an open connection steer the selected desktop, whatever the user does to the list meanwhile.
THEOREM ControlsCorrect == Spec => []QuietControls
<1>1. QuietInv => QuietControls
  BY DEF QuietInv, Undisturbed, QuietControls, ControlsSelected, Steers
<1> QED
  BY <1>1, QuietHolds, PTL

\* Until then every connector that was replaced is closed, and who is said to be connected is.
THEOREM ConnectorsCorrect == Spec => []QuietConnectors
<1>1. QuietInv => QuietConnectors
  BY DEF QuietInv, Undisturbed, ConnectorsInOrder, QuietConnectors
<1> QED
  BY <1>1, QuietHolds, PTL

\* Until then no volume is drawn of a list that the editor has emptied.
THEOREM ListCorrect == Spec => []QuietList
<1>1. QuietInv => QuietList
  BY DEF QuietInv, Undisturbed, QuietList
<1> QED
  BY <1>1, QuietHolds, PTL

-----------------------------------------------------------------------------
(* The observers *)

Watches(ob) == ob.pc = "begun" \/ (ob.pc \notin {"none", "ended"} /\ ~ob.stop)

\* A handler leaves the observers alone or starts another one.
LEMMA StartObserved ==
  ASSUME Base, NEW u, NEW ab, onStart(u, ab)
  PROVE  Observed'
<1>1. observer \in [Observers -> ObserverStates]
  BY BaseParts
<1>2. PICK o \in Observers : observer' = [observer EXCEPT ![o] = [pc |-> "begun", stop |-> TRUE]]
  BY DEF onStart
<1>3. observer'[o].pc = "begun"
  BY <1>1, <1>2
<1> QED
  BY <1>3 DEF Observed

LEMMA SameObserved ==
  ASSUME Observed, main' = main, observer' = observer, ~crashed
  PROVE  Observed'
BY DEF Observed

LEMMA NextObserved ==
  ASSUME Base, Observed, [Next]_vars
  PROVE  Observed'
<1>1. observer \in [Observers -> ObserverStates] /\ Fits(ui) /\ conn \in [Connectors -> ConnectorStates] /\ current \in Connectors
  BY BaseParts
<1>2. CASE User
  <2>1. ASSUME NEW pos, Select(pos) PROVE Observed'
    <3>1. main' = main /\ observer' = observer /\ ~crashed
      BY <2>1 DEF Select, InFront, onItemSelected
    <3> QED
      BY <3>1, SameObserved DEF Observed
  <2>2. ASSUME NEW index, OpenEditor(index) PROVE Observed'
    BY <2>2 DEF OpenEditor, Observed
  <2>3. CASE Home
    BY <2>3 DEF Home, Observed
  <2>4. CASE Return
    <3>1. \E u : onStart(u, above)
      BY <2>4 DEF Return
    <3> QED
      BY <3>1, StartObserved
  <2>5. CASE BackFromConnecting
    BY <2>5, SameObserved DEF BackFromConnecting
  <2>6. ASSUME NEW u, LeaveEditor(u) PROVE Observed'
    <3>1. \E v : onStart(v, Front(above))
      BY <2>6 DEF LeaveEditor
    <3> QED
      BY <3>1, StartObserved
  <2>7. CASE \/ \E d \in Desktops, isDefault \in BOOLEAN : EditOk(d, isDefault)
             \/ EditDelete \/ EditCancel \/ EditBack
    BY <2>6, <2>7 DEF EditOk, EditDelete, EditCancel, EditBack
  <2>8. (EditSelected => OpenEditor(ui.selected)) /\ (New => OpenEditor(NoEdit))
    BY DEF EditSelected, New
  <2> QED
    BY <1>2, <2>1, <2>2, <2>3, <2>4, <2>5, <2>7, <2>8 DEF User
<1>3. CASE DeliverResult
  BY <1>3, SameObserved DEF DeliverResult
<1>4. CASE handleMessage
  <2>1. main' = main /\ observer' = observer /\ ~crashed
    BY <1>4 DEF handleMessage, onItemSelected
  <2> QED
    BY <2>1 DEF Observed
<1>5. ASSUME NEW o \in Observers, ObserverStep(o)
      PROVE  Observed'
  <2>1. main' = main /\ crashed' = crashed
    BY <1>5 DEF ObserverStep, BeginObserving, Poll, Post, ObserverUnchanged
  <2>2. /\ \A p \in Observers : p # o => observer'[p] = observer[p]
        /\ Watches(observer[o]) => Watches(observer'[o])
    <3>1. CASE BeginObserving(o)
      BY <1>1, <3>1 DEF BeginObserving, Watches
    <3>2. CASE Poll(o)
      <4>1. observer' = [observer EXCEPT ![o] = [observer[o] EXCEPT !.pc = "acting"]] /\ observer[o].pc = "polling"
        BY <3>2 DEF Poll
      <4> QED
        BY <1>1, <4>1 DEF Watches, ObserverStates
    <3>3. CASE Post(o)
      <4>1. /\ observer' = [observer EXCEPT ![o] = [observer[o] EXCEPT !.pc = IF observer[o].stop THEN "ended" ELSE "polling"]]
            /\ observer[o].pc = "acting"
        BY <3>3 DEF Post
      <4> QED
        BY <1>1, <4>1 DEF Watches, ObserverStates
    <3> QED
      BY <1>5, <3>1, <3>2, <3>3 DEF ObserverStep
  <2> QED
    BY <2>1, <2>2 DEF Observed, Watches
<1>6. ASSUME NEW t \in Threads, ThreadStep(t)
      PROVE  Observed'
  <2>1. ThreadUnchanged
    BY <1>6 DEF ThreadStep, Reach, ConnectEnds, SendHello, ReceiveHello, SetConnected
  <2> QED
    BY <2>1 DEF ThreadUnchanged, Observed
<1>7. CASE UNCHANGED vars
  BY <1>7 DEF vars, Observed
<1> QED
  BY <1>2, <1>3, <1>4, <1>5, <1>6, <1>7 DEF Next

\* While the main activity is started somebody polls its flags, in however short a time it was
\* stopped and started again: the observer of the last start cannot have been stopped since.
THEOREM ObservedCorrect == Spec => []Observed
<1>1. Init => Observed
  <2>1. 1 \in Observers
    BY ActivitiesAssumption DEF Observers
  <2> QED
    BY <2>1 DEF Init, Observed
<1> QED
  BY <1>1, NextObserved, BaseHolds, PTL DEF Spec
=============================================================================
