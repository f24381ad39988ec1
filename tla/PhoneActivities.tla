--------------------------- MODULE PhoneActivities ---------------------------
(***************************************************************************)
(* The activities of the Android application over WiFi: the main activity  *)
(* with its list of desktops, the activity that edits the list, and the    *)
(* translucent one that shows an animation while a thread of its own       *)
(* connects to the selected desktop.  Three kinds of threads meet in the   *)
(* static UI.connector: the UI thread, which opens the activities, handles *)
(* the messages and replaces the connector, the connecting threads, which  *)
(* read the static anew for each of their calls, and the observers, which  *)
(* poll the flags and post messages to the UI thread.                      *)
(*                                                                         *)
(* Bounds: MaxConnectors (objects made by new WifiConnector), MaxThreads   *)
(* (connecting threads) and MaxObservers (observers, one for every start   *)
(* of the main activity).  WiFi stays enabled and the connection type is   *)
(* not changed; a daemon that closes the connection while it is greeted is *)
(* left to WifiSession.  Results are delivered before onStart(), as by the *)
(* versions of Android the application is written for, so that the flag    *)
(* redraw, which only the editor sets, is cleared before anybody polls it. *)
(***************************************************************************)
EXTENDS Naturals, SequencesExt

CONSTANTS Desktops, SavedLists, MaxConnectors, MaxThreads, MaxObservers, NoEdit, NoDesktop

ASSUME ActivitiesAssumption ==
  /\ SavedLists \subseteq Seq(Desktops) /\ <<>> \notin SavedLists
  /\ MaxConnectors \in Nat \ {0} /\ MaxThreads \in Nat \ {0} /\ MaxObservers \in Nat \ {0}
  /\ NoEdit \notin Nat /\ NoDesktop \notin Desktops

Connectors == 1..MaxConnectors
Threads == 1..MaxThreads
Observers == 1..MaxObservers
\* The editor among the activities, which are otherwise connecting threads; no connector.
Edit == 0
Nobody == 0

VARIABLES
  main,      \* the main activity: started or stopped
  above,     \* the activities on top of it: the threads of connecting ones, or Edit
  pending,   \* a connecting activity has finished and its result is not delivered yet
  ui,        \* the fields of WifiUI
  inbox,     \* the messages to the UI thread
  conn,      \* the connectors
  current,   \* the static UI.connector
  thread,    \* the connecting threads
  observer,  \* the observers
  crashed,   \* an exception nobody catches has ended the application
  quiet      \* history: no connecting thread has been disturbed yet, nor has the drawing of the volume

vars == <<main, above, pending, ui, inbox, conn, current, thread, observer, crashed, quiet>>

\* DistanceVolumeActivity.connector is set when the UI is built and keeps the first connector.
Kept == 1

NewConnector == [sock |-> "fresh", peer |-> NoDesktop, flag |-> FALSE]
NoThread == [pc |-> "none", target |-> NoDesktop, connector |-> Nobody]
Alive(t) == thread[t].pc \notin {"none", "done"}
SomeAlive == \E t \in Threads : Alive(t)

ActivitiesTypeOK ==
  /\ main \in {"started", "stopped"} /\ above \in Seq(Threads \cup {Edit})
  /\ pending \in BOOLEAN /\ crashed \in BOOLEAN /\ quiet \in BOOLEAN
  /\ ui \in [list : Seq(Desktops), selected : Nat, edited : Nat \cup {NoEdit}, hostChecked : BOOLEAN,
             redrawVol : BOOLEAN, enabled : BOOLEAN]
  /\ ui.list # <<>> => ui.selected < Len(ui.list)
  /\ ui.edited # NoEdit => ui.edited < Len(ui.list)
  /\ inbox \in Seq({<<"redrawVol">>} \cup ({"item"} \X Nat))
  /\ conn \in [Connectors -> [sock : {"fresh", "open", "closed", "failed"},
                              peer : Desktops \cup {NoDesktop}, flag : BOOLEAN]]
  /\ current \in Connectors
  /\ thread \in [Threads -> [pc : {"none", "reach", "dial", "hello", "answer", "greeted", "done"},
                             target : Desktops \cup {NoDesktop}, connector : Connectors \cup {Nobody}]]
  /\ observer \in [Observers -> [pc : {"none", "begun", "polling", "acting", "ended"}, stop : BOOLEAN]]

-----------------------------------------------------------------------------
(* The connector *)

\* Mutant: isConnectedToDaemon() is not reset.
M_closeConnection(c, cs) == [cs EXCEPT ![c].sock = "closed", ![c].peer = NoDesktop]

\* closeConnection(): whatever the socket was, it is closed and no daemon is connected.
closeConnection(c, cs) == [cs EXCEPT ![c] = [NewConnector EXCEPT !.sock = "closed"]]

\* The address of the selected desktop; the list may be empty.
Target(u) == u.list[u.selected + 1]

-----------------------------------------------------------------------------
(* What the UI thread does within its handlers: u and ab are the fields    *)
(* and the activities the handler has come to, c is the current connector. *)

\* openConnectingActivity(): a new activity with a thread of its own.
openConnectingActivity(u, ab, c) ==
  \E t \in Threads :
    /\ thread[t].pc = "none" /\ \A s \in 1..(t - 1) : thread[s].pc # "none"
    /\ thread' = [thread EXCEPT ![t] = [pc |-> "reach", target |-> Target(u), connector |-> Nobody]]
    /\ above' = Append(ab, t)
    /\ ui' = u
    /\ quiet' = (quiet /\ ~SomeAlive /\ c.sock # "open")
    /\ UNCHANGED crashed

\* setVolumeUI(): connects to the selected desktop first; then shows its volume, or a dialog.
setVolumeUI(u, ab, c) ==
  \/ /\ u.list = <<>>
     /\ crashed' = TRUE /\ ui' = u /\ above' = ab
     /\ UNCHANGED <<thread, quiet>>
  \/ /\ u.list # <<>> /\ ~u.hostChecked
     /\ openConnectingActivity(u, ab, c)
  \/ /\ u.list # <<>> /\ u.hostChecked
     /\ ui' = [u EXCEPT !.enabled = u.enabled \/ c.flag]
     /\ above' = ab
     /\ UNCHANGED <<thread, quiet, crashed>>

\* Mutant: draws whatever the list is.
M_reDrawUI(u, ab, c, q) ==
  LET fresh == [u EXCEPT !.enabled = FALSE]
  IN inbox' = q /\ setVolumeUI(fresh, ab, c)

\* reDrawUI(): new controls, which are disabled, and the spinner at the edited or the selected desktop.
reDrawUI(u, ab, c, q) ==
  LET fresh == [u EXCEPT !.enabled = FALSE]
      pos == IF u.edited # NoEdit THEN u.edited ELSE u.selected
  IN /\ inbox' = IF pos = u.selected THEN q ELSE Append(q, <<"item", pos>>)
     /\ \/ /\ u.list = <<>>
           /\ ui' = fresh /\ above' = ab
           /\ UNCHANGED <<thread, quiet, crashed>>
        \/ /\ u.list # <<>>
           /\ setVolumeUI(fresh, ab, c)

\* Mutant: the thread that was stopped is taken for a running one.
M_onStart(u, ab) ==
  /\ main' = "started"
  /\ reDrawUI(u, ab, conn[current], inbox)
  /\ UNCHANGED <<conn, current, observer>>

\* onStart(): draws, and starts an observer, since onStop() has forgotten the previous one.
onStart(u, ab) ==
  /\ main' = "started"
  /\ reDrawUI(u, ab, conn[current], inbox)
  /\ \E o \in Observers :
       /\ observer[o].pc = "none" /\ \A p \in 1..(o - 1) : observer[p].pc # "none"
       /\ observer' = [observer EXCEPT ![o] = [pc |-> "begun", stop |-> TRUE]]
  /\ UNCHANGED <<conn, current>>

\* The observer of the last start.
LastObserver ==
  CHOOSE o \in Observers : observer[o].pc # "none" /\ \A p \in (o + 1)..MaxObservers : observer[p].pc = "none"

\* The volume is about to be drawn.
Drawing == ui.redrawVol \/ <<"redrawVol">> \in ToSet(inbox) \/ \E o \in Observers : observer[o].pc = "acting"

\* stopObserving(): ends an observer between two polls, and an acting one when it has posted.
Stopped(ob) == [pc |-> IF ob.pc = "polling" THEN "ended" ELSE ob.pc, stop |-> TRUE]

\* onStop(): stops the last observer and closes the connector the activity keeps.
onStop ==
  /\ observer' = [observer EXCEPT ![LastObserver] = Stopped(@)]
  /\ conn' = closeConnection(Kept, conn)
  /\ quiet' = (quiet /\ ~SomeAlive /\ ~Drawing)

\* Mutant: the connector and the check of the host are kept.
M_onItemSelected(pos, q) ==
  /\ setVolumeUI([ui EXCEPT !.selected = pos], above, conn[current])
  /\ inbox' = q
  /\ UNCHANGED <<main, pending, conn, current, observer>>

\* onItemSelected(): another desktop takes a new connector and is connected to.
onItemSelected(pos, q) ==
  /\ current < MaxConnectors
  /\ current' = current + 1
  /\ conn' = closeConnection(current, conn)
  /\ setVolumeUI([ui EXCEPT !.selected = pos, !.hostChecked = FALSE], above, NewConnector)
  /\ inbox' = q
  /\ UNCHANGED <<main, pending, observer>>

-----------------------------------------------------------------------------
(* The user *)

\* An input: the layout has been done and the activity in front is the main one.
InFront == main = "started" /\ above = <<>> /\ ~pending /\ ~crashed /\ \A i \in 1..Len(inbox) : inbox[i][1] # "item"

Select(pos) ==
  /\ InFront /\ pos # ui.selected
  /\ onItemSelected(pos, inbox)

\* openEditDesktopNameActivity(): the editor hides the main activity, which stops.
OpenEditor(index) ==
  /\ InFront
  /\ ui' = [ui EXCEPT !.edited = index]
  /\ above' = <<Edit>> /\ main' = "stopped"
  /\ onStop
  /\ UNCHANGED <<pending, inbox, current, thread, crashed>>

EditSelected == ui.list # <<>> /\ OpenEditor(ui.selected)
New == OpenEditor(NoEdit)

\* Another application comes to the front, or leaves it; 'Back' in the main activity is a Home
\* without a return.
Home ==
  /\ main = "started" /\ ~crashed
  /\ main' = "stopped"
  /\ onStop
  /\ UNCHANGED <<above, pending, ui, inbox, current, thread, crashed>>

\* processActivityResult(REQUEST_CODE_CONNECTING)
Connected(u) == [u EXCEPT !.hostChecked = TRUE, !.redrawVol = TRUE]

Return ==
  /\ main = "stopped" /\ ~crashed /\ Edit \notin ToSet(above)
  /\ pending' = (pending /\ above # <<>>)
  /\ onStart(IF pending /\ above = <<>> THEN Connected(ui) ELSE ui, above)

\* 'Back' finishes the connecting activity and leaves its thread behind.
BackFromConnecting ==
  /\ above # <<>> /\ Last(above) # Edit /\ main = "started" /\ ~crashed
  /\ above' = Front(above) /\ pending' = TRUE
  /\ quiet' = (quiet /\ ~Alive(Last(above)))
  /\ UNCHANGED <<main, ui, inbox, conn, current, thread, observer, crashed>>

-----------------------------------------------------------------------------
(* The editor of a desktop's data *)

\* The result of the editor, with those that were waiting, is delivered and the main activity starts.
LeaveEditor(u) ==
  /\ above # <<>> /\ Last(above) = Edit /\ ~crashed
  /\ pending' = (pending /\ Len(above) > 1)
  /\ onStart(IF pending /\ Len(above) = 1 THEN Connected(u) ELSE u, Front(above))

Without(list, index) == IF index = NoEdit THEN list ELSE RemoveAt(list, index + 1)

\* isIpUsed() and isNameUsed(): the data of another desktop are refused.
Usable(d) == d \notin ToSet(Without(ui.list, ui.edited))

\* chgCurrentlyEditedDesktopData(): the changed desktop goes to the head of the list or to its end.
EditOk(d, isDefault) ==
  LET rest == Without(ui.list, ui.edited)
  IN /\ Usable(d)
     /\ LeaveEditor([ui EXCEPT !.list = IF isDefault THEN <<d>> \o rest ELSE Append(rest, d),
                               !.selected = IF isDefault THEN 0 ELSE Len(rest),
                               !.edited = NoEdit, !.hostChecked = FALSE])

\* Mutant: the index of what has been removed is kept.
M_EditDelete ==
  /\ ui.edited # NoEdit
  /\ LeaveEditor([ui EXCEPT !.list = Without(ui.list, ui.edited), !.selected = 0, !.hostChecked = FALSE])

\* removeCurrentlyEditedDesktopData(); a desktop that is new has no such button.
EditDelete ==
  /\ ui.edited # NoEdit
  /\ LeaveEditor([ui EXCEPT !.list = Without(ui.list, ui.edited), !.selected = 0, !.edited = NoEdit,
                            !.hostChecked = FALSE])

EditCancel == LeaveEditor([ui EXCEPT !.hostChecked = FALSE, !.edited = NoEdit])

\* 'Back': the result is RESULT_CANCELED, which onActivityResult() ignores.
EditBack == LeaveEditor(ui)

-----------------------------------------------------------------------------
(* Messages and results *)

DeliverResult ==
  /\ main = "started" /\ above = <<>> /\ pending /\ ~crashed
  /\ pending' = FALSE
  /\ ui' = Connected(ui)
  /\ UNCHANGED <<main, above, inbox, conn, current, thread, observer, crashed, quiet>>

handleMessage ==
  /\ inbox # <<>> /\ ~crashed
  /\ \/ /\ Head(inbox) = <<"redrawVol">>
        /\ setVolumeUI(ui, above, conn[current])
        /\ inbox' = Tail(inbox)
        /\ UNCHANGED <<main, pending, conn, current, observer>>
     \/ /\ Head(inbox)[1] = "item"
        /\ IF Head(inbox)[2] # ui.selected
           THEN onItemSelected(Head(inbox)[2], Tail(inbox))
           ELSE inbox' = Tail(inbox) /\ UNCHANGED <<main, above, pending, ui, conn, current, thread, observer, crashed, quiet>>

-----------------------------------------------------------------------------
(* An observer: run() begins by clearing the very flag stopObserving() sets. *)

ObserverUnchanged == UNCHANGED <<main, above, pending, conn, current, thread, crashed, quiet>>

BeginObserving(o) ==
  /\ observer[o].pc = "begun" /\ ~crashed
  /\ observer' = [observer EXCEPT ![o] = [pc |-> "polling", stop |-> FALSE]]
  /\ UNCHANGED <<ui, inbox>> /\ ObserverUnchanged

\* The loop's condition: the flag is found set.
Poll(o) ==
  /\ observer[o].pc = "polling" /\ ui.redrawVol /\ ~crashed
  /\ observer' = [observer EXCEPT ![o].pc = "acting"]
  /\ UNCHANGED <<ui, inbox>> /\ ObserverUnchanged

\* The flag is cleared, whoever has set it meanwhile, and the message sent.
Post(o) ==
  /\ observer[o].pc = "acting" /\ ~crashed
  /\ ui' = [ui EXCEPT !.redrawVol = FALSE]
  /\ inbox' = Append(inbox, <<"redrawVol">>)
  /\ observer' = [observer EXCEPT ![o].pc = IF observer[o].stop THEN "ended" ELSE "polling"]
  /\ ObserverUnchanged

-----------------------------------------------------------------------------
(* A connecting thread *)

ThreadUnchanged == UNCHANGED <<main, inbox, ui, current, observer, crashed, quiet>>

Goto(t, pc) == thread' = [thread EXCEPT ![t].pc = pc]

\* finish(): the animation, if it is still there, ends with the thread and its result is on its way.
Finish(t) ==
  /\ thread' = [thread EXCEPT ![t] = [NoThread EXCEPT !.pc = "done"]]
  /\ \/ t \notin ToSet(above) /\ UNCHANGED <<above, pending>>
     \/ \E i \in DOMAIN above : above[i] = t /\ above' = RemoveAt(above, i) /\ pending' = TRUE

\* isAddrReachable(), and when it is connect(): nothing is connected any more, and a closed socket is replaced.
Reach(t) ==
  /\ thread[t].pc = "reach" /\ ~crashed
  /\ \/ /\ thread' = [thread EXCEPT ![t].pc = "dial", ![t].connector = current]
        /\ conn' = [conn EXCEPT ![current].flag = FALSE, ![current].sock = IF @ = "closed" THEN "fresh" ELSE @]
        /\ UNCHANGED <<above, pending>>
     \/ Finish(t) /\ UNCHANGED conn
  /\ ThreadUnchanged

\* Only a socket that was never connected can be; one that failed to connect is of no more use.
ConnectEnds(t) ==
  LET c == thread[t].connector
  IN /\ thread[t].pc = "dial" /\ ~crashed
     /\ \/ /\ conn[c].sock = "fresh"
           /\ conn' = [conn EXCEPT ![c].sock = "open", ![c].peer = thread[t].target]
           /\ Goto(t, "hello") /\ UNCHANGED <<above, pending>>
        \/ /\ conn[c].sock = "fresh"
           /\ conn' = [conn EXCEPT ![c].sock = "failed"]
           /\ Finish(t)
        \/ /\ conn[c].sock # "fresh"
           /\ UNCHANGED conn
           /\ Finish(t)
     /\ ThreadUnchanged

\* handShake(): the greeting is sent through the connector that is current now.
SendHello(t) ==
  /\ thread[t].pc = "hello" /\ ~crashed
  /\ conn' = [conn EXCEPT ![current].flag = FALSE]
  /\ \/ /\ conn[current].sock = "open"
        /\ thread' = [thread EXCEPT ![t].pc = "answer", ![t].connector = current]
        /\ UNCHANGED <<above, pending>>
     \/ /\ conn[current].sock # "open"
        /\ Finish(t)
  /\ ThreadUnchanged

\* The greeting comes back, or something else, or nothing in time, or the connection has been closed here.
ReceiveHello(t) ==
  /\ thread[t].pc = "answer" /\ ~crashed
  /\ \/ /\ conn[thread[t].connector].sock = "open"
        /\ Goto(t, "greeted") /\ UNCHANGED <<above, pending>>
     \/ Finish(t)
  /\ UNCHANGED conn /\ ThreadUnchanged

SetConnected(t) ==
  /\ thread[t].pc = "greeted" /\ ~crashed
  /\ conn' = [conn EXCEPT ![thread[t].connector].flag = TRUE]
  /\ Finish(t)
  /\ ThreadUnchanged

-----------------------------------------------------------------------------
\* onCreate() and the first onStart(): a connecting thread for the first desktop of the saved list.
Init ==
  /\ main = "started" /\ above = <<1>> /\ pending = FALSE /\ inbox = <<>> /\ crashed = FALSE /\ quiet = TRUE
  /\ \E list \in SavedLists :
       ui = [list |-> list, selected |-> 0, edited |-> NoEdit, hostChecked |-> FALSE,
             redrawVol |-> FALSE, enabled |-> FALSE]
  /\ conn = [c \in Connectors |-> NewConnector] /\ current = Kept
  /\ thread = [t \in Threads |-> IF t = 1 THEN [pc |-> "reach", target |-> Target(ui), connector |-> Nobody] ELSE NoThread]
  /\ observer = [o \in Observers |-> [pc |-> IF o = 1 THEN "begun" ELSE "none", stop |-> TRUE]]

User ==
  \/ \E pos \in 0..(Len(ui.list) - 1) : Select(pos)
  \/ EditSelected \/ New \/ Home \/ Return \/ BackFromConnecting
  \/ \E d \in Desktops, isDefault \in BOOLEAN : EditOk(d, isDefault)
  \/ EditDelete \/ EditCancel \/ EditBack

ObserverStep(o) == BeginObserving(o) \/ Poll(o) \/ Post(o)
ThreadStep(t) ==
  Reach(t) \/ ConnectEnds(t) \/ SendHello(t) \/ ReceiveHello(t) \/ SetConnected(t)

Next ==
  \/ User \/ DeliverResult \/ handleMessage
  \/ \E o \in Observers : ObserverStep(o)
  \/ \E t \in Threads : ThreadStep(t)

Spec == Init /\ [][Next]_vars

-----------------------------------------------------------------------------
(* Properties *)

Steers == ui.enabled /\ conn[current].sock = "open"

\* The controls steer the selected desktop: what setVolumeUI() is documented to show.
ControlsSelected == (main = "started" /\ Steers) => (ui.list # <<>> /\ conn[current].peer = Target(ui))

\* They do as long as no connecting thread was disturbed: none was started beside another or over an
\* open connection, none outlived its animation or the main activity's stop, and no stop came
\* between a connecting thread's end and the drawing of the volume.
QuietControls == quiet => ControlsSelected

\* Until then the connectors are in order too: those that were replaced are closed, and whoever is
\* said to be connected is.
QuietConnectors ==
  quiet => \A c \in Connectors :
             /\ c < current => conn[c].sock = "closed"
             /\ conn[c].flag => conn[c].sock = "open"

\* No volume is drawn of a list that has become empty.
QuietList == quiet => ~(crashed /\ ui.list = <<>>)

\* While the main activity is started somebody polls its flags, however often it was stopped before.
Observed ==
  (main = "started" /\ ~crashed) =>
     \E o \in Observers : observer[o].pc = "begun" \/ (observer[o].pc \notin {"none", "ended"} /\ ~observer[o].stop)
==============================================================================
