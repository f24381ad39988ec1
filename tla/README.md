# Verification of Soundroid

Soundroid controls the sound volume of a Linux desktop from an Android device.
A daemon on the desktop serves the device over WiFi or Bluetooth and a GUI on
the desktop over a messages queue. This directory holds TLA+ models of the
daemon's concurrent core, of the GUI that starts and stops it and of the
application's side, the TLC runs that check them and TLAPS proofs.

Run `tlc -config <run>.cfg <MC module>.tla` for a run of PROJECT.json and
`tlapm <module>.tla` for the eight modules with proofs (`*Proofs.tla`).

## 1. Inventory

| Component | Code | State | Operations | Talks to |
|---|---|---|---|---|
| Shared data | `daemon/net/synchronise.c` | run status, received-data status, two text buffers, two mutexes | set/get of each | network thread and dispatcher call it |
| WiFi connection | `daemon/net/wifi/SocketsLib.c` | listening socket, `master` set, address of the connected client, the local `newSockDescr` | `runConnection`, `conversation`, `sendData`, `closeSocketConn`, binding | sockets; shared data |
| WiFi connector | `ConnectorWiFi.cpp` | port number, socket | `run` (thread), `stop`, `send`, `receive`, `setPortNum`, `isPortAvailable` | shared data, WiFi connection, closing client |
| Closing client | `ClosingClient.c` | none | connects to the daemon's own port and sends `end` | WiFi connection, over TCP |
| Dispatcher | `CommandsDispatcher*.cpp` | connectors, commands, threads, `shouldStop_` | `start` (thread), `execCommand`, `stop`, `restartNetConnector`, destructor | all connectors, in turn |
| Commands | `daemon/src/commands` | none | `execute` | dispatcher (`quit`, `chg_port`), sound connector, net connector |
| Daemon process | `Daemon.cpp` | `stop`, pid file | fork, SIGTERM handler, `runDispatcher`, connection type | dispatcher |
| Messages queue | `daemon/MsgsQueue`, `GuiConnector.cpp`, `Gui/port_ops.c` | System V queue, running status, receiving status, text buffer | `runQueue` (thread), `sendMsgServer`, `receiveMsgServer`, `deleteQueue`, client send/receive | kernel queue; dispatcher; GUI |
| Sound | `SndConnector.cpp`, `SoundLib.c` | volume, mute state, mixer range, arrived text | mute, unmute, change, get | ALSA mixer |
| Log | `Log.c` | file, size, mutex | `writeToLog`, clear | every thread |
| Bluetooth daemon | `net/bluetooth`, `ConnectorBT.cpp`, `CommandsDispatcherBT.cpp` | one connection, shared data | `runBtConnection`, `conversationBt` | as for WiFi |
| GUI | `daemon/Gui`, `scripts/stop.sh` | pid of the daemon, widgets | start, stop, change port | daemon process, messages queue |
| Android connectors | `application/.../net` | socket, time-out, conversation thread | connect, commands, close | daemon |
| Android UI | `application/.../ui` | connector shared by activities, observer thread | start/stop of activities | Android connectors |
| Desktops data | `application/.../DesktopData*`, `FileUtils` | list and file of desktops | add, edit, remove, save | Android UI |

What makes the code hard:

- *Two threads and four words of memory.* The network thread and the dispatcher
  meet in `synchronise.c` only. The text and the status of a request are set in
  two critical sections, the text is read outside any, and the answer is polled,
  sent and cleared without the mutex. Correctness rests on the order of the steps.
- *Blocking.* The network thread waits for an answer and looks at nothing else; the
  dispatcher joins the network thread; the destructor joins everything.
- *Answers without numbers.* A phone that has given up waiting reads the late answer
  as that of its next command.
- *Mutexes that are initialised and destroyed while they are held* (`Log.c`).
- *A file as the only link* between the GUI, `stop.sh` and the daemons (`pid.txt`).
- *A static variable shared by activities and threads* of the application that are
  started and stopped by the user (`UI.connector`).
- *Several clients, one answer buffer*, and one variable for "the" new connection.
- *One queue in both directions* between daemon and GUI.
- *Stopping and restarting* a thread through a status it may itself overwrite.

What should hold of each component, and the property here that says so, is in
section 4. All hazards, at their lines, are in PROJECT.json.

## 2. Modules

| Module | Models | Uses |
|---|---|---|
| `Synchronise` | the shared data, one action per critical section | |
| `WifiConnection` | the network thread, its descriptors, the kernel's connections and the remote clients | `Synchronise` |
| `HandOff` | abstract: a slot for one request at a time (asked, answered, handed over) | |
| `NetConversation` | the dispatcher's loop against `WifiConnection`; implements `HandOff` | `WifiConnection`, `HandOff` |
| `DaemonWiFi` | the process: SIGTERM, `quit`, `chg_port`, restart, destructor, GUI thread | `NetConversation` |
| `MsgsQueue` | the messages queue with its server thread, dispatcher side and GUIs | |
| `SoundControl` | the sound commands over a mixer that other programs use too | |
| `BluetoothConversation` | the Bluetooth network thread and the dispatcher | `Synchronise` |
| `BluetoothPhone` | the same with phones: calls that time out, the thread that reads, `cancel()`; implements `HandOff` | `BluetoothConversation`, `HandOff` |
| `DaemonControl` | the GUI, `stop.sh` and the daemons around `pid.txt` | |
| `WifiSession` | one connection of the application: calls that give up, late answers, the controls | |
| `PhoneActivities` | the application's activities, connectors, connecting threads and observers | |
| `LogFile` | `writeToLog()` called by several threads | |
| `DaemonWiFiProofs`, `PhoneActivitiesProofs`, `MsgsQueueProofs`, `SoundControlProofs`, `BluetoothPhoneProofs`, `DaemonControlProofs`, `WifiSessionProofs`, `LogFileProofs` | the proofs of section 6 | the module, TLAPS |
| `MC*` | instances for TLC | |

How state and actions correspond to the code:

- A thread's place is a variable (`netPc`, `btPc`, `dispPc`, `mainPc`, `guiPc`, ...).
  An action is the code between two points where another thread can see or change
  something: one critical section, one kernel call, one read or write of an
  unprotected variable.
- `NetThread` is `ConnectorWiFi::run()`: `StartRun` and `FinishRun` are its two
  assignments of the run status, `Listen` to `CloseListener` are `runConnection()`,
  `ReceiveEnd` to `SendAnswer` are `conversation()`. The wait
  `while(strlen(getSentData()) == 0);` is the guard of `SeeAnswer`. `SendAnswer` is the
  loop of `sendData()` over `master`: the first descriptor gets the text and the buffer
  is cleared, so the later ones get nothing.
- `CloseNewest` is `closeSocketConn(newSockDescr)` with the `break` after it. That it
  closes the descriptor accepted last is what the code does.
- `Dispatcher` is `CommandsDispatcher::start()`. `PollRequest` is the critical section
  of `getReceivedData()`; `ReadRequest` is the later construction of the string from
  the pointer it returned.
- A request line is a value of `Requests`, tagged with its sender, and an answer
  with its request; the tags are for the properties, no guard of the daemon reads
  them. Whether a request is an empty line (`Blank`) or has an answer that `strcpy()`
  stores in two parts that can be seen apart (`Long`) is given by constants.
- What has arrived on a socket is received as one line. Of several requests only the
  first is the command, the others become its parameters.
- Descriptor numbers are counted from the listening socket's, which is the lowest;
  `accept()` returns the lowest free one.
- In `MsgsQueue` the kernel hands a message to the receiver that has waited longest,
  as Linux does, and `runQueue()`'s three reads of the status are one step: only the
  last read decides, and a read that leads back to the loop changes nothing.
- In `SoundControl` a sound command is two steps, `Open` (`initSoundControl()`, which
  reads volume and switch) and what the command then does; other programs may step in
  between (`OtherProgram`), and any call of the mixer may fail. The text that the sound
  connector hands back is taken by the command itself (`Command` busy-waits in
  `receive()`), so it never reaches the dispatcher's loop. `Divide` is the division of C.
- In `BluetoothConversation` the listening socket does not block and the connection's
  does: `accept()` polls the run status and may return the status STOP where a descriptor is
  expected. Texts that are unread together are received as one, `Garbled`. An empty result is
  dropped (`DropEmptyResult`) and nothing is sent: that of `get_port`, which Bluetooth has not,
  and of `get_local_ip` and `get_connected_ip` when a name could not be read. The application
  asks none of these over Bluetooth; the daemon executes them for any client. In
  `BluetoothPhone` a client is one connection, of another phone or of one that connects again;
  its `readStr` is written by the conversation's thread and polled by the user interface's.
- In `DaemonControl` the GUI's `getRunningDaemonPID()` is a step per file or process it looks
  at, `stop.sh` a step per command, and a daemon a step per place between `fork()` and `exit()`.
  A daemon whose file was removed before it wrote keeps writing to it (`unlinked`). Daemons
  crash and hang at any place, other programs may get their IDs, and any of them may survive
  `kill -9`, which `stop.sh` has a branch for: it fails then, but removes the file first.
- In `WifiSession` a call of `WifiConnector` is a step that writes and one that reads a line,
  gives up, or finds the stream at its end. The daemon receives what has arrived as one line
  (commands that ran together are answered once, and the second is never executed), executes
  and answers later. The state is what the controls show beside what the desktop has: the
  switch and the mixer's value, which is read and set in percents by the two conversions of
  `SoundLib.c` (`Volume`, `RawOf`). A value above the mixer's range, which the largest percent
  can be, is limited or ignored, and "OK" is answered all the same. `slides` and `ignored` are
  histories for the property.
- In `PhoneActivities` an action of the UI thread is one callback of an activity, with every
  call it makes; a connecting thread reads the static connector anew for each of its calls, and
  so each is a step; an observer is a step per poll and one per message it posts.
- In `LogFile` every call of `writeToLog()` is lock, open with `pthread_mutex_init`, measure,
  perhaps clear and open again, write, `pthread_mutex_destroy`, close, unlock. Sizes are bytes,
  as in the code, and a text is its length. The mutex is
  glibc's: initialising it wakes no sleeper, destroying a used one fails, and a destroyed one
  refuses to be locked, which the code does not check.

## 3. How the project was built

In the order of the hazards: the hand-off of requests first, then the process around it,
the queue and the sound; then Bluetooth over the same shared data, the control of the process,
the application's session and its activities, and the log. What the models still leave out is
in section 7. What would be worth adding:

1. `WifiSession` over `NetConversation` in place of its own daemon, so that one phone's late
   answers meet another phone's requests.
2. The change of the connection's type, which replaces dispatcher and connectors on both sides.

## 4. Runs

| Run | Question | Bounds |
|---|---|---|
| `handoff` | Does the hand-off survive every interleaving? | 3 clients, 2 descriptors, one long and one empty request, 2 unread answers |
| `serving` | Is every client received, does the slot become free again, and what may a client that is alone rely on? | 2 clients, 2 descriptors, a short and a long request |
| `daemon` | Do restart, stop and exit keep port, buffers and status in order, and what can keep SIGTERM from ending the daemon? | 1 client, 2 descriptors, 2 ports; `quit`, `chg_port` and a long request |
| `queue` | Does a GUI that is alone keep exactly one message under way, and does removing the queue end its thread? | 3 GUIs, two of which may be killed, 1 command |
| `sound` | Do conversions, limits and stale states ever work against the command? | ranges 0..31, 0..100 and -20..12; changes -11, -1, 0, 1, 30 |
| `bluetooth` | Do answers stay with their connection and in order, is the next phone served, do both sides' threads end? | 2 connections, of 2 calls and 1, a backlog of 1 |
| `control` | Can there be two daemons, one that is not found, or one that `kill -9` would have ended left after "have stopped"? | 3 process IDs |
| `activities` | Do the controls steer the desktop that is selected, and is the main activity observed? | 2 desktops, 2 connectors, 2 connecting threads, 3 observers |
| `session` | How far can answers fall behind, and when do the controls show the truth? | mixers of 2, 4 and 8 steps under 6 percents, 3 moves of the bar after it was read, 2 calls that give up |
| `log` | What does the mutex that is initialised while it is held protect? | 3 threads, a call each; texts of 1 or 2 bytes and a limit of 2 |

Three clients over two descriptors make every case of the descriptor handling happen:
a client in the backlog while all descriptors are used, a newcomer on a number that was
just freed, two ready descriptors in one pass. `MaxUnread` bounds the answers a client
leaves unread and only stops clients from sending more. Two ports allow a change that
succeeds, fails, and goes back. In `daemon` the GUI has commands of its own, `quit` and
`chg_port` with and without a number among them. The mixers are one coarser than
percents, one as fine, and one whose range does not begin at zero; every volume of
each is an initial state. In `bluetooth` a phone with two calls can fall out of step, and
the other connection comes in while a request of the first is under way. Three IDs let a
daemon run beside a second one and a program that has the ID of a third. Three observers are
those of a main activity that was stopped and started twice, and two connectors and threads
let a desktop be selected while another is connected or connecting. In `session` the mixers are
coarser than percents, nearly as fine and finer, the largest percent is above the range of two of
them, and three moves let roundings add up; with two late calls the answers of two different
commands are read by later calls. Two threads of `LogFile` can be inside a call at once while the
third waits or sleeps; two short texts or a long one fill the file, a long one after a short one
goes past the limit, and the next text clears it.

Deadlock is checked in `sound` and `control` only: elsewhere everybody may have left or ended,
or the bounds stop the calls.

The `handoff` properties: the dispatcher executes the request the network thread waits
for (`ExecutesWhatIsAwaited`), no answer is left over (`AnswerBelongsToRequest`), only an
empty line strands the network thread (`OnlyBlankStrands`), and all of it is the abstract slot
(`SlotSafety`). In `serving` every request is received although
another client is busy (`EveryRequestReceived`), the slot is always freed (`SlotSpec`), and
as long as one client only has ever connected, which is how the application is used, the
answer it reads is its own, its connection is closed when it has left and not before, and
it is answered (`OneClientOwnAnswer`, `OneClientClosed`, `OneClientAnswered`).

In `daemon` the reported port is the bound one (`ReportsBoundPort`), an ended process has
freed it (`ExitReleasesPort`), a restarted network thread finds a clean hand-off
(`RestartsClean`), and a STOP is lost on a thread that had not begun only
(`StopLostOnlyAtStart`). `OnlyKnownHangs` says that a request under way and the lost STOP
are all that can keep SIGTERM from ending the daemon. `quit` ends the threads but not
the process, which sleeps until SIGTERM.

In `queue` exactly one message is under way while a single GUI waits, wherever it is
(`OneMessageWhileWaiting`); therefore it gets a response (`GuiReturns`) and the unprotected
copy is never overwritten (`ReadsStableText`), even when daemon or GUI receives a message
of its own. Removing the queue ends its thread wherever it is (`ServerEnds`).

In `sound`, for a mixer whose range begins at zero, a command to increase never lowers the
volume (`ChangesInDirection`) and what is set is at most what was asked for and less by at
most one step of the mixer (`AsLoudAsAsked`). `mute` and `unmute` are obeyed whatever the
library believed (`MuteIsObeyed`). All of these are about commands during which no call failed
and no other program interfered.

In `bluetooth` a phone gets answers to its own requests only and in order, also when the one
before it left with a request under way (`AnswersInOrder`), and the slot is the same abstract
one (`BtSlotSafety`). On the phone, `cancel()` returns if a call has been answered before
(`AnsweredCancelReturns`; otherwise `run()` may lower the flag `cancel()` waits for), and the
conversation's thread ends (`ThreadEnds`). On the desktop, a stop ends the thread unless it
came before `run()`, a phone keeps silent, a request is under way or one had an empty result
(`OnlyKnownBtHangs`), and who waits in the backlog is accepted or reset unless the thread is held
by one of the last three (`NextIsServed`).

In `control` a second daemon runs only if the user has declined to stop the first or the GUI
has looked before a daemon had written its ID, or a daemon has survived `kill -9`, all of it
since a stop that ended them all (`OneDaemon`); a daemon that is alone is the one `pid.txt` names
(`RunningIsNamed`, with the same exceptions); and whatever crashed, hung or took an old ID, those
left when the GUI says it has stopped them are survivors of `kill -9` (`StoppedIsTrue`).

In `activities`, as long as no connecting thread is disturbed (`quiet`: none started beside
another or over an open connection, none that outlives its animation or the main activity's
stop, no stop between its end and the drawing of the volume), enabled controls steer the
selected desktop (`QuietControls`), replaced connectors are closed and a connected flag means an
open socket (`QuietConnectors`), and no volume is drawn of an empty list (`QuietList`). A
disturbed thread can break each of them, so these properties do not cover the stale connector of
`onStop()` nor the thread that outlives its activity. Whatever happens, a started main activity has an
observer (`Observed`).

In `session` no more answers are behind than calls gave up (`AtMostLateBehind`); until the first
call gives up the mute button shows the desktop's switch, the bar is enabled just when the desktop
is audible and shows its volume (`ShownIsTrue`): exactly when it has just been read, and after
moves within what the two conversions round away, at most one percent less and one step of the
mixer more per move, unless the mixer has ignored a value above its range; and no answer
ends the application without a late answer or the end of the connection
(`EndsOnlyLateOrClosed`).

In `log`, as long as calls do not overlap no stream is misused, no text is lost and the file
outgrows its limit by less than one text (`AloneIsSafe`; the length of a text is looked at only
when it has been written), although the mutex is not released by an early
return: the next call initialises it again. Calls that overlap can both be inside, can use a
stream the other has closed, and can sleep for ever on a mutex that was initialised under
them, but nothing else keeps a call from returning (`CallsReturn`).

### Disagreements between code and documentation

Each has a run that TLC ends with a counterexample; PROJECT.json quotes the text.

| Run | What the code does |
|---|---|
| `two_clients` | answers go to the lowest descriptor, not to the client that asked |
| `late_answer` | after a call that gave up, its late answer is taken for the answer to `mute` |

Seen in the models too, without a run of their own:

- a connection that ends closes the one accepted last (`CloseNewest`, SocketsLib.c:548);
- a stop before the network thread's first step is overwritten (ConnectorWiFi.cpp:112, the
  exception in `StopLostOnlyAtStart`);
- `chg_port` from a network client blocks daemon and client: the dispatcher joins a thread that
  waits for the dispatcher (CommandsDispatcherWiFi.cpp:115), and with a text that is no number it
  ends the process (ConnectorWiFi.cpp:85);
- the daemon can receive its own result from the queue and executes it (MsgsQueueServer.c:178),
  a GUI can receive its own command, and one of two GUIs can lose its command;
- `getVol()` returns a value of the mixer when setting has failed, or 101 when the mixer cannot
  be opened (SoundLib.c:261), and sound commands answer "OK" nevertheless;
- on a mixer coarser than percents a change of 11 percents, as in `SoundLib/test.c`, is
  rounded, and a bar that is moved shows another volume than the desktop has;
- a decrease by one percent, at the maximum of a mixer of 0..31, asks for 99 percents, which are the
  maximum again, although `chgVol()` is to "decrease the current volume by value" (SoundLib.c:234);
- the log is cleared at a limit of bytes (Log.c:91, 168 and 199, `Check`), which Log.h:34 calls
  "The maximal number of lines within the log file";
- when a daemon survives `kill -9` the script reports "ERROR: Can't close the daemon" and fails
  (stop.sh:40), but has removed `pid.txt`, and the GUI, which does not look at the script's result,
  says "The volume control daemon have stopped!" (Gui/init.c:120 and 129, the exception `unkilled`
  in `StoppedIsTrue`);
- a bar that is moved to 100 percents asks a mixer of 99 steps or more for a value above its range
  (SoundLib.c:94), and the answer is "OK" whether the mixer takes it or not;
- over Bluetooth an empty result is never sent and the network thread waits for it for ever
  (ConnectorBT.cpp:105, `HeldByEmptyResult`);
- a GUI that is killed while it waits leaves its result to the next (MsgsQueueClient.c:101), and a
  call over Bluetooth that gave up leaves its text to the next (BluetoothConnector.java:295);
- the head of a long answer can be sent while `strcpy()` still copies it (`Long`);
- an empty line is never answered and blocks the network thread (`Blank`; the property
  `OnlyBlankStrands` says that nothing else does);
- the address of a client that has left is still reported as connected;
- a stop during a request leaves the network thread in its wait.

## 5. Fairness

Weak fairness on each thread as a whole (`NetThread`, `Dispatcher` or `DispatcherThread`,
`MainThread`, `GuiThread`, `ServerThread`, `BtThread`, `BtDispatcher`, a log's `Writing(t)`): the
kernel schedules a thread that can run. The busy wait is a guard, so a waiting thread is not
running. Fairness of a thread as a whole is enough because each thread has one place at a
time. A client or GUI that has asked reads its answer and notices a closed connection
(`ReadAnswer`, `FindClosed`, `GuiReceives`); a phone over Bluetooth runs its
`ConversationThread`, ends its waits (`WaitForResponse`, by an answer or the timeout) and gets
through `cancel`. Nothing obliges anyone to connect, ask, leave, stop, send a signal or kill.
`DaemonControl`, `WifiSession`, `PhoneActivities` and `SoundControl` are checked for safety only.

## 6. Proofs

All theorems hold for any values of the constants that satisfy the named assumptions of the
modules: special values differ from the others, bounds are naturals, `Blank` is a set of
requests.

**`DaemonWiFiProofs`** has the theorems of `NetConversation` and of `DaemonWiFi`, which share the
lemmas about the network thread, its clients and the dispatcher.

Of `Spec` of `NetConversation`: `TypeOK`, `HandOffInv`, `WatchesOpenDescriptors`,
`ExecutesWhatIsAwaited`, `AnswerBelongsToRequest`, `OnlyBlankStrands`, `AnswerNeverReplaced`,
`SlotSafety` (the refinement of `HandOff`), `OneClientOwnAnswer` and `OneClientClosed`. The
inductive invariant is `Inv == TypeOK /\ WatchesOpenDescriptors /\ HandOffInv`. The parts need
each other: the types are kept because what is received comes from an open socket
(`WatchesOpenDescriptors`) and what is sent is an answer (`HandOffInv`), while `HandOffInv` needs
that a received request is a message. `HandOffInv` describes the states of the hand-off: nothing
outstanding, request announced, request taken, answer outstanding, and nothing outstanding after
an empty line. The safety properties follow from it (`HandOffImplies`); the refinement shows that
`AnnounceRequest` asks, `ExecuteCommand` answers, `SendAnswer` hands over, and no other step moves
the slot. `OneClientOwnAnswer` needs a second invariant, `AloneInv`: while one client only has
connected, the others are silent and unconnected, and what it has asked, what the daemon holds and
what it has not read yet are in step. `OneClientClosed` needs a third, `ClosedInv`: the closing
client has not come, the end of a connection arrives only when its client has left (`Ends`), and
the one connection there has been is in the backlog or on the descriptor accepted last, which is
watched (`OneConnection`). It is why closing the descriptor accepted last is right for one client.

Of `DaemonSpec`: `DaemonTypeOK`, `ReportsBoundPort`, `ExitReleasesPort`, `StopLostOnlyAtStart`,
`RestartsClean`, and once more, for the daemon that is stopped and restarted,
`ExecutesWhatIsAwaited`, `AnswerBelongsToRequest`, `AnswerNeverReplaced` and `SlotSafety`.
The inductive invariant of the ports is
`DaemonInv == ReportsBoundPort /\ NetReleases /\ JoinsInOrder`: a network thread that has not
begun has no listening socket, one that has ended holds no port, and the process cannot exit
before the joins. The port is changed only while the network thread is gone, which is where the
first needs the second. The types need `SlotHolds`, what a request or an answer in the
buffers is at each place of the two threads. The hand-off of the daemon is
`DaemonHandOff == HandOffInv \/ JoinsItsClient`. The one state that `HandOffInv` does not know is
that of a `chg_port` from the network: the dispatcher joins the thread that waits for its answer
(`JoinsItsClient`), and that thread takes no step. A network thread is started again only when
the old one has ended, and one that has ended has left nothing outstanding: hence
`RestartsClean`, and hence a request that was taken goes without an answer only if it was an
empty line or that `chg_port` (`OnlyKnownStrands`). `StopLostOnlyAtStart` is a property of
single steps.

**`PhoneActivitiesProofs`**, of `Spec` of `PhoneActivities`, for any desktops and lists and any
number of connectors, connecting threads and observers: `ActivitiesTypeOK`, `QuietControls`,
`QuietConnectors`, `QuietList` and `Observed`. `Base` adds to the types, with the positions within
the list, that each activity is on the screen once and the editor below the others, with the main
activity stopped (`Screens`), and that a message of the spinner under way names a position of
the list (`ItemsInList`). Only the editor changes the list, and no such message is under way then,
which is why the positions hold. `QuietInv` says what is so until a connecting thread is
disturbed (`Undisturbed`): each thread that lives connects to the selected desktop through the
current connector (`InTouch`), later connectors are new and earlier ones closed
(`ConnectorsInOrder`), an open socket is the selected desktop's, and nothing is connecting or to be
drawn while the list is edited or empty. The steps are taken apart by what they do to the screen:
drawing (`Drawn`, which may open a connecting activity, or `Crash`), starting, returning, leaving
the editor, selecting, stopping. `Observed` needs nothing else: each start begins an observer that
no stop before it can reach.

**`MsgsQueueProofs`**, of `QueueSpec`: `QueueTypeOK`, `NoSpareMessages` (messages never multiply),
`OneMessageWhileWaiting` and `ReadsStableText`. `TypeInv` adds to the types that a thread that is
about to use a text has one and that who waits in `msgrcv()` waits for an empty queue. Every
step then has one of six effects on the number of messages under way and the set of GUIs that
wait or were killed waiting: nothing, a GUI adds one, a GUI takes one, two GUIs swap, the
copy is overwritten, the queue is removed. `CountInv` is inductive over the effects alone.

**`SoundControlProofs`**, of `SoundSpec`, for mixers of any range and any parameter: `SoundTypeOK`,
`ChangesInDirection`, `AsLoudAsAsked`, `MuteIsObeyed` and `ReportsMixer`. The inductive
invariant is `SoundInv == SoundTypeOK /\ KnowsMixer`: between opening the mixer and acting
on it the library knows what the mixer has, unless another program interfered. The two
conversions are the subject of four lemmas about integer division (`ReadingRoundsDown`,
`MoreIsNotLower`, `LessIsNotHigher`, `SetIsReadBack`): reading loses less than one
percent, so one percent more than was read is more than the volume; one percent less, set with
the smaller divisor, is still no more than a volume within the range; and below 99 percents the
smaller divisor adds less than the percent that reading rounds away.

**`BluetoothPhoneProofs`**, of `Spec` of `BluetoothPhone`: `TypeOK`, `BtSlotSafety` and
`AnswersInOrder`. `Inv` is the types, the states of the hand-off at each place of the network
thread (with that after an empty result, in which it waits and nobody answers), and that the
requests of a connection are its own. `OrderInv` puts everything of a connection in one order:
answers it has not read before the request being answered before those unread by the daemon, and
none above the number of its calls.

**`DaemonControlProofs`**, of `Spec` of `DaemonControl`, for any number of processes: the types,
`OneDaemon`, `RunningIsNamed` and `StoppedIsTrue`. `FileIsTrue` says what `pid.txt` holds for every
place of a lone daemon and of the GUI, as long as none of the exceptions has happened; a stop that
ends every daemon takes them back (`excused`), for then the file is removed and none is left.
`StoppedIsTrue` has an invariant of its own, `StopInv`: after `kill -9` no daemon appears before
the verdict but those it has left (`unkilled`), for only the GUI launches them.

**`WifiSessionProofs`**, of `Spec` of `WifiSession`, for mixers of any range, any scale of percents
above one and any number of late calls and moves: the types, `AtMostLateBehind`, `ShownIsTrue` and
`EndsOnlyLateOrClosed`. `InTime` says, for every call, where its command or its answer is and what
the desktop already is by then. The lemmas on the conversion (`ReadsPercents`, `ReadsAll`,
`SetIsReadBack`) bound what setting and reading a volume loses; `MovesNear` adds one move to `Near`.

**`LogFileProofs`**, of `LogSpec`, for any threads, limit, lengths of texts and calls: the types and
`AloneIsSafe`.
`AloneInv` says that one thread is inside, what mutex, stream and file are at each of its
places (`InCall`), and what they are between calls (`AtRest`).

Only model-checked: everything with fairness, which is out of the prover's reach
(`OneClientAnswered`, `EveryRequestReceived`, `SlotSpec`, `OnlyKnownHangs`, `GuiReturns`,
`ServerEnds`, `AnsweredCancelReturns`, `ThreadEnds`, `OnlyKnownBtHangs`, `NextIsServed`,
`CallsReturn`). Every other property of a passing run is a theorem.

## 7. Not modelled

- WiFi: SIGPIPE, which could end the daemon when it sends to a client that has gone; a failing
  `listen()` or `select()`; signals that interrupt a call; the repeated initialisation and
  destruction of the mutexes in `runConnection()`; the length of texts.
- Queue: its creation, and a full kernel queue.
- Bluetooth: a failing `accept()`, adapter names, the service record, pairing and discovery.
- Log: dates, `writeToLog2()`, and a file that cannot be opened.
- `WifiSession`: calls of the mixer that fail for another reason than a value out of range, other
  programs that change the sound, and a range that does not begin at zero; `SoundControl` has all
  three. A range of zero, a division by zero in SoundLib.c:90, is in neither.
- Process: the parameters of the command line and the file with the connection's type.
- Application: the change of the connection's type, the Bluetooth screens, a rotation of the
  phone, the file of the desktops and the parsing of names and addresses.
- The JavaScript files of the repository (`html/doc`) are the search and navigation scripts
  of the pages that doxygen has generated from the sources. They are no part of the program's
  behaviour, so no definition models a line of them; the program itself is C, C++, Java and
  shell.
