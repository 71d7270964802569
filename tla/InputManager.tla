---------------------------- MODULE InputManager ----------------------------
(***************************************************************************)
(* input/input_manager.cpp: the worker thread that reads key events from   *)
(* the devices under /dev/input, the timer thread that repeats a key which *)
(* is held (ENABLE_VIRUTAL_REPEAT_KEY), the pipe both write to, and the    *)
(* event loop's thread, which reads it.                                    *)
(*                                                                         *)
(* mRepeatTimer is a TimerThread; it is used here through what its module  *)
(* proves of it, AbstractTimer.  A key stands for the code that            *)
(* convert_key_code_from_map() makes of a device's raw code.               *)
(***************************************************************************)
EXTENDS Integers, Sequences, FiniteSets

CONSTANTS
  Keys, Devices,
  None,          \* the key code -1
  MaxPlugs,      \* bound: how often devices are plugged in or out
  MaxEvents,     \* bound: the key events the kernel holds for a device
  MaxPipe        \* how many messages the pipe holds (8192 in a real one)

States == {"RELEASED", "PRESSED", "REPEATED"}
\* KEYCODE_UNKNOWN, the code of every key without a mapping, is -1 as well.
Codes == Keys \cup {None}
Messages == Codes \X States

ASSUME InputAssumption ==
  /\ None \notin Keys \cup Devices \cup Messages
  /\ MaxPlugs \in Nat /\ MaxEvents \in Nat \ {0} /\ MaxPipe \in Nat \ {0}

VARIABLES
  present,       \* per device: the number of its current plug, 0 if unplugged
  plugs,         \* how many plugs and unplugs there were
  held,          \* per device: the keys that are down
  events,        \* per device: the key events not read yet
  inotify,       \* the inotify events not read yet
  mInputDevices, \* the device list: <<device, plug its descriptor is open on>>
  unscanned,     \* the devices scanInputDevice() has still to look at
  polled,        \* what the worker's select() found readable
  pos,           \* where the worker is in mInputDevices
  pc,            \* where the worker is
  event,         \* the last press or release the worker took, its keyValue
  sent,          \* the keyValue it is about to write
  mLastKeyCode,
  timer, mRepeat,\* the state of mRepeatTimer, see AbstractTimer
  handler,       \* what onTimerExpired() does next, if it runs: "test" and
                 \* "read" mLastKeyCode, "write" what it has read
  keyValue,      \* the code it has read, its local keyValue[0]
  pipe,          \* the messages in mPipe
  pressed        \* history: the keys whose press the worker has taken since
                 \* the last release

kernel == <<present, plugs, held, events>>
worker == <<polled, pos, pc, event, sent>>
keys == <<mLastKeyCode, pressed>>
expired == <<handler, keyValue>>
repeatTimer == <<timer, mRepeat, expired>>
vars == <<kernel, inotify, mInputDevices, unscanned, worker, keys, repeatTimer,
          pipe>>

\* Where the worker is in the operations of mRepeatTimer.
User == CASE pc = "start"             -> "rearm"
          [] pc \in {"arm", "assign"} -> "start"
          [] pc = "stop"              -> "stop"
          [] OTHER -> IF event # None /\ event[2] = "PRESSED" THEN "started"
                                                             ELSE "stopped"

Repeat == INSTANCE AbstractTimer
            WITH state <- timer, repeat <- mRepeat, user <- User

TypeOK ==
  /\ present \in [Devices -> 0..MaxPlugs + 1] /\ plugs \in 0..MaxPlugs
  /\ held \in [Devices -> SUBSET Codes]
  /\ events \in [Devices -> Seq(Messages)]
  /\ inotify \in Seq({"CREATE", "DELETE"} \X Devices)
  /\ mInputDevices \in Seq(Devices \X (1..MaxPlugs + 1))
  /\ unscanned \subseteq Devices
  /\ polled \subseteq Devices /\ pos \in Nat
  /\ pc \in {"watch", "scan", "select", "walk", "start", "arm",
            "assign", "stop", "write"}
  /\ event \in Messages \cup {None} /\ sent \in Messages \cup {None}
  /\ mLastKeyCode \in Codes
  /\ timer \in {"off", "armed", "firing", "spent"}
  /\ mRepeat \in BOOLEAN
  /\ handler \in {"test", "read", "write"} /\ keyValue \in Codes
  /\ pipe \in Seq(Messages)
  /\ pressed \subseteq Codes

Init ==
  /\ present \in [Devices -> {0, 1}]
  /\ plugs = 0
  /\ held = [d \in Devices |-> {}]
  /\ events = [d \in Devices |-> <<>>]
  /\ inotify = <<>>
  /\ mInputDevices = <<>>
  /\ unscanned = {}
  /\ polled = {} /\ pos = 0
  /\ pc = "watch"
  /\ event = None /\ sent = None
  /\ mLastKeyCode = None
  /\ timer = "off" /\ mRepeat = FALSE
  /\ handler = "test" /\ keyValue = None
  /\ pipe = <<>> /\ pressed = {}

Listed(d) == \E i \in 1..Len(mInputDevices) : mInputDevices[i][1] = d

----------------------------------------------------------------------------
(* The kernel *)

\* inotify reports what happens under /dev/input once the watch is there.
Notify(what, d) ==
  inotify' = IF pc = "watch" THEN inotify ELSE Append(inotify, <<what, d>>)

PlugIn(d) ==
  /\ present[d] = 0 /\ plugs < MaxPlugs
  /\ plugs' = plugs + 1
  /\ present' = [present EXCEPT ![d] = plugs' + 1]
  /\ Notify("CREATE", d)
  /\ UNCHANGED <<held, events, mInputDevices, unscanned, worker, keys,
                 repeatTimer, pipe>>

\* The keys that are down and the events not read are lost with the device.
PlugOut(d) ==
  /\ present[d] # 0 /\ plugs < MaxPlugs
  /\ plugs' = plugs + 1
  /\ present' = [present EXCEPT ![d] = 0]
  /\ held' = [held EXCEPT ![d] = {}]
  /\ events' = [events EXCEPT ![d] = <<>>]
  /\ Notify("DELETE", d)
  /\ UNCHANGED <<mInputDevices, unscanned, worker, keys, repeatTimer,
                 pipe>>

\* A key goes down or up, or the kernel repeats it.
KeyEvent(d, k, state) ==
  /\ present[d] # 0 /\ Len(events[d]) < MaxEvents
  /\ (state = "PRESSED") <=> (k \notin held[d])
  /\ held' = [held EXCEPT ![d] = IF state = "RELEASED" THEN @ \ {k} ELSE @ \cup {k}]
  /\ events' = [events EXCEPT ![d] = Append(@, <<k, state>>)]
  /\ UNCHANGED <<present, plugs, inotify, mInputDevices, unscanned, worker,
                 keys, repeatTimer, pipe>>

----------------------------------------------------------------------------
(* The constructor: the watch first, then scanInputDevice(), then start() *)

AddWatch ==
  /\ pc = "watch"
  /\ pc' = "scan"
  /\ unscanned' = Devices
  /\ UNCHANGED <<kernel, inotify, mInputDevices, polled, pos, event, sent,
                 keys, repeatTimer, pipe>>

\* Mutant of Added: the list is not searched for the device.
AddedTwice(list, d) ==
  IF present[d] = 0 THEN list ELSE Append(list, <<d, present[d]>>)

\* addInputDevice(): a device that is listed is left alone, one that cannot
\* be opened (it is gone again) is skipped.
Added(list, d) ==
  IF present[d] = 0 \/ \E i \in 1..Len(list) : list[i][1] = d THEN list
  ELSE Append(list, <<d, present[d]>>)

\* removeInputDevice(): the first device of that name.
Removed(list, d) ==
  IF \A i \in 1..Len(list) : list[i][1] # d THEN list
  ELSE LET i == CHOOSE i \in 1..Len(list) :
                  list[i][1] = d /\ \A j \in 1..i-1 : list[j][1] # d
       IN  SubSeq(list, 1, i - 1) \o SubSeq(list, i + 1, Len(list))

Scan(d) ==
  /\ pc = "scan"
  /\ d \in unscanned
  /\ unscanned' = unscanned \ {d}
  /\ mInputDevices' = Added(mInputDevices, d)
  /\ UNCHANGED <<kernel, inotify, worker, keys, repeatTimer, pipe>>

Scanned ==
  /\ pc = "scan" /\ unscanned = {}
  /\ pc' = "select"
  /\ UNCHANGED <<kernel, inotify, mInputDevices, unscanned, polled, pos, event,
                 sent, keys, repeatTimer, pipe>>

----------------------------------------------------------------------------
(* run() *)

\* An inotify event is handled, and select() is called again.  (One read()
\* may return several of them; the next select() returns the rest at once.)
HandleNotify ==
  LET what == Head(inotify)[1]
      d    == Head(inotify)[2]
  IN
  /\ pc = "select" /\ inotify # <<>>
  /\ inotify' = Tail(inotify)
  /\ mInputDevices' = IF what = "CREATE" THEN Added(mInputDevices, d)
                                         ELSE Removed(mInputDevices, d)
  /\ UNCHANGED <<kernel, unscanned, worker, keys, repeatTimer, pipe>>

\* A listed device is readable when it has events, or is gone (ENODEV).
Readable(i) ==
  LET d == mInputDevices[i][1]
  IN  present[d] # mInputDevices[i][2] \/ events[d] # <<>>

SelectDevices ==
  LET ready == {i \in 1..Len(mInputDevices) : Readable(i)} IN
  /\ pc = "select" /\ inotify = <<>> /\ ready # {}
  /\ polled' = {mInputDevices[i][1] : i \in ready}
  /\ pos' = 1
  /\ pc' = "walk"
  /\ UNCHANGED <<kernel, inotify, mInputDevices, unscanned, event, sent,
                 keys, repeatTimer, pipe>>

AtDevice(d) ==
  pc = "walk" /\ pos <= Len(mInputDevices) /\ d = mInputDevices[pos][1]

\* Nothing to read from this device, or read() fails.
SkipDevice(d) ==
  /\ AtDevice(d)
  /\ d \notin polled \/ present[d] # mInputDevices[pos][2]
  /\ pos' = pos + 1
  /\ UNCHANGED <<kernel, inotify, mInputDevices, unscanned, polled, pc, event,
                 sent, keys, repeatTimer, pipe>>

\* One event is read; presses and releases go by way of the repeat timer.
TakeEvent(d) ==
  LET e == Head(events[d]) IN
  /\ AtDevice(d)
  /\ d \in polled /\ present[d] = mInputDevices[pos][2]
  /\ events[d] # <<>>
  /\ events' = [events EXCEPT ![d] = Tail(@)]
  /\ sent' = e
  /\ event' = IF e[2] = "REPEATED" THEN event ELSE e
  /\ pc' = CASE e[2] = "PRESSED"  -> "start"
             [] e[2] = "RELEASED" -> "stop"
             [] OTHER             -> "write"
  /\ pressed' = IF e[2] = "PRESSED" THEN pressed \cup {e[1]} ELSE pressed
  /\ UNCHANGED <<present, plugs, held, inotify, mInputDevices, unscanned,
                 polled, pos, mLastKeyCode, repeatTimer, pipe>>

EndOfWalk ==
  /\ pc = "walk" /\ pos > Len(mInputDevices)
  /\ pc' = "select"
  /\ polled' = {} /\ pos' = 0
  /\ UNCHANGED <<kernel, inotify, mInputDevices, unscanned, event, sent,
                 keys, repeatTimer, pipe>>

\* mRepeatTimer.start(700, true), once its stop() has brought the timer to
\* "off" (StopTimer), sets mRepeat and creates the timer's thread.
SetRepeat ==
  /\ pc = "start"
  /\ pc' = "arm"
  /\ UNCHANGED <<kernel, inotify, mInputDevices, unscanned, polled, pos, event,
                 sent, keys, expired, pipe>>
  /\ Repeat!Reset(TRUE)

StartTimer ==
  /\ pc = "arm"
  /\ pc' = "assign"
  /\ UNCHANGED <<kernel, inotify, mInputDevices, unscanned, polled, pos, event,
                 sent, keys, expired, pipe>>
  /\ Repeat!Arm

\* start() has returned; mLastKeyCode = keyValue[0].  The timer runs already.
AssignKey ==
  /\ pc = "assign"
  /\ mLastKeyCode' = sent[1]
  /\ pc' = "write"
  /\ UNCHANGED <<kernel, inotify, mInputDevices, unscanned, polled, pos, event,
                 sent, pressed, expired, pipe>>
  /\ Repeat!StartReturns

\* Mutant of ClearKey: the key is cleared while stop() is still at work.
ClearKeyEarly ==
  /\ pc = "stop"
  /\ mLastKeyCode' = None /\ pressed' = {}
  /\ pc' = IF timer = "off" THEN "write" ELSE "stop"
  /\ UNCHANGED <<kernel, inotify, mInputDevices, unscanned, polled, pos, event,
                 sent, repeatTimer, pipe>>

\* Mutant of ClearKey: nobody waits for the timer's thread to end.
ClearKeyUnjoined ==
  /\ pc = "stop"
  /\ mLastKeyCode' = None /\ pressed' = {}
  /\ pc' = "write"
  /\ UNCHANGED <<kernel, inotify, mInputDevices, unscanned, polled, pos, event,
                 sent, repeatTimer, pipe>>

\* Mutant of ClearKey: the key of the last press is left where it is.
KeepKey ==
  /\ pc = "stop"
  /\ pressed' = {}
  /\ pc' = "write"
  /\ UNCHANGED <<kernel, inotify, mInputDevices, unscanned, polled, pos, event,
                 sent, mLastKeyCode, expired, pipe>>
  /\ Repeat!StopReturns

\* mRepeatTimer.stop() has returned; mLastKeyCode = -1.
ClearKey ==
  /\ pc = "stop"
  /\ mLastKeyCode' = None /\ pressed' = {}
  /\ pc' = "write"
  /\ UNCHANGED <<kernel, inotify, mInputDevices, unscanned, polled, pos, event,
                 sent, expired, pipe>>
  /\ Repeat!StopReturns

\* write(mPipe[1]); it blocks while the pipe is full.
WriteKey ==
  /\ pc = "write" /\ Len(pipe) < MaxPipe
  /\ pipe' = Append(pipe, sent)
  /\ sent' = None
  /\ pos' = pos + 1
  /\ pc' = "walk"
  /\ UNCHANGED <<kernel, inotify, mInputDevices, unscanned, polled, event,
                 keys, repeatTimer>>

----------------------------------------------------------------------------
(* mRepeatTimer and onTimerExpired() *)

others == <<kernel, inotify, mInputDevices, unscanned, worker, keys>>

\* stop(), of a release or of the start() for a press, waits for the timer's
\* thread: it heeds the stop when no handler is running, and is joined.
StopTimer ==
  /\ UNCHANGED <<others, expired, pipe>>
  /\ Repeat!Cancel \/ Repeat!Off

TimerExpires == UNCHANGED <<others, expired, pipe>> /\ Repeat!Fire

\* mLastKeyCode == -1: nothing to repeat.
NoKeyToRepeat ==
  /\ handler = "test" /\ mLastKeyCode = None
  /\ UNCHANGED <<others, expired, pipe>>
  /\ Repeat!Rearm

CheckKey ==
  /\ timer = "firing" /\ handler = "test"
  /\ mLastKeyCode # None
  /\ handler' = "read"
  /\ UNCHANGED <<others, timer, mRepeat, keyValue, pipe>>

\* mLastKeyCode is read a second time, into a local variable.
ReadKey ==
  /\ handler = "read"
  /\ keyValue' = mLastKeyCode
  /\ handler' = "write"
  /\ UNCHANGED <<others, timer, mRepeat, pipe>>

\* write(mPipe[1]), any time after the read; it blocks while the pipe is full.
RepeatKey ==
  /\ handler = "write" /\ Len(pipe) < MaxPipe
  /\ pipe' = Append(pipe, <<keyValue, "REPEATED">>)
  /\ handler' = "test" /\ keyValue' = None
  /\ UNCHANGED others
  /\ Repeat!Rearm

----------------------------------------------------------------------------
(* The event loop's thread *)

\* Mutant of Dispatch: the listeners need a lock the worker holds as well.
DispatchLocked ==
  /\ pc \in {"watch", "scan", "select"} /\ pipe # <<>>
  /\ pipe' = Tail(pipe)
  /\ UNCHANGED <<others, repeatTimer>>

\* onFdReadable() reads one message (whole: 8 bytes are written at once) and
\* calls the listeners.
Dispatch ==
  /\ pipe # <<>>
  /\ pipe' = Tail(pipe)
  /\ UNCHANGED <<others, repeatTimer>>

----------------------------------------------------------------------------

Kernel ==
  \E d \in Devices : \/ PlugIn(d) \/ PlugOut(d)
                     \/ \E k \in Codes, s \in States : KeyEvent(d, k, s)

WorkerStep ==
  \/ AddWatch \/ Scanned \/ HandleNotify \/ SelectDevices \/ EndOfWalk
  \/ \E d \in Devices : Scan(d) \/ SkipDevice(d) \/ TakeEvent(d)
  \/ SetRepeat \/ StartTimer \/ AssignKey \/ ClearKey \/ WriteKey

TimerStep == NoKeyToRepeat \/ CheckKey \/ ReadKey \/ RepeatKey

Next == Kernel \/ WorkerStep \/ StopTimer \/ TimerExpires \/ TimerStep \/ Dispatch

Spec == Init /\ [][Next]_vars

\* The threads run, and stop() of the timer returns however often the timer
\* fires meanwhile (TimerThread's TimerStopReturns).
Fairness ==
  /\ WF_vars(WorkerStep)
  /\ SF_vars(WriteKey)
  /\ SF_vars(StopTimer)
  /\ WF_vars(TimerStep)
  /\ SF_vars(RepeatKey)
  /\ WF_vars(Dispatch)

FairSpec == Spec /\ Fairness

----------------------------------------------------------------------------
(* Properties *)

\* Once the timer's stop() has returned for a release, no REPEATED follows
\* the RELEASED into the pipe: listeners never see a released key repeated.
NoRepeatAfterRelease ==
  [][RepeatKey => event[2] = "PRESSED" \/ pc = "stop"]_vars

\* mLastKeyCode has no lock: a release still never changes it between the
\* handler's two reads, so that -1 is not repeated in its stead.
ReleaseWaitsForHandler ==
  [][handler = "read" /\ mLastKeyCode' # mLastKeyCode => event[2] = "PRESSED"]_vars

\* What the handler is about to write, however long ago it read it, is a key
\* pressed since the last release: the timer runs before mLastKeyCode is
\* assigned, so an older key that is still down may be repeated after the
\* PRESSED of the next, but no key from before a release ever is.
RepeatsOnlyPressedKeys == handler = "write" => keyValue \in pressed

\* Whatever is plugged in and out, also while the constructor scans, once the
\* inotify events are handled the list holds exactly the devices there are,
\* each open on its current plug, and none twice.
DevicesInSync ==
  pc = "select" /\ inotify = <<>> =>
    /\ \A d \in Devices : Listed(d) <=> present[d] # 0
    /\ \A i, j \in 1..Len(mInputDevices) :
         /\ mInputDevices[i][2] = present[mInputDevices[i][1]]
         /\ mInputDevices[i][1] = mInputDevices[j][1] => i = j

\* What the list of devices owes its truth to: an entry that is open on an old
\* plug has its DELETE still to come, the last event of a device tells whether
\* it is there, and a device with none to come has been found.
Reported(d) == \E k \in 1..Len(inotify) : inotify[k][2] = d

OldIsReported ==
  \A i \in 1..Len(mInputDevices) :
    \/ mInputDevices[i][2] = present[mInputDevices[i][1]]
    \/ \E k \in 1..Len(inotify) : inotify[k] = <<"DELETE", mInputDevices[i][1]>>

LastReportIsTrue ==
  \A k \in 1..Len(inotify) :
    (\A j \in k+1..Len(inotify) : inotify[j][2] # inotify[k][2]) =>
      (inotify[k][1] = "CREATE" <=> present[inotify[k][2]] # 0)

Found ==
  \A d \in Devices \ unscanned :
    pc # "watch" /\ ~Reported(d) /\ present[d] # 0 => Listed(d)

ListedOnce ==
  \A i, j \in 1..Len(mInputDevices) :
    mInputDevices[i][1] = mInputDevices[j][1] => i = j

Scanning ==
  /\ pc = "watch" => inotify = <<>> /\ mInputDevices = <<>>
  /\ pc # "scan" => unscanned = {}

\* What the repeat of keys owes its end to: the timer is off from the end of a
\* release to the next press, and the worker has the press in hand until the
\* key is assigned.
InHand ==
  /\ pc \in {"start", "arm", "assign", "stop", "write"} => sent # None
  /\ pc \in {"start", "arm", "assign"} => sent = event /\ event[2] = "PRESSED"
  /\ pc = "stop" => event # None /\ event[2] = "RELEASED"
  /\ event = None \/ event[2] \in {"PRESSED", "RELEASED"}

Repeating ==
  /\ handler # "test" => timer = "firing"
  /\ pc = "arm" => timer = "off"
  /\ event = None \/ event[2] = "RELEASED" => timer = "off" \/ pc = "stop"
  /\ event # None /\ event[2] = "PRESSED" /\ pc \notin {"start", "arm", "assign"}
       => mLastKeyCode = event[1]
  /\ mLastKeyCode # None \/ handler = "read" => mLastKeyCode \in pressed
  /\ pc \in {"start", "arm", "assign"} => sent[1] \in pressed
  /\ RepeatsOnlyPressedKeys

\* The inductive invariant.
InputInv ==
  /\ TypeOK
  /\ Scanning /\ ListedOnce /\ OldIsReported /\ LastReportIsTrue /\ Found
  /\ DevicesInSync
  /\ InHand /\ Repeating

\* The worker always gets back to select(), although it waits for a timer
\* thread that may itself wait for room in the pipe.
WorkerComesBack == pc = "walk" ~> pc = "select"
=============================================================================
