# MyDirectFB: TLA+ models, checks and proofs

MyDirectFB is a small C++ framework for set-top boxes: an event loop with timers
and watched descriptors, worker threads, a key input manager, DirectFB windows
behind asynchronous requests, and managers for the network, USB, Wi-Fi, SSDP and
GPIO. This directory holds TLA+ modules translated from its source, TLC
configurations that check them on small instances, and TLAPS proofs for every
value of the constants. `PROJECT.json` maps every definition to the lines it
models.

Contents: [system](#the-system) - [modules](#the-modules) -
[runs](#the-runs) - [bounds](#bounds-and-assumptions) - [fairness](#fairness) -
[proofs](#what-is-proved) - [findings](#where-code-and-text-disagree) -
[known limits](#behaviour-outside-the-assumptions) -
[plan](#the-plan)

## The system

Threads: the main thread calls `EventLoop::loop()` until it returns false
(`main.cpp`). `InputManager`, `IRQ` and every `TimerThread` are `Task`s with a
thread of their own. `NetlinkManager`, `USB_HotplugManager`, `SSDP`, its `WEB`,
`WifiManager`, the input manager's key pipe and the containers' request pipe are
watchers of the event loop and run on the main thread, as do the `Timer`s of
`SSDP` and `NetlinkManager`. What other threads want from the main thread goes
through pipes: `EventLoop::wakeup()`, the key pipe, the request pipe.

| Component (source) | State | Operations | What is hard | What makes it correct |
|---|---|---|---|---|
| Task (`base/task`, `mutex`, `cond_var`) | `mState`, `mId`, mutex, condition variable | `start`, `stop`, `sleep`, `wakeup`, thread procedure | the mutex is given up around `pthread_join()`; the worker runs before `start()` is done | one worker at most, joined exactly once; `stop()` returns; life cycle |
| TimerThread (`base/timer_thread`) | `mExitTask`, `mRepeat`, a Task | `start`, `stop`, `run` | `stop()` against a handler about to run | no handler between the return of `stop()` and the next `start()`; a start is never refused |
| EventLoop, Timer (`base/event_loop`, `timer`) | timer list, watcher list, wakeup pipe; four fields per timer | `addTimer`, `removeTimer`, `start`, `stop`, `restart`, `setInterval`, `setRepeat`, watchers, `loop`, `terminate` | other threads change the list while the loop computes its timeout; handlers change it while it is walked | no lost timer, none twice, no oversleep, no callback without data, `terminate()` ends it |
| ByteBuffer (`utils/byte_buffer`) | ring, indices, size, EOS flag, two condition variables | `Write`, `Read`, `SetEOS`, `Flush` | wrap-around; waits that are an `if`, one signal per call | a FIFO stream; the right thread is woken |
| InputManager (`input/`) | device list, `mLastKeyCode`, repeat timer, key pipe | `run`, `onTimerExpired`, `onFdReadable`, device scan, inotify | three threads share `mLastKeyCode` and the pipe without a lock; hotplug during the scan | no repeat of a released key; list equals the devices; no deadlock |
| Container, Window (`ui/directfb/`) | `mVisible`, `mFocused`, `mWindow`, `mWidgetList`, request pipe | `show`, `hide`, `requestFocus`, `sendMessage`, `addWidget`, `removeWidget`, window creation, painting and deletion | requests in unframed pieces; lazily created windows that may fail; drawing while there is no window yet | requests are read as posted; screen equals the visible containers; a window appears complete; callbacks in order |
| NetlinkManager, USB_HotplugManager (`core/`) | listener vectors, a socket each | `addListener`, `removeListener`, `onFdReadable` | listeners that change the list while it is walked; a size read before the walk | each due listener called once, in order, and none beyond the list |
| SSDP, WEB (`net/ssdp/`) | two sockets, a client's connection, a `Timer` | `start`, `stop`, `onFdReadable`, `onTimerExpired` | a start that fails half-way; descriptor numbers that are reused | watched numbers are open and one's own; a stop leaves nothing behind and closes nobody else's descriptor |
| Wi-Fi (`wifi/`) | two supplicant connections, listener list | `enable`, `disable`, events, commands | the second connection or the attach fails; a command's answer that comes after its timeout; events without a type | one watcher, on an open connection; a command's result is its own; each typed event dispatched |
| IRQ (`hw/irq`) | value file, request pipe, `mExitTask`, a Task | `start`, `stop`, `enable`, `disable`, `run` | stop bytes and requests that outlive the worker | the file is open while it is polled; the last request decides; `stop()` returns; an edge is served |
| GPIO, StepMotor (`hw/`) | none over time | sysfs reads and writes | | |
| Parcel (`utils/parcel`) | block, position, size, capacity | `write*`, `read*`, `rewind`, `reset`, `send`, `recv` | one position for reads and writes; a byte stream with no message boundaries, read in pieces; calls that fail between two pieces | what is read is what was written, message by message; a string ends inside its parcel; `recv()` returns |
| Values and utilities (`popen2`, `id_gen`, `ini`, `key_value`, `trim`, `netutil`, image, font, colour, geometry, `dfb_manager`, log, `sys_time`, `main`) | none over time, or one thread's | | | |

Interactions: `TimerThread` is a `Task` and calls its `start()`, `stop()`,
`sleep()`; `IRQ` is a `Task` and fills in its hooks `onPreStart()`,
`onPreStop()`, `onPostStop()`. `InputManager` owns a `TimerThread`. `Timer`s live
in the `EventLoop`'s list and run on its thread; every watcher's `getFD()` and
`onFdReadable()` are called by `EventLoop::loop()`, and a closed descriptor among
them makes `select()` fail and `main()` end. The managers call listeners that the
application registers, and these may call back into the manager.

## The modules

| Module | Models | Relation to others |
|---|---|---|
| `Task` | `Task` with any number of owners; `run()` is left generic | - |
| `TaskTurns` | no code: remembers in `overlap` whether two owners' calls have overlapped | EXTENDS `Task` |
| `AbstractTimer` | what a timer with its own thread promises the thread that uses it, which learns from the return of `stop()` that there is no timer any more | - |
| `LoopTask` | the loop on `mExitTask` that `TimerThread` and `IRQ` run | EXTENDS `Task` |
| `TimerThread` | `TimerThread` | EXTENDS `LoopTask`; implements `AbstractTimer` |
| `EventLoop` | `EventLoop` and `Timer`, the loop thread and client threads | - |
| `AbstractStream` | a bounded FIFO of bytes with an end flag | - |
| `ByteBuffer` | the ring buffer | implements `AbstractStream` |
| `InputManager` | worker, repeat timer, event loop's thread, kernel | composes with `AbstractTimer`, which stands for the `TimerThread` it owns |
| `AbstractContainer` | the order of a container listener's callbacks | - |
| `Container` | containers, windows, widgets, the request pipe | implements `AbstractContainer` |
| `Irq` | `IRQ`: owner, worker and the kernel's edges | EXTENDS `LoopTask`; its steps are `Task`'s (`IrqIsATask`) |
| `Listeners` | the four listener lists and their walks; which supplicant message becomes which event | - |
| `Services` | SSDP, WEB and the Wi-Fi connections on one descriptor table; the supplicant's commands and late answers | - |
| `AbstractParcel` | sequences of fields with a position, and a channel of whole messages | - |
| `Parcel` | two parcels, their blocks, and the pipe between `send()` and `recv()` | implements `AbstractParcel` |
| `TaskProofs`, `ByteBufferProofs`, `EventLoopProofs`, `InputManagerProofs`, `ContainerProofs`, `ServicesProofs`, `ListenersProofs`, `ParcelProofs` | theorems | EXTEND the module they are named after; `TaskProofs` extends `TaskTurns`, `TimerThread` and `Irq`, which share `LoopTask` |
| `MC*` | model values and symmetry for TLC | EXTEND the module they are named after; `MCTask` extends `TaskTurns` |

**How state and actions correspond to the code.** Variables keep the members'
names (`mState`, `mTimers`, `mLastKeyCode`...). A step is the code between two
points at which another thread can do something that matters: a lock it may wait
for, an unlock, a join, a read or write of a pipe, an unlocked access to shared
state. Code under one lock is one step; a lock that is held across another
thread's step is a variable (`mMutex`, `mTimerLock`). A label (`pc`, `loop.at`)
names where a thread stands.

- `Task`: `start()` is `StartRefused`, `StartStopped` (unlock and the nested
  `stop()`), `StartFails`, `Create`, `Started`; `stop()` is `StopIgnored`,
  `StopSignals`, `StopNoThread`, `JoinBegins`, `Joined`, `StopEnds`. Between
  `Create` and `Started` the mutex is held while the new thread already runs.
  `mId` is read for the join after the unlock, as in the code. `Timeout` is the
  sleep's end, a spurious wakeup, or a `wakeup()` from elsewhere. Joining no
  thread, or one that is joined, is undefined; the model takes ESRCH.
- `TimerThread`: `start()` is `TimerStart` (the `stop()` it begins with), Task's
  steps, `TimerArms`, and Task's steps again. `call` says which operation the owner
  is inside or has returned from, so that `AbstractTimer`'s `StopReturns` is the
  last step of `Task::stop()`. The length of a sleep is open.
- `EventLoop`: a call of the timer API is a short program (`todo[p]`) of list
  changes and wakeup bytes, the same on a client's thread and in a handler.
  `runTimers()` is `RunTimer` up to the handler, `HandlerReturns` from its return to
  the writing of `mExpiry` or `mRunning`, and `ExecuteReturns` from `execute()`'s
  second read of `mRepeat` on. `mTimerLock` is held from the first to the last, and
  between the last two another thread's `start()` already finds `mRunning` cleared
  (`timer.cpp:30`, `82`, `84`). `Timeout` is the conversion of
  the 64-bit difference to `int32_t` and its clamping. Time is relative:
  `left[t]` is `mExpiry - now`. `setInterval()` and `setRepeat()` change a timer
  that may be listed, or be the one whose handler runs.
- `ByteBuffer`: every call holds the lock except in `pthread_cond_wait()`, so it
  is one step before the wait and one after. The module keeps that the waits are
  not loops, that a read waits even when there is data, and that a write after an
  early wakeup may copy nothing.
- `InputManager`: `run()` is `HandleNotify`, `SelectDevices`, the walk
  (`SkipDevice`, `TakeEvent`, `EndOfWalk`) and, for a press or release, the steps
  of the repeat timer's `start()` or `stop()`, the unlocked write of
  `mLastKeyCode`, and the write to the pipe. `onTimerExpired()` is `CheckKey`,
  `ReadKey` and `RepeatKey`, because it reads `mLastKeyCode` twice, the second time
  into a local (`keyValue`) that it may write to the pipe much later.
- `Container`: a request is the sequence of values written one by one. `_show()`
  and `_hide()` are split at the listener's callbacks. `onScreen` is what
  DirectFB shows; `left` a DirectFB window whose object was deleted. While a window is
  new, `surface` is what has been drawn on its two buffers: `CreateWindow` is
  `new Window()` with the first `onCreate()`, `Created` the `clear()` and the
  second one, then `PaintWidgets` and `Update`, whose `Flip()` shows it. From the
  end of `_show()` on, the pixels are the application's and no longer tracked.
- `Irq`: `start()` and `stop()` are Task's steps joined with the hook that runs in
  them: `IrqCreate` is `Create` with `onPreStart()`, `IrqStopSignals` is
  `StopSignals` with `onPreStop()`, `IrqStopEnds` is `StopEnds` with
  `onPostStop()`. `run()` is `Begin`, then in turns `Check` (the flag), `Poll`
  (`PollTimesOut`, `PollFails`), `Command` (a request) or `Interrupt`, the
  handler, and `Ack`. `onPreStop()` sets the flag and writes the byte in one
  step: a worker that reads the flag or polls between the two does what it could
  have done before or after both.
- `Listeners`: one manager of the four is chosen initially. `at` tells whether
  the loop's thread is between two walks, between two messages of a netlink
  datagram, between two calls, or in a listener, which may change the list
  `MaxOps` times. `due` and `called` record what the walk owes and has done.
  The key listeners' mutex lets no other thread in between, so their changes
  from other threads are those between two walks. `WifiMessages`, `EventType`
  and `Extra` are the supplicant's messages by prefix and name and what
  `WifiEvent` makes of them; an event without a type is not delivered. The
  properties are about who is called, so they look at no event's type or data.
- `Services`: `table` is the process's descriptor table, and an `open()` gets the
  lowest free number. Each call that may fail is a pair of actions, and between
  two of them other threads open and close descriptors of their own. What a
  member keeps after a failure (a number already closed) is kept. `owed` is the
  queue of answers that the supplicant sends to commands whose `sendCommand()`
  timed out; `wpa_ctrl_request()` returns the first answer there is. Every
  `p2p...()` is one command (`CommandAnswered`, `CommandTimesOut`, `CommandFails`),
  `setWfdInfo()` two. A `sendto()` counts as sent whether it fails or not
  (`ssdp.cpp:276` only logs it).
- `Parcel`: a value is its bytes in memory, a block a sequence of bytes and of
  `Junk`, which is what `malloc()` leaves there. `Write` is the six `write...()`
  with `growData()`; `send()` is `SendBegins`, `WriteHeader`, `WriteData` (a piece
  of any length) and `SendReturns` or `SendFails`; `recv()` likewise. `readString()`
  calls `strlen()` before it looks at the size: where no 0 is left in the parcel
  (`Unended`, an empty parcel among them), `ReadString` is the refusal that follows if
  `strlen()` finds a 0 outside, and `StringFaults` the fault if it does not. `fields`,
  `at` and `channel` are history variables and the image under the refinement.

## The runs

| Run | Question | Properties |
|---|---|---|
| `task` | do two owners who take turns keep the worker under control, and what is left when their calls overlap? | `StartOwnsItsWorker` (STOPPED is never overwritten by a late RUNNING, overlapping calls or not); `OneWorkerByTurns`, `TurnsInv` (the inductive invariant) and `StopReturns` until the first overlap |
| `timer_thread` | does a timer thread keep an `ITimer`'s promise? | `KeepsPromise` (implements `AbstractTimer`), `TimerInv` (the inductive invariant), `StartedTimerFires`, `TimerStopReturns` |
| `event_loop_timers` | one client and the handlers use two timers, and change their interval and mode, while the loop runs and time passes | `LoopInv` (the inductive invariant, with `RunningIffListed` and `SpinsOnlyForTimers`), `NoTimerTwice`, `FrontIsEarliest`, `NoOversleep` |
| `event_loop_watch` | watchers, a timer and `terminate()` under fairness | `CallbackHasData`, `DueTimerRuns`, `DataIsDispatched`, `TerminateEnds` |
| `event_loop_self_restart` | may a one-shot timer's handler start that timer again? | `NoTimerTwice`, violated |
| `byte_buffer` | a writer and a reader on a ring of three bytes | `BufferInv` (with `RingInv`), `IsAStream`, `WriterWaitsForSpace`, `NoWaitAtTheEnd` |
| `input_manager` | a device plugged in and out, two keys, all three threads | `InputInv` (the inductive invariant, with `DevicesInSync`), `RepeatsOnlyPressedKeys`, `NoRepeatAfterRelease`, `ReleaseWaitsForHandler`, `WorkerComesBack` |
| `container` | two containers shown, hidden, focused, sent messages, destroyed, with a widget that comes and goes | `ContainerInv` (the inductive invariant, with `Framed`, and `Settled`, which implies `ScreenInSync`), `AppearsPainted`, `KeepsProtocol`, `RequestsTakeEffect` |
| `irq` | an IRQ started, stopped, enabled and disabled at any time, while edges come | `IrqInv` (the inductive invariant, with `PollsOpenFile` and `EdgeFollowsRequests`), `IrqStopReturns`, `InterruptIsServed` |
| `listeners` | listeners that add and remove listeners while they are called | `CallsWhatIsDue`, `WalkInv` (the inductive invariant, with `PlaceIsValid`) |
| `services` | start, stop, enable and disable with every call failing in turn | `ServicesInv` (the inductive invariant, with `WatchedIsOwn`, `NothingLeftBehind` and `CommandsAreHonest`), `StrayOnlyAfterBindFailed` |
| `parcel` | do fields survive growth, the pipe's pieces and calls that fail? | `ParcelInv` (the inductive invariant, with `Holds` and `Wire`), `KeepsMessages` (implements `AbstractParcel`), `FaultsOnlyAtTheEnd`, `RecvEnds` |

A module's `TypeOK` is part of the invariant its first run checks (`TurnsInv`,
`LoopInv`, `BufferInv`, `InputInv`, `ContainerInv`, `IrqInv`, `WalkInv`,
`ServicesInv`, `ParcelInv`). Every property has a mutant in
`PROJECT.json`: a plausible bug in one mapped definition that makes the property
fail under the same configuration. Mutated definitions stand next to the one
they replace and are used by nothing else.

### What the properties say that the code does not make obvious

- `StopReturns` needs no timeout: `STOPPING` is written and signalled under the
  mutex the worker holds between its test and its wait.
- `KeepsPromise`: the user's side of `AbstractTimer` moves to "stopped" with the
  return of `stop()`, which its `StopReturns` allows only when the timer is "off", and
  `Arm` needs a `start()`. An implementation that only flags the worker in `stop()` and
  joins it in the next `start()` fails it (the mutant). It is the reason `InputManager` may touch `mLastKeyCode` without a
  lock around the timer's `stop()`; `ReleaseWaitsForHandler` is where that is used.
- `NoTimerTwice` and `FrontIsEarliest` are about the moment in which `execute()` has
  cleared `mRunning` of a timer that is still listed: its user may start it again from
  another thread, which moves the expiry of a listed timer without the lock. That is
  harmless as long as the timer stays a one-shot one, because `runTimers()` erases the
  old entry by its pointer before it sorts. If it becomes a repeating one just then
  (`Turns`), it is listed twice.
- `NoOversleep` allows for two honest lags: the thread that added a timer and
  has not written its wakeup byte, and the time the loop's own thread spent since
  it read the clock. Nothing else makes the loop late.
- `RepeatsOnlyPressedKeys` is not about `mLastKeyCode` but about the handler's copy of
  it, which may be written after the next key's PRESSED: an older key that is still
  down may then be repeated once more, but never one from before a release.
- `NoWaitAtTheEnd`: a reader waits also on a ring with data, and after the end of the
  stream no write comes that would wake it; only `SetEOS()`'s signal does.
- `DevicesInSync` depends on the order in the constructor: inotify first, the
  scan second. A device that is listed under the plug before, and plugged in
  again, is fixed by the DELETE that precedes its CREATE.
- `WorkerComesBack`: the worker joins the timer's thread, which may be blocked on
  the pipe the worker writes to; only the event loop's thread, which waits for
  neither, resolves it. One message of pipe is enough to meet the case.
- `Framed` holds although nothing frames the requests: each event's number of
  pieces is the same on both sides, and one thread posts.
- `EdgeFollowsRequests` spans workers: a stop leaves requests unread and a 'T'
  among them, and the next worker takes them up in order and skips the stale 'T'.
  `IrqStopReturns` needs the byte as well as the flag, and survives stale ones.
- `InterruptIsServed`: the value file's event is looked at before the pipe's, so
  requests that keep coming cannot hold up an interrupt.
- `CallsWhatIsDue` holds for netlink and USB only because the size is read once:
  a listener that adds listeners would otherwise be called with them, too.
- `StrayOnlyAfterBindFailed` names the one way to close a stranger's descriptor:
  `WEB::start()` closes its socket after a failed `bind()` or `listen()`, keeps
  the number, and `SSDP::start()` drops its result; `stop()` closes it again.
- `AppearsPainted` needs both calls of `onCreate()`: what the listener draws in the
  first is lost, because `mWindow` is assigned after `new Window()` returns.
- `CommandsAreHonest`: a command that returned 0 was carried out, on every
  connection where no earlier command timed out, and the connection it is sent on
  is open even after a `disable()` or an `enable()` that failed.
- `KeepsMessages` says that a sequence of four-byte lengths and bytes, taken from
  the pipe in pieces that ignore both, gives the receiver the sender's messages in
  order, and that a read behind the last field, if it returns, is refused without moving.
- `FaultsOnlyAtTheEnd`: the 0 that ends a string is still inside the block wherever
  `realloc()` moved it and however the pipe cut the message.
- `RecvEnds` excepts a sender that stops in the middle of a message: `read()` then
  returns 0 for ever, which the loop in `recv()` does not take for an end.

## Bounds and assumptions

| Bound | Value | Why it is enough |
|---|---|---|
| `Owners`, `Workers` | 2 (1 in `timer_thread`, `irq`), 2 | two owners overlap in every pair of operations; two thread ids let both create a worker, and an id is used again after its join; the invariants are proved for any number of both |
| `Timers`, `Intervals`, `WaitTime`, `Half` | 2 timers, 1..2 ticks, 2, 8 | two timers make every order of two expiries, with equal ones; intervals below and at the clamp; `TimerInfinite` beyond `Half` |
| `MaxCalls`, `MaxOps` | 2 per client, 1 per handler | start and stop, or stop and start, of a client against a handler |
| `MaxLag`, `MaxLate` | 1 tick busy, 1 late (0 in `event_loop_watch`) | one tick is what makes the clock read before a handler stale |
| `MaxPipe` (loop) | 1 to 3 bytes | replaces the 64 KiB of a pipe: no call begins with so many bytes unread |
| `Capacity`, `MaxLen` | 3, 2 | a request wraps, fits exactly, is cut, and both indices reach the capacity |
| `Keys`, `MaxPlugs`, `MaxEvents`, `MaxPipe` (input) | 2 and the unknown one, 2, 1, 1 | a key pressed while another is down; out and in again during the scan; an event lost with its device; a pipe that is full |
| `MaxPending`, `MaxPipe`, `Widgets` (container) | 2, 2 pieces, 1 | a message of four pieces never fits the pipe at once; one widget in one container and not in the other, moved between them and added in `onCreate()` |
| `Files`, `MaxPipe` (irq) | 2, 2 bytes | one file leaked by a failed start and one in use; a stale 'T' behind a request, before another 'T' |
| `Listener`, `MaxListed`, `MaxOps`, `MaxMessages` | 3, 4, 2, 2 | a vector holds a listener twice; a callback removes one and adds another; a walk begins after one that changed the list |
| `Numbers`, `MaxTries`, `MaxOwed` | 4, 2, 1 | SSDP, WEB and the two supplicant connections, or some of them and a client or other threads in the rest; a retry after each failure; one late answer is what shifts all that follow |
| `Fields`, `DefaultSize`, `MaxFields`, `MaxChannel`, `MaxData`, `PipeSize` (parcel) | 3 fields of 2 to 4 bytes, 4, 2, 2, 20, 6 bytes | a block of four bytes (256 in the code) holds two fields, grows at the second, or is larger from the first; bytes 0 and 255 inside values, strings and refused reads; a message longer than the room in the pipe; the next header behind an unread message |

The models assume what the repository's own callers do, and say so in the guard
or constant that does it:

- the threads that start and stop a task take turns (`overlap` is FALSE in
  `TaskTurns`; only `StartOwnsItsWorker` does without it), a timer thread has one
  owner (`SingleOwner` in the proofs), and a handler does not start or stop its
  own timer thread;
- each `Timer` is used by one thread (`Owner`; the loop's thread stands for all
  handlers and callbacks), and another
  thread does not change a timer's kind while the loop executes it, neither by
  `setRepeat()` nor by `start()` (`Turns`); a repeating timer's
  interval is not 0; watchers are added and removed on the
  loop's thread; a callback does not remove its own watcher nor add one that was
  removed in the same pass; no watcher is added twice (`Duplicates`);
- the handler of a one-shot timer leaves that timer alone, and does not turn one that
  it has moved in the list into a one-shot (`SelfRestart`); `event_loop_self_restart`
  shows what happens otherwise;
- intervals are below 2^30 ms, 12 days (`SmallIntervals` in the proofs): an expiry
  that is nearly one interval ahead gets another one added;
- `ByteBuffer_Flush()` is not called while a writer waits (`FlushAnytime`), and
  the liveness-like properties are for one writer and one reader;
- one thread posts to containers; a container is deleted while it is hidden and
  has no request in the pipe; `GetOpacity()` succeeds when a window exists;
- an IRQ has one owner, which also calls `enable()` and `disable()`, and the pipe
  has room for a stop's byte;
- no listener is removed while a vector is walked, and a listener of a list does
  not remove itself while it is called (`MayRemove`): both are undefined in the
  code. `addListener()` of the lists reads `*end()` when the listener is new; that
  is the list's own node and, in libstdc++, never equal to the listener;
- a parcel is written at its end only, never after `rewind()` or `send()` and never
  after `recv()`; the reader expects the kinds of fields that were written;
  `write()` to the pipe is complete unless it fails, and a header arrives whole
  (a pipe's writes of four bytes are atomic); a descriptor is given up after a
  `send()` or `recv()` that failed; no field of "bytes" has length 0; a block grows
  only below `MaxData`, where three times the size that `growData()` computes with
  is below 2^31 (`WidthAssumption`), so its 32-bit arithmetic does not overflow;
- a widget is in one container's list at most, and lists change on the loop's
  thread between two requests or in `onCreate()`;
- `GPIO::setEdge()` succeeds;
- SSDP is started when it is not started, stopped only after a `start()` that
  returned 0, and Wi-Fi enabled only when it is not. `SSDP::mSock` is not
  initialised before the first `start()` and nothing reads it until then.

## Fairness

Weak fairness stands for a scheduler that runs every thread that can run. What
goes beyond it:

- `Task`: strong fairness of `RunSleeps` and `RunHeeds` says that a subclass's
  `run()` comes back to `sleep()` and does not ignore `STOPPING` for ever. It is
  a demand on subclasses; `TimerThread` is checked without it. No timeout is
  assumed for `StopReturns`.
- `TimerThread`: threads that can run do, and handlers return (`ThreadsRun`). That is
  all `TimerStopReturns` gets; `StartedTimerFires` adds, as its hypothesis, that
  sleeps end (`SleepsEnd`).
- `EventLoop`: time passes (`Tick`), a call once begun goes on, and `select()` is
  not interrupted by a signal every time (`SF` of `ReadCommand`, `SelectReady`).
  No caller has to call.
- `InputManager`: `SF` of `StopTimer` is `TimerStopReturns`, checked in
  `timer_thread`; `SF` of the two pipe writes says that a blocked writer gets its
  turn when room appears again and again (writers queue in the kernel). Nobody
  has to press a key, and the timer need not fire.
- `Container`: a post that has begun ends and the loop runs. Nobody has to post.
- `Irq`: the owner's calls go on and the worker runs; handlers return. Neither
  `poll()`'s timeout nor an edge nor a request has to come.
- `Parcel`: a `send()` goes on while there is room in the pipe, a `recv()` while
  there is something in it. Nobody has to send. It runs with
  `CHECK_DEADLOCK FALSE` because both sides may give up.
- `Listeners` and `Services` state no liveness. `services` is run with
  `CHECK_DEADLOCK FALSE` because the model ends at the first `close()` that hits
  somebody else's descriptor; the event loop's runs because `terminate()` ends the
  loop; `input_manager` because keys and plugs are bounded.

## What is proved

All proofs are checked by TLAPS to the last leaf.

- **Task** (`TaskProofs`), for any `Owners` and `Workers`,
  with `None` outside both (`TaskAssumption`). `TurnsInvariant` (`TurnsInv`):
  until two owners' calls overlap, `TaskInv` holds. It says for every label of the
  owner inside and every value of `mState` where the worker is; `OneWorkerByTurns`,
  `InitMeansNoWorker`, `JoinsARealThread`, `WorkerSleepsInterruptibly` and the
  action property `LifeCycleByTurns` follow. None of them is inductive alone: that
  `pthread_join()` gets a real thread depends on what `mId` was when `stop()` let
  go of the mutex. `OwnerInv` and `WorkerInv` go through the actions and assume
  only `TakesTurns` in the state the step starts from, so that `Invariant` (one
  owner, used for the two components below) comes from the same lemmas.
  `StartKeepsItsWorker` (`StartOwnsItsWorker`) needs no turns: it follows from
  `SharedInv`, which says whose the mutex is and that the thread id written under
  it stays until it is released, whoever else calls the task meanwhile.
- **TimerThread** (`TaskProofs`): `TimerIsATask`, every step is a step of
  `Task`, so `TaskInv` carries over. With `TimerInv` (where the owner is inside
  Task during each timer operation, and that it never takes `Task::start()`'s
  nested `stop()`; theorem `TimerInvariant`) follow `StartIsNeverRefused` and the refinement
  `TimerKeepsPromise`: of the owner's steps the calls, the creation, the join and the
  returns are visible steps of `AbstractTimer`, of the worker's only those that enter
  and leave the handler or decide to end. That `stop()` returns with the timer off
  is where `TimerInv` is needed: `Task::stop()` ends in INIT, or finds it, only
  when no worker is left.
- **ByteBuffer** (`ByteBufferProofs`), for every capacity, set of threads and
  length of requests, flushes at any time included: `BufferInvariant`
  (`BufferInv`: `TypeOK` and `RingInv`; the indices' range is needed to know where a request wraps, and
  `RingInv` to know that what follows the content is free), and the refinement
  `BufferIsAStream`. The two lemmas behind it, `WriteAppends` and `ReadTakes`,
  compute the content through the ring index by index, with and without the wrap
  on either side. The wakeups depend on how many threads there are on one side, and
  the theorems say so: `WriterIsWoken` (`WriterWaitsForSpace`) for one writer
  (`OneWriter`), any readers and no flush while it waits (`~FlushAnytime`), by
  `FullInv`, which adds that a thread in the queue is past its first look at the
  buffer; `ReaderLeavesAtTheEnd` (`NoWaitAtTheEnd`) for one reader (`OneReader`),
  any writers and flushes at any time. With two threads on that side both are false:
  a signal may go to the one and leave the other waiting.
- **IRQ** (`TaskProofs`), for any thread ids, files, bound on the pipe and one
  owner: `IrqRefinesTask`, every step is a step of `Task` or leaves it alone, so
  `TaskInv` carries over; `IrqInvariant` (`IrqInv`), from which `FileStaysOpen`
  (`PollsOpenFile`) and `LastRequestDecides` (`EdgeFollowsRequests`). The proof
  takes `IrqInv` apart into what concerns the value file, which needs `TaskInv`
  (a file is closed only after the join, when no worker is inside `run()`), and
  what concerns the pipe, which does not; `RequestKeepsPipe`, `StopKeepsPipe` and
  `CommandKeepsPipe` are the three ways the pipe changes.

- **EventLoop** (`EventLoopProofs`), for any threads, timers, descriptors, intervals
  and bounds, under `LoopAssumption`.
  - *The list.* `Sorts` says of the `list::sort()` of the model that it permutes the
    list, orders it, and leaves a first element alone that nothing precedes; `Ranks`
    and `EveryPlaceIsTaken` show by counting that every place is taken once. `Erased` and
    `FirstErased` do the same for the erasing of the first copy. `Timeouts` says what
    the conversion to `int32_t` and the clamping keep.
  - *The timers*, if `~SelfRestart` and `~Turns`. `NoTimerTwice` and `RunningIffListed` are not
    inductive: that `start()` finds its timer outside the list depends on how far
    another thread is in a call that has set `mRunning` and not yet taken
    `mTimerLock`. `Core` is what is: for each timer, what the call in progress on it
    (`PendingOf`) has done so far; for the executing timer, that a one-shot one stays
    at the front until `runTimers()` compares and erases it (`HandlerOf`); and for
    `select()`, that a timer due before its timeout has a wakeup byte in the pipe or
    in a program (`WakesBy`). It is `TypeOK`, `NoTimerTwice` and the parts `InOrder`
    to `WillWake` of `LoopInv` (`CoreParts`), so TLC checks it, too. From
    `CoreHolds` follow `EachTimerOnce` (`NoTimerTwice`), `FrontOfTheList`
    (`FrontIsEarliest`), `SleepsNoLonger` (`NoOversleep`), `ListedIffRunning`
    (`RunningIffListed`).
    Between `execute()`'s two reads of `mRepeat` a one-shot timer is listed and not
    running: `Stays` means listed and not about to be erased (`Erasing`), and
    `Pending` relates the calls to `Stays`. `~Turns` keeps `Erasing` true until
    `ExecuteReturns`, whatever `start()` comes between.
  - *The range.* With `SmallIntervals` as well, `LoopInvariant` adds `InRange`, how far
    ahead an expiry may be, from which `SpinsOnlyForTimers` follows.
  - *The watchers*, if `~Duplicates`. `CallbacksFindData` (`CallbackHasData`) rests on
    `Walking`: no watcher is listed twice, and those at and behind the iterator which
    `select()` reported still have their data, while callbacks append and erase before
    and behind it.

  All three conditions are needed: with `SelfRestart` a timer is twice in the list
  (`event_loop_self_restart`), with `Turns` as well, and with `Duplicates` a second callback blocks in `read()`.
- **InputManager** (`InputManagerProofs`), for any keys, devices and bounds:
  `InputInvariant` (`InputInv`). `DevicesInSync` holds only when no inotify event is
  left; in between it takes `OldIsReported` (an entry open on an old plug has its
  DELETE to come), `LastReportIsTrue` (the last event of a device tells whether it is
  there) and `Found`. The lemmas `AddedList` and `RemovedList` say what the two loops
  over the device list do. `Repeating` keeps both `mLastKeyCode` and the
  handler's copy among the keys pressed, which is `RepeatsPressedKeys`
  (`RepeatsOnlyPressedKeys`); from it and `InHand` follow the action properties `NoLateRepeat` (`NoRepeatAfterRelease`) and `ReleaseWaits`
  (`ReleaseWaitsForHandler`), which rest on the timer's `stop()` waiting for the
  handler - the promise of `AbstractTimer` that `TimerKeepsPromise` proves of
  `TimerThread`.
- **Container** (`ContainerProofs`), for any containers, widgets, messages and pipe:
  `ContainerInvariant` (`ContainerInv`). Its conjunct `Framed` says that what is
  read, piped and still to be written is the concatenation of the pending requests;
  `Understood` derives from it that the first piece decides how many follow, so no
  piece is taken for another. `FlattenAppend` and `FlattenHead` compute the
  concatenation. `ScreenSynchronized` and `Painted` follow from `Settled` and
  `Drawing` (`Painted` is about the cleared buffers, what `onCreate()` draws and the
  widgets; a background set before is not drawn), and `ProtocolKept` (`KeepsProtocol`) is the refinement of
  `AbstractContainer`: every step is one of its steps or a stutter.
- **Services** (`ServicesProofs`), for any set of numbers and any number of tries and
  late answers: `ServicesInvariant` (`ServicesInv`) and `OnlyAfterBindFailed`
  (`StrayOnlyAfterBindFailed`). `WatchedIsOwn` and `NothingLeftBehind` are not
  inductive; `Holding` says for every number what is open under it and which member
  remembers it, `Watching` who is watched at which point of an operation, and
  `InStep` which operations can overlap. `Core` is their conjunction, and each step
  that does not close a stranger's descriptor keeps it.

- **Listeners** (`ListenersProofs`), for all five managers, any listeners, list
  lengths, datagrams and numbers of changes: `WalkInvariant` (`WalkInv`) and
  `CallsAreDue` (`CallsWhatIsDue`). Neither `CallsWhatIsDue` nor `PlaceIsValid` is
  inductive: that the iterator still names an element, and that those behind it are
  those not yet called, depends on where the callbacks have erased and appended.
  `Aligned` says it: there is an index where the walk is, and who was called followed
  by the list from there to the last element the walk will reach (`LastOne`: the size
  read before a vector's walk, a list's end as it is now) are those that are due.
  `ListedOnce` is what finds the iterator's index again after an erasure. The
  lemmas say what one erased and one appended element do to the two parts.
- **Parcel** (`ParcelProofs`), for any fields, junk, sizes, bounds and pipe, under
  `ParcelAssumption` and `WidthAssumption`: `ParcelInvariant` (`ParcelInv`) and the
  refinement `ParcelsKeepMessages` (`KeepsMessages`). `Holds` relates a parcel's
  block, size and position to its fields; it breaks while `recv()` is inside the
  block, where `Wire` takes over: what has been read of a message, the bytes in the
  pipe and those still to write are together the bytes of the messages under way.
  `Outgoing` bounds the block, so that `SizeArrives` may say that the size decoded
  from four bytes is the one encoded. `OverwrittenIs` and `ResizedIs` are the copies
  into a block and its growth; `FieldInBlock` finds a field at the position from the
  lengths of those before it, and `StringEnds` that `strlen()` stops at its end.
  Every step is then a step of `AbstractParcel` or a stutter: `WriteHeader` sends and
  `RecvReturns` delivers, the pieces between them are invisible. `StringsEndInside`
  (`FaultsOnlyAtTheEnd`) follows from `Holds` and `StringEnds`.

Induction over the natural numbers is done here through the least counterexample
(`LessThan` states that they are well founded; `LeastElement` and `Induction` in
`ContainerProofs` and `ParcelProofs`), since the library's induction theorems take an operator as a
parameter. That is how the fold behind `FlattenSeq` and the search behind
`SelectInSeq` are computed for every sequence.

**Only model-checked**: all liveness (outside the prover's reach, as is
`ENABLED`), so `StopReturns`, `DueTimerRuns`, `WorkerComesBack`, `RecvEnds` and the
like. Every invariant, refinement and action property of the passing runs is a
theorem, under the disciplines named above (without them some are false, such as
`NoTimerTwice` with `SelfRestart` or `Turns`).

## Where code and text disagree

`event_loop_self_restart`: `addTimer()` reports a timer that is listed as an
error (`base/event_loop.cpp:74`) and appends it nevertheless. A one-shot
timer whose handler restarts it gets there: `execute()` overwrites
`mRunning` after the handler, the next `start()` is let through, and the timer
is in the list twice.

## Behaviour outside the assumptions

Consequences of the code that the properties exclude on purpose:

- two threads that start a task which has ended by itself: `start()` unlocks to
  join the old thread, locks again and goes on to `pthread_create()` without a
  second look at `mState`, so both create a worker and one thread id is lost. No
  caller in the repository shares a task;
- a reader waits for the next write even when the buffer has data, so a full
  buffer with a waiting writer and a waiting reader (no timeouts) is stuck; so is a
  read that begins at the end of the stream with nothing left;
- a flush does not wake a waiting writer;
- handlers slower than their interval keep the loop in `runTimers()`, and
  neither watchers nor `terminate()` are served (`MaxLag = 0` in
  `event_loop_watch`);
- an interval of `TIMER_INFINITE` converts to a negative timeout: the loop spins;
- a handler that writes wakeup bytes to a full pipe blocks the only thread that
  reads them (`event_loop.cpp:223`);
- between `execute()`'s two reads of `mRepeat` (`timer.cpp:79` and `84`),
  `setRepeat(true)` from another thread lets a timer that is no longer running stay in
  the list. `start(msec, true)` by the timer's own user there finds `mRunning` cleared,
  moves the expiry of a timer that `runTimers()` now keeps, after the sort if it comes
  late, and lists the timer a second time: one copy survives the next `stop()`, and the
  front need not be the earliest. With `Turns = TRUE` in `MCEventLoopTimers.cfg` TLC
  finds `LoopInv` and `NoTimerTwice` violated;
- a repeat of the key that was held before may follow the PRESSED of the next one: the
  handler writes what it has read, and `mLastKeyCode` is assigned after the timer runs;
- `readString()` behind the last field runs `strlen()` out of the block: one that was
  received has exactly `mDataSize` bytes (`parcel.cpp:54`), and an empty parcel's is
  NULL or has none (`parcel.cpp:232`). It returns NULL if a 0 is met outside, and may
  as well fault;
- a device unplugged with a key down leaves the repeat timer running, and
  `removeInputDevice()` never deletes the device, whose descriptor stays open;
- a window whose creation failed is kept by `_hide()`, so its container never
  appears again; after a good creation `onCreate()` is called twice;
- the background colour or image set before the first `show()`, or while hidden, is
  kept and never drawn on the window that is created later, and a widget added in
  `onShow()` or later is painted by nobody until `redrawWidgets()`;
- `~Window()` leaves the DirectFB window as it is, so a container deleted while
  visible stays on the screen;
- `removeWidget()` erases the element and then uses its iterator
  (`container.cpp:266`), and `~Container()` deletes the background colour only if
  there is a background image (`container.cpp:219`);
- an edge during `onInterrupted()` is lost with the acknowledging read behind it;
  a `pthread_create()` that fails leaves the IRQ's value file open;
- the destructors of `IRQ` and `InputManager` close `mPipe[0]` twice and
  `mPipe[1]` never (`irq.cpp:39`, `input_manager.cpp:157`);
- `WEB` reads a request from its listening socket (`web.cpp:162`), so a client gets
  no answer; SSDP announces and replies with the server's location even when the
  server could not bind;
- a parcel written after `rewind()` counts its bytes twice, one written after
  `recv()` starts from a capacity of 0; a `recv()` whose sender ended in the
  middle of a message turns for ever on `read()` returning 0, and at the end of
  the stream it returns 0 with an empty parcel (`parcel.cpp:50`, `58`);
- after a Wi-Fi command that timed out, every later command of that connection
  returns its predecessor's answer until the connection is opened anew;
  `setWfdInfo()` drops the outcome of its first command;
- `~InputManager()` stops watching the key pipe before it joins the worker, which
  may be blocked in a write to that pipe if it is full;
- Wi-Fi: `disable()` leaves both connections open and the next `enable()` forgets
  them; the pause between two tries is `sleep(200)`, seconds where milliseconds
  are meant; CONNECTED and DISCONNECTED are logged as events but get no type
  (`wifi_event.cpp:108`), so no listener hears of them; `getExtraData()`
  dereferences a null pointer for an event without extra data.

## Not modelled, and why

- Text: netlink attributes, supplicant commands and replies, SSDP and HTTP, ini
  files, `trim`, `key_value`. What a text selects (a message's type, a search that
  is answered) is modelled, its characters are not.
- Value classes and wrappers of one call: `netutil` (`ioctl()`, `/proc`), `Color`,
  `Point`, `Size`, `Rectangle`, `Font`, `Image`, `DFBManager`, `SysTime`. They keep
  no state between calls that another component could find changed.
- `GPIO` (sysfs files, of which `Irq` keeps the edge) and `StepMotor` (a fixed
  table of pin values): sequential, with the kernel as the only other actor.
- `id_gen`, `popen2`: not called by the repository. `popen2()` is `fork()` and
  `exec()`; its pipe stays open when `fork()` fails.
- `log` and `main`: output and option parsing.
- Parts of modelled components: the destructors of `InputManager` and `IRQ`, the raw
  key listener, the sockets of the netlink and USB managers, drawing on a window
  that has appeared, geometry. `PROJECT.json` says so for each.

## The plan

In order of what matters most to the system:

1. done: `Task`, `TimerThread` with `AbstractTimer`, `EventLoop`, `ByteBuffer`
   with `AbstractStream`, `InputManager`, `Container` with `AbstractContainer`,
   `Irq` on top of `Task`, `Listeners`, `Services`, `Parcel` with
   `AbstractParcel`; the proofs of their invariants, refinements and action
   properties.
2. Open questions for the models: a `TimerThread` handler that stops its own timer
   (`EDEADLK`), a callback that removes its own watcher, descriptors closed while
   they are watched, two threads that post to containers.
