----------------------------- MODULE EventLoop -----------------------------
(***************************************************************************)
(* base/event_loop.cpp and base/timer.cpp: the loop thread, the timers it  *)
(* runs and the descriptors it watches, and other threads that start and   *)
(* stop timers and terminate the loop.                                     *)
(*                                                                         *)
(* Time is counted in ticks and relative: left[t] is mExpiry - now.  A     *)
(* call of the timer API is a short program, todo[p], of the points where  *)
(* it needs mTimerLock (which is recursive) or writes to the loop's pipe;  *)
(* handlers and callbacks, on the loop thread, run the same programs.      *)
(***************************************************************************)
EXTENDS Integers, Sequences, FiniteSets, SequencesExt

CONSTANTS
  Loop,           \* the thread that calls loop()
  Clients,        \* the other threads
  Timers,
  Owner,          \* the thread that uses a timer; the loop's are its handlers'
  Fds,            \* the descriptors with a watcher
  None,
  Intervals,      \* the intervals start() is given, in ticks
  WaitTime,       \* WAIT_TIME: 10 s
  Half,           \* 2^31, the first value an int32_t cannot hold
  MaxCalls,       \* bound: API calls a client makes
  MaxOps,         \* bound: API calls in one handler or callback
  MaxLag,         \* bound: ticks that pass while the loop thread is busy
  MaxPipe,        \* bound: no call begins with this many bytes in the pipe
                  \* (64 KiB in a real one; a write blocks when it is full)
  MaxLate,        \* bound: how late, in ticks, the loop may run a timer
  SelfRestart,    \* may a handler use its own timer when that is a one-shot,
                  \* or make it one that it has started again?
  Turns,          \* may another thread make a one-shot a repeating timer, or a
                  \* repeating one a one-shot, while the loop executes it?
  Duplicates      \* may a watcher be added that is registered already?

Threads == Clients \cup {Loop}

ASSUME LoopAssumption ==
  /\ Loop \notin Clients /\ None \notin Clients \cup Timers \cup Fds \cup {Loop}
  /\ Owner \in [Timers -> Threads]
  /\ Intervals \subseteq Nat /\ IsFiniteSet(Fds)
  /\ WaitTime \in Nat \ {0} /\ Half \in Nat \ {0} /\ WaitTime < Half
  /\ MaxCalls \in Nat /\ MaxOps \in Nat /\ MaxLag \in Nat
  /\ MaxLate \in 0..Half /\ MaxPipe \in Nat
  /\ {SelfRestart, Turns, Duplicates} \subseteq BOOLEAN

VARIABLES
  left, interval, repeat, running,   \* the fields of each Timer
  mTimers,        \* EventLoop's timer list
  mTimerLock,     \* its owner
  mFdWatchers,    \* EventLoop's watcher list (a watcher is its descriptor)
  pipe,           \* the bytes in mPipe
  readable,       \* the descriptors with data
  loop,           \* where the loop thread is, and its local variables
  todo,           \* per thread: the rest of the API call it is inside
  calls,          \* per client: the API calls it has made
  ops             \* the API calls the current handler may still make

timerFields == <<left, interval, repeat, running>>
vars == <<left, interval, repeat, running, mTimers, mTimerLock, mFdWatchers,
          pipe, readable, loop, todo, calls, ops>>

\* loop.at: the statement ("ran": in execute(), between its two reads of
\* mRepeat); loop.timer: the executing timer; loop.polled:
\* sReadFds (before select() the descriptors to watch, after it the ready
\* ones); loop.pos: the watcher being visited; loop.lag: the ticks since
\* runTimers() read the clock; loop.wait: what is left of select()'s timeout.
LoopStates ==
  [at : {"build", "timers", "handler", "ran", "select", "dispatch", "callback",
         "ended"},
   timer : Timers \cup {None}, polled : SUBSET Fds, pos : Nat, lag : 0..MaxLag,
   wait : 0..WaitTime]

\* TIMER_INFINITE: mExpiry is 2^64-1 then, so the difference to now does not
\* fit an int32_t either; up to 2^31 ms of uptime it converts to a negative.
TimerInfinite == 2 * Half - 1

Steps == {"add", "remove"} \X Timers \cup {"again"} \X Timers
         \cup {<<"wake">>, <<"terminate">>}

TypeOK ==
  /\ left \in [Timers -> Int] /\ interval \in [Timers -> Intervals \cup {TimerInfinite}]
  /\ repeat \in [Timers -> BOOLEAN] /\ running \in [Timers -> BOOLEAN]
  /\ mTimers \in Seq(Timers)
  /\ mTimerLock \in {Loop, None}
  /\ mFdWatchers \in Seq(Fds)
  /\ pipe \in Seq({"S", "T"})
  /\ readable \subseteq Fds
  /\ loop \in LoopStates
  /\ todo \in [Threads -> Seq(Steps)]
  /\ calls \in [Clients -> 0..MaxCalls] /\ ops \in 0..MaxOps

Listed(t) == \E i \in 1..Len(mTimers) : mTimers[i] = t
Watched(f) == \E i \in 1..Len(mFdWatchers) : mFdWatchers[i] = f

At(place) == loop.at = place

Init ==
  /\ left = [t \in Timers |-> 0]
  /\ interval = [t \in Timers |-> TimerInfinite]
  /\ repeat = [t \in Timers |-> FALSE]
  /\ running = [t \in Timers |-> FALSE]
  /\ mTimers = <<>>
  /\ mTimerLock = None
  /\ mFdWatchers \in {<<>>, SetToSeq(Fds)}
  /\ pipe = <<>>
  /\ readable = {}
  /\ loop = [at |-> "build", timer |-> None, polled |-> {}, pos |-> 0,
             lag |-> 0, wait |-> 0]
  /\ todo = [p \in Threads |-> <<>>]
  /\ calls = [c \in Clients |-> 0]
  /\ ops = 0

----------------------------------------------------------------------------
(* Helpers *)

\* list::sort() with timer_sort: stable, by expiry.
SortTimers(list, expiry) ==
  LET before(i, j) == \/ expiry[list[i]] < expiry[list[j]]
                      \/ expiry[list[i]] = expiry[list[j]] /\ i < j
      rank(i) == Cardinality({j \in 1..Len(list) : before(j, i)}) + 1
  IN  [k \in 1..Len(list) |-> list[CHOOSE i \in 1..Len(list) : rank(i) = k]]

\* erase() of the first copy.
RemoveFirstCopy(list, e) ==
  LET i == SelectInSeq(list, LAMBDA x : x = e)
  IN  IF i = 0 THEN list ELSE RemoveAt(list, i)

\* The conversion of expiry - now to the int32_t timeout, and its clamping.
Timeout(d) ==
  LET narrow == ((d + Half) % (2 * Half)) - Half
  IN  IF narrow < 0 THEN 0 ELSE IF narrow > WaitTime THEN WaitTime ELSE narrow

----------------------------------------------------------------------------
(* The timer API, called by thread p *)

\* Who may begin a call: an idle client, or the code of a handler.
MayCall(p) ==
  /\ todo[p] = <<>> /\ Len(pipe) < MaxPipe
  /\ IF p = Loop THEN loop.at \in {"handler", "callback"} /\ ops > 0
                 ELSE calls[p] < MaxCalls

InOwnHandler(p, t) == p = Loop /\ At("handler") /\ loop.timer = t

\* A timer is used by one thread; a one-shot timer's own handler leaves it
\* alone unless SelfRestart.
MayUse(p, t) ==
  /\ Owner[t] = p
  /\ InOwnHandler(p, t) /\ ~repeat[t] => SelfRestart

\* It does not make its timer a one-shot either, unless the timer is still the
\* first and due, or not in the list.
MayMakeOneShot(p, t) ==
  InOwnHandler(p, t) /\ Listed(t) /\ ~SelfRestart =>
    Head(mTimers) = t /\ left[t] <= 0

Calls(p, program) ==
  /\ todo' = [todo EXCEPT ![p] = program]
  /\ IF p = Loop THEN ops' = ops - 1 /\ UNCHANGED calls
                 ELSE calls' = [calls EXCEPT ![p] = @ + 1] /\ UNCHANGED ops
  /\ UNCHANGED <<mTimers, mTimerLock, mFdWatchers, pipe, readable, loop>>

\* Another thread leaves the kind of a timer alone while it is executed, unless
\* Turns: execute() reads mRepeat twice and must find the same value.
MayTurn(p, t, r) == loop.timer = t /\ p # Loop => r = repeat[t] \/ Turns

\* The fields start() sets, without a lock, before it calls addTimer().  One
\* step: unless Turns, the timer is in no list or about to be erased from it,
\* so that nobody reads mExpiry before addTimer() does.
Arms(t, i, r) ==
  /\ interval' = [interval EXCEPT ![t] = i]
  /\ repeat' = [repeat EXCEPT ![t] = r]
  /\ left' = [left EXCEPT ![t] = i]
  /\ running' = [running EXCEPT ![t] = TRUE]

\* Mutant of Added: the loop is not woken.
AddedSilently(t) == <<<<"add", t>>>>

Added(t) == <<<<"add", t>>, <<"wake">>>>
Removed(t) == <<<<"remove", t>>, <<"wake">>>>
RemovedThenAgain(t) == <<<<"remove", t>>, <<"wake">>, <<"again", t>>>>

\* Mutant of StartTimer: mRunning is not tested.
StartTimerTwice(p, t, i, r) ==
  /\ MayCall(p) /\ MayUse(p, t)
  /\ Arms(t, i, r)
  /\ Calls(p, Added(t))

\* Timer::start(); on a running timer it does nothing.
StartTimer(p, t, i, r) ==
  /\ MayCall(p) /\ MayUse(p, t)
  /\ InOwnHandler(p, t) => r \/ SelfRestart
  /\ MayTurn(p, t, r)
  /\ ~running[t]
  /\ Arms(t, i, r)
  /\ Calls(p, Added(t))

\* Timer::stop()
StopTimer(p, t) ==
  /\ MayCall(p) /\ MayUse(p, t)
  /\ running' = [running EXCEPT ![t] = FALSE]
  /\ Calls(p, Removed(t))
  /\ UNCHANGED <<left, interval, repeat>>

\* Timer::restart(): stop() if it is running, then start() as before.
RestartTimer(p, t) ==
  /\ MayCall(p) /\ MayUse(p, t)
  /\ interval[t] \in Intervals
  /\ IF running[t]
       THEN /\ running' = [running EXCEPT ![t] = FALSE]
            /\ Calls(p, RemovedThenAgain(t))
            /\ UNCHANGED <<left, interval, repeat>>
       ELSE /\ Arms(t, interval[t], repeat[t])
            /\ Calls(p, Added(t))

\* Timer::setInterval(): what the next expiry is computed with.  A timer that
\* repeats every 0 ms would be due for ever.
SetInterval(p, t, i) ==
  /\ MayCall(p) /\ MayUse(p, t)
  /\ repeat[t] => i > 0
  /\ interval' = [interval EXCEPT ![t] = i]
  /\ Calls(p, <<>>)
  /\ UNCHANGED <<left, repeat, running>>

\* Timer::setRepeat()
SetRepeat(p, t, r) ==
  /\ MayCall(p) /\ MayUse(p, t)
  /\ MayTurn(p, t, r)
  /\ IF r THEN interval[t] > 0 ELSE MayMakeOneShot(p, t)
  /\ repeat' = [repeat EXCEPT ![t] = r]
  /\ Calls(p, <<>>)
  /\ UNCHANGED <<left, interval, running>>

\* EventLoop::terminate(), also what main.cpp's signal handler calls.
CallTerminate(p) ==
  /\ MayCall(p)
  /\ Calls(p, <<<<"terminate">>>>)
  /\ UNCHANGED timerFields

\* The points of a call that other threads can see, in order.
Does(p, step) ==
  /\ todo[p] # <<>> /\ Head(todo[p]) = step
  /\ todo' = [todo EXCEPT ![p] = Tail(@)]
  /\ UNCHANGED <<mTimerLock, mFdWatchers, readable, loop, calls, ops>>

HasLock(p) == mTimerLock \in {None, p}

\* Mutant of DoAdd: the list is not sorted.
DoAddUnsorted(p, t) ==
  /\ HasLock(p)
  /\ Does(p, <<"add", t>>)
  /\ mTimers' = Append(mTimers, t)
  /\ UNCHANGED <<left, interval, repeat, running, pipe>>

DoAdd(p, t) ==
  /\ HasLock(p)
  /\ Does(p, <<"add", t>>)
  /\ mTimers' = SortTimers(Append(mTimers, t), left)
  /\ UNCHANGED <<left, interval, repeat, running, pipe>>

DoRemove(p, t) ==
  /\ HasLock(p)
  /\ Does(p, <<"remove", t>>)
  /\ mTimers' = IF Listed(t) THEN SortTimers(RemoveFirstCopy(mTimers, t), left)
                             ELSE mTimers
  /\ UNCHANGED <<left, interval, repeat, running, pipe>>

DoWake(p) ==
  /\ Does(p, <<"wake">>)
  /\ pipe' = Append(pipe, "S")
  /\ UNCHANGED <<left, interval, repeat, running, mTimers>>

DoTerminate(p) ==
  /\ Does(p, <<"terminate">>)
  /\ pipe' = Append(pipe, "T")
  /\ UNCHANGED <<left, interval, repeat, running, mTimers>>

\* restart()'s call of start(), after its stop().
DoAgain(p, t) ==
  /\ todo[p] # <<>> /\ Head(todo[p]) = <<"again", t>>
  /\ IF running[t]
       THEN todo' = [todo EXCEPT ![p] = <<>>] /\ UNCHANGED timerFields
       ELSE todo' = [todo EXCEPT ![p] = Added(t)] /\ Arms(t, interval[t], repeat[t])
  /\ UNCHANGED <<mTimers, mTimerLock, mFdWatchers, pipe, readable, loop, calls, ops>>

----------------------------------------------------------------------------
(* The watchers.  The code that adds and removes them runs on the loop     *)
(* thread: in a handler, in a callback, or before loop() is first called.  *)

WatcherCall ==
  /\ MayCall(Loop)
  /\ ops' = ops - 1
  /\ UNCHANGED <<left, interval, repeat, running, mTimers, mTimerLock, pipe,
                 readable, todo, calls>>

\* addFdWatcher() reports a watcher that is there already and adds it anyway.
\* A callback does not add a watcher another one removed in the same pass.
AddFdWatcher(f) ==
  /\ WatcherCall
  /\ Watched(f) => Duplicates
  /\ At("callback") => f \notin loop.polled
  /\ Len(mFdWatchers) < 2 * Cardinality(Fds)
  /\ mFdWatchers' = Append(mFdWatchers, f)
  /\ UNCHANGED loop

\* removeFdWatcher(): in a callback, of another watcher than the one called
\* (the loop's iterator would be invalid).
RemoveFdWatcher(f) ==
  LET i == SelectInSeq(mFdWatchers, LAMBDA x : x = f) IN
  /\ WatcherCall
  /\ Watched(f)
  /\ At("callback") => i # loop.pos
  /\ mFdWatchers' = RemoveAt(mFdWatchers, i)
  /\ loop' = IF At("callback") /\ i < loop.pos
               THEN [loop EXCEPT !.pos = @ - 1] ELSE loop

----------------------------------------------------------------------------
(* loop() *)

\* sReadFds, from the watchers there are before the timers run.
BuildFdSet ==
  /\ At("build")
  /\ loop' = [loop EXCEPT !.at = "timers",
                          !.polled = {f \in Fds : Watched(f)}]
  /\ UNCHANGED <<left, interval, repeat, running, mTimers, mTimerLock,
                 mFdWatchers, pipe, readable, todo, calls, ops>>

\* while ((timeToWait = runTimers()) == 0): again, or on to select().
Waits(l, timeout) ==
  [l EXCEPT !.at = IF timeout = 0 THEN "timers" ELSE "select",
            !.wait = timeout, !.timer = None]

\* runTimers() with nothing to execute.
RunNoTimer ==
  /\ At("timers") /\ HasLock(Loop)
  /\ mTimers # <<>> => left[Head(mTimers)] > 0
  /\ loop' = Waits([loop EXCEPT !.lag = 0],
                   IF mTimers = <<>> THEN WaitTime ELSE Timeout(left[Head(mTimers)]))
  /\ UNCHANGED <<left, interval, repeat, running, mTimers, mTimerLock,
                 mFdWatchers, pipe, readable, todo, calls, ops>>

\* Mutant of RunTimer: a timer is due when its time is past, not when it has
\* come.
RunTimerLate ==
  /\ At("timers") /\ HasLock(Loop)
  /\ mTimers # <<>> /\ left[Head(mTimers)] < 0
  /\ mTimerLock' = Loop
  /\ loop' = [loop EXCEPT !.at = "handler", !.timer = Head(mTimers), !.lag = 0]
  /\ ops' = MaxOps
  /\ UNCHANGED <<left, interval, repeat, running, mTimers, mFdWatchers, pipe,
                 readable, todo, calls>>

\* runTimers() calls the handler of the first timer, holding mTimerLock.
RunTimer ==
  /\ At("timers") /\ HasLock(Loop)
  /\ mTimers # <<>> /\ left[Head(mTimers)] <= 0
  /\ mTimerLock' = Loop
  /\ loop' = [loop EXCEPT !.at = "handler", !.timer = Head(mTimers), !.lag = 0]
  /\ ops' = MaxOps
  /\ UNCHANGED <<left, interval, repeat, running, mTimers, mFdWatchers, pipe,
                 readable, todo, calls>>

\* The handler has returned, and execute() sets the next expiry or mRunning,
\* which another thread's start() tests without mTimerLock.
HandlerReturns ==
  LET t == loop.timer IN
  /\ At("handler") /\ todo[Loop] = <<>>
  /\ left' = IF repeat[t] THEN [left EXCEPT ![t] = @ + interval[t]] ELSE left
  /\ running' = IF repeat[t] THEN running ELSE [running EXCEPT ![t] = FALSE]
  /\ loop' = [loop EXCEPT !.at = "ran"]
  /\ ops' = 0
  /\ UNCHANGED <<interval, repeat, mTimers, mTimerLock, mFdWatchers, pipe,
                 readable, todo, calls>>

\* The rest of runTimers(), with the timers that stay in the list.  The timeout
\* is computed with the time read before the handler ran.
TimersRun(kept) ==
  LET next == SortTimers(kept, left) IN
  /\ At("ran")
  /\ mTimers' = next
  /\ mTimerLock' = None
  /\ loop' = Waits(loop, IF next = <<>> THEN WaitTime
                         ELSE Timeout(left[Head(next)] + loop.lag))
  /\ UNCHANGED <<left, interval, repeat, running, mFdWatchers, pipe, readable,
                 todo, calls, ops>>

\* Mutant of ExecuteReturns: the one-shot timer stays in the list.
ExecuteReturnsKeeping == TimersRun(mTimers)

\* execute() returns what mRepeat is now.  A one-shot timer is erased if it is
\* still the first of the list.
ExecuteReturns ==
  TimersRun(IF /\ ~repeat[loop.timer]
               /\ mTimers # <<>> /\ Head(mTimers) = loop.timer
              THEN Tail(mTimers) ELSE mTimers)

Ready == loop.polled \cap readable

\* Mutant of ReadCommand: everything is read, only the first byte looked at.
ReadCommands ==
  /\ At("select") /\ pipe # <<>>
  /\ pipe' = <<>>
  /\ loop' = [loop EXCEPT !.at = IF Head(pipe) = "T" THEN "ended" ELSE "build",
                          !.polled = {}, !.wait = 0, !.lag = 0]
  /\ UNCHANGED <<left, interval, repeat, running, mTimers, mTimerLock,
                 mFdWatchers, readable, todo, calls, ops>>

\* select() returns and the pipe is readable: one byte is read and loop()
\* returns, whatever else is ready; 'T' ends main()'s while loop.
ReadCommand ==
  /\ At("select") /\ pipe # <<>>
  /\ pipe' = Tail(pipe)
  /\ loop' = [loop EXCEPT !.at = IF Head(pipe) = "T" THEN "ended" ELSE "build",
                          !.polled = {}, !.wait = 0, !.lag = 0]
  /\ UNCHANGED <<left, interval, repeat, running, mTimers, mTimerLock,
                 mFdWatchers, readable, todo, calls, ops>>

\* select() returns and only watched descriptors are readable.
SelectReady ==
  /\ At("select") /\ pipe = <<>> /\ Ready # {}
  /\ loop' = [loop EXCEPT !.at = "dispatch", !.polled = Ready, !.pos = 1,
                          !.wait = 0, !.lag = 0]
  /\ UNCHANGED <<left, interval, repeat, running, mTimers, mTimerLock,
                 mFdWatchers, pipe, readable, todo, calls, ops>>

\* The timeout has elapsed, or a signal arrived (EINTR): loop() returns true.
SelectReturns ==
  /\ At("select")
  /\ loop' = [loop EXCEPT !.at = "build", !.polled = {}, !.wait = 0, !.lag = 0]
  /\ UNCHANGED <<left, interval, repeat, running, mTimers, mTimerLock,
                 mFdWatchers, pipe, readable, todo, calls, ops>>

SelectTimesOut == loop.wait = 0 /\ pipe = <<>> /\ Ready = {} /\ SelectReturns

\* Mutant of Visit: every watcher is called, whether it is ready or not.
VisitAll ==
  /\ At("dispatch")
  /\ loop' = IF loop.pos > Len(mFdWatchers)
               THEN [loop EXCEPT !.at = "build", !.polled = {}, !.pos = 0]
             ELSE [loop EXCEPT !.at = "callback"]
  /\ ops' = IF loop'.at = "callback" THEN MaxOps ELSE 0
  /\ UNCHANGED <<left, interval, repeat, running, mTimers, mTimerLock,
                 mFdWatchers, pipe, readable, todo, calls>>

\* The walk over mFdWatchers: the next watcher that is ready, or the end.
Visit ==
  /\ At("dispatch")
  /\ LET f == mFdWatchers[loop.pos] IN
     loop' = IF loop.pos > Len(mFdWatchers)
               THEN [loop EXCEPT !.at = "build", !.polled = {}, !.pos = 0]
             ELSE IF f \in loop.polled THEN [loop EXCEPT !.at = "callback"]
             ELSE [loop EXCEPT !.pos = @ + 1]
  /\ ops' = IF loop'.at = "callback" THEN MaxOps ELSE 0
  /\ UNCHANGED <<left, interval, repeat, running, mTimers, mTimerLock,
                 mFdWatchers, pipe, readable, todo, calls>>

\* Mutant of CallbackReturns: the walk ends with the first callback.
CallbackReturnsEarly ==
  /\ At("callback") /\ todo[Loop] = <<>>
  /\ readable' = readable \ {mFdWatchers[loop.pos]}
  /\ loop' = [loop EXCEPT !.at = "build", !.polled = {}, !.pos = 0]
  /\ ops' = 0
  /\ UNCHANGED <<left, interval, repeat, running, mTimers, mTimerLock,
                 mFdWatchers, pipe, todo, calls>>

\* onFdReadable() reads what is there and returns.
CallbackReturns ==
  /\ At("callback") /\ todo[Loop] = <<>>
  /\ readable' = readable \ {mFdWatchers[loop.pos]}
  /\ loop' = [loop EXCEPT !.at = "dispatch", !.pos = @ + 1]
  /\ ops' = 0
  /\ UNCHANGED <<left, interval, repeat, running, mTimers, mTimerLock,
                 mFdWatchers, pipe, todo, calls>>

----------------------------------------------------------------------------
(* The environment *)

DataArrives(f) ==
  /\ f \notin readable
  /\ readable' = readable \cup {f}
  /\ UNCHANGED <<left, interval, repeat, running, mTimers, mTimerLock,
                 mFdWatchers, pipe, loop, todo, calls, ops>>

\* A tick.  It is bounded by how late a listed timer may get and by how long
\* the loop thread may be busy (with MaxLag = 0 time passes only while it is
\* blocked in select()); the age of an unlisted timer saturates.
Tick ==
  /\ ~At("ended")
  /\ \A t \in Timers : Listed(t) => left[t] > -MaxLate
  /\ At("select") /\ (pipe # <<>> \/ Ready # {}) => MaxLag > 0
  /\ IF At("select") THEN loop' = [loop EXCEPT !.wait = IF @ = 0 THEN 0 ELSE @ - 1]
                     ELSE loop.lag < MaxLag /\ loop' = [loop EXCEPT !.lag = @ + 1]
  /\ left' = [t \in Timers |-> IF left[t] \in {TimerInfinite, -MaxLate}
                               THEN left[t] ELSE left[t] - 1]
  /\ UNCHANGED <<interval, repeat, running, mTimers, mTimerLock, mFdWatchers,
                 pipe, readable, todo, calls, ops>>

----------------------------------------------------------------------------

Begins(p) ==
  \/ \E t \in Timers : \/ StopTimer(p, t) \/ RestartTimer(p, t)
                       \/ \E i \in Intervals : SetInterval(p, t, i)
                       \/ \E r \in BOOLEAN : SetRepeat(p, t, r)
                       \/ \E i \in Intervals, r \in BOOLEAN :
                            (r => i > 0) /\ StartTimer(p, t, i, r)
  \/ CallTerminate(p)

Continues(p) ==
  \/ \E t \in Timers : DoAdd(p, t) \/ DoRemove(p, t) \/ DoAgain(p, t)
  \/ DoWake(p) \/ DoTerminate(p)

\* The steps the loop thread takes by itself.
LoopStep ==
  \/ BuildFdSet \/ RunNoTimer \/ RunTimer \/ HandlerReturns \/ ExecuteReturns
  \/ ReadCommand \/ SelectReady \/ SelectTimesOut \/ Visit \/ CallbackReturns

Next ==
  \/ \E p \in Threads : Begins(p) \/ Continues(p)
  \/ \E f \in Fds : AddFdWatcher(f) \/ RemoveFdWatcher(f) \/ DataArrives(f)
  \/ LoopStep \/ SelectReturns \/ Tick

Spec == Init /\ [][Next]_vars

\* The loop thread, a call once begun, and time go on; nobody has to call.
\* Signals do not interrupt every select() for ever.
Fairness ==
  /\ WF_vars(LoopStep)
  /\ SF_vars(ReadCommand)
  /\ SF_vars(SelectReady)
  /\ WF_vars(Tick)
  /\ \A p \in Threads : WF_vars(Continues(p))

FairSpec == Spec /\ Fairness

(* Properties *)

\* No thread is inside a call that changes timer t.
Settled(t) ==
  \A p \in Threads : \A k \in 1..Len(todo[p]) : todo[p][k] # <<"wake">> =>
    \/ todo[p][k] = <<"terminate">>
    \/ todo[p][k][2] # t

\* No timer is lost and none is left behind: whenever no call is in progress
\* on it and its handler is not running, a timer is in the list exactly when
\* it is running, so a later start() or stop() means what it says.
RunningIffListed ==
  \A t \in Timers : Settled(t) /\ loop.timer # t => (running[t] <=> Listed(t))

\* "while((timeToWait = runTimers()) == 0) { } // Execute Timers": runTimers()
\* returns 0 only when a timer is due; otherwise the loop would spin, and
\* neither watchers nor terminate() would be served.
SpinsOnlyForTimers ==
  At("timers") /\ mTimers # <<>> /\ left[Head(mTimers)] > 0 =>
    Timeout(left[Head(mTimers)]) > 0

\* The calls that wait to start t again, and all that are not yet done with it.
Starting(t) ==
  {Added(t), RemovedThenAgain(t), <<<<"wake">>, <<"again", t>>>>, <<<<"again", t>>>>}

Changing(t) == Starting(t) \cup {Removed(t)}

\* How far the threads are in their calls, each with its own timers.
InCalls ==
  /\ \A p \in Threads :
       todo[p] \in {<<>>, <<<<"wake">>>>, <<<<"terminate">>>>}
                   \cup UNION {Changing(t) : t \in {u \in Timers : Owner[u] = p}}
  /\ todo[Loop] # <<>> => loop.at \in {"handler", "callback"}

Executing == loop.at \in {"handler", "ran"}

\* runTimers() is about to erase the one-shot timer t: execute() has cleared
\* mRunning, and its user may already have set it again.
Erasing(t) == At("ran") /\ loop.timer = t /\ ~repeat[t]

Stays(t) == Listed(t) /\ ~Erasing(t)

\* What a call in progress on t has done so far.
Pending ==
  \A t \in Timers :
    LET call == todo[Owner[t]] IN
    /\ call = Added(t) => running[t] /\ ~Stays(t)
    /\ call \in Changing(t) \ {Added(t)} => ~running[t]
    /\ call \in Starting(t) => ~Stays(t) \/ call = RemovedThenAgain(t)
    /\ call \notin Changing(t) => (running[t] <=> Stays(t))

\* Only the timer that execute() has just changed may be in the wrong place.
InOrder ==
  ~At("ran") =>
    \A i, j \in 1..Len(mTimers) : i < j => left[mTimers[i]] <= left[mTimers[j]]

\* While a timer is executed, the loop thread has the lock; a one-shot timer
\* stays the first of the list, for runTimers() to erase it.
InHandler ==
  /\ mTimerLock = Loop <=> Executing
  /\ loop.timer # None <=> Executing
  /\ Executing =>
       LET t == loop.timer IN
       /\ Owner[t] # Loop => Listed(t)
       /\ ~repeat[t] => todo[Loop] \notin Changing(t)
       /\ ~repeat[t] /\ Listed(t) =>
            /\ Head(mTimers) = t
            /\ At("handler") =>
                 /\ left[t] <= 0
                 /\ \A u \in Timers : todo[Loop] = Added(u) => left[t] <= left[u]

\* How late a timer may be.
InTime == \A t \in Timers : left[t] >= -MaxLate

\* How far ahead: an int32_t holds it, also when execute() adds the interval.
InRange ==
  \A t \in Timers :
    /\ Listed(t) \/ todo[Owner[t]] \in Starting(t) => interval[t] \in Intervals
    /\ Listed(t) => left[t] < Half
    /\ todo[Owner[t]] = Added(t) \/ (Listed(t) /\ loop.timer = t /\ At("handler"))
         => 2 * left[t] < Half

\* For each timer that is due before select() ends, a wake byte is or will be
\* in the pipe.
WillWake ==
  At("select") =>
    \A t \in Timers :
      \/ ~Listed(t)
      \/ loop.wait = 0 \/ loop.wait <= left[t] + loop.lag
      \/ pipe # <<>>
      \/ \E p \in Threads : \E k \in 1..Len(todo[p]) : todo[p][k] = <<"wake">>

\* The inductive invariant of the timers: a list that means what the timers'
\* flags say, and a timeout of 0 only for what is due.
LoopInv ==
  /\ TypeOK
  /\ InCalls /\ Pending /\ InOrder /\ InHandler /\ InTime /\ InRange /\ WillWake
  /\ RunningIffListed /\ SpinsOnlyForTimers

\* No timer is in the list twice: it would fire twice and one copy would
\* survive stop().  A timer may be started again from the moment execute() has
\* cleared mRunning, while it is still in the list; it is not, however, when
\* start() or setRepeat() changes its kind just then, which Turns allows.
NoTimerTwice ==
  \A i, j \in 1..Len(mTimers) : mTimers[i] = mTimers[j] => i = j

\* runTimers() only looks at the front of the list: when it does, no other
\* timer is due earlier, although start() writes mExpiry without the lock, also
\* that of a one-shot timer the loop has executed and not yet erased.
FrontIsEarliest ==
  At("timers") /\ HasLock(Loop) /\ mTimers # <<>> =>
    \A t \in Timers : Listed(t) => left[Head(mTimers)] <= left[t]

\* The loop does not sleep past a timer: in select(), either a wake byte is
\* in the pipe, or the thread that added the timer is about to write it, or
\* the timeout ends no later than the timer is due, up to the time the loop
\* thread itself was busy since it read the clock.
NoOversleep ==
  At("select") /\ pipe = <<>> =>
    \A t \in Timers :
      Listed(t) /\ (\A p \in Threads : todo[p] = <<>>) =>
        loop.wait = 0 \/ loop.wait <= left[t] + loop.lag

\* A callback always finds data: nothing else reads a watched descriptor, and
\* a read without data would block the loop thread for good.
CallbackHasData == At("callback") => mFdWatchers[loop.pos] \in readable

\* A due timer is executed, or removed by its user.
DueTimerRuns ==
  \A t \in Timers :
    (Listed(t) /\ left[t] <= 0) ~> (loop.timer = t \/ ~Listed(t) \/ At("ended"))

\* Data on a watched descriptor is dispatched, if the loop did not know the
\* descriptor when it entered select() at the latest after WAIT_TIME.
DataIsDispatched ==
  \A f \in Fds :
    (f \in readable /\ Watched(f)) ~> (f \notin readable \/ ~Watched(f) \/ At("ended"))

\* terminate() ends the loop, whatever timers and wake bytes precede it.
TerminateEnds ==
  (\E i \in 1..Len(pipe) : pipe[i] = "T") ~> At("ended")

=============================================================================
