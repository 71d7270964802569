---------------------------- MODULE TimerThread ----------------------------
(***************************************************************************)
(* base/timer_thread.cpp: an ITimer whose handler runs on a Task of its    *)
(* own.  The owner's part is start() and stop(), which both go through     *)
(* Task::stop(); the worker's part is run().  How long a sleep lasts is    *)
(* left open: Timeout may come at any time, early (a spurious wakeup       *)
(* calls the handler early here, as it does in the code) or late.          *)
(***************************************************************************)
EXTENDS LoopTask

VARIABLES mRepeat,
          call       \* per owner: the TimerThread operation it is inside, or
                     \* the one it has returned from

ownVars == <<mExitTask, mRepeat, call>>
threadVars == <<taskVars, ownVars>>

TimerTypeOK ==
  /\ TypeOK
  /\ mExitTask \in BOOLEAN /\ mRepeat \in BOOLEAN
  /\ call \in [Owners -> {"stopped", "rearm", "start", "started", "stop"}]

TimerInit ==
  /\ TaskInit
  /\ mExitTask = FALSE
  /\ mRepeat = FALSE
  /\ call = [o \in Owners |-> "stopped"]

----------------------------------------------------------------------------
(* The owner *)

Free(o) == pc[o] = "idle" /\ call[o] \in {"stopped", "started"}

\* Mutant of TimerStop: the loop's flag is not set.
TimerStopUnflagged(o) ==
  /\ Free(o)
  /\ call' = [call EXCEPT ![o] = "stop"]
  /\ CallStop(o)
  /\ UNCHANGED <<mExitTask, mRepeat>>

\* Mutant of TimerStop: the worker is told to end and left to the next start().
TimerStopUnjoined(o) ==
  /\ Free(o)
  /\ mExitTask' = TRUE
  /\ call' = [call EXCEPT ![o] = "stopped"]
  /\ UNCHANGED <<taskVars, mRepeat>>

\* stop(): the flag first, then Task::stop().
TimerStop(o) ==
  /\ Free(o)
  /\ mExitTask' = TRUE
  /\ call' = [call EXCEPT ![o] = "stop"]
  /\ CallStop(o)
  /\ UNCHANGED mRepeat

\* Mutant of TimerStart: only the flag is set, Task::stop() is not called.
TimerStartUnstopped(o) ==
  /\ Free(o)
  /\ mExitTask' = TRUE
  /\ call' = [call EXCEPT ![o] = "rearm"]
  /\ UNCHANGED <<taskVars, mRepeat>>

\* start() begins with stop() ...
TimerStart(o) ==
  /\ Free(o)
  /\ mExitTask' = TRUE
  /\ call' = [call EXCEPT ![o] = "rearm"]
  /\ CallStop(o)
  /\ UNCHANGED mRepeat

\* ... then sets the fields and calls Task::start().
TimerArms(o, repeat) ==
  /\ pc[o] = "idle"
  /\ call[o] = "rearm"
  /\ mRepeat' = repeat
  /\ mExitTask' = FALSE
  /\ call' = [call EXCEPT ![o] = "start"]
  /\ CallStart(o)

\* A step of the owner inside Task; the last one returns from the operation.
TimerInTask(o) ==
  /\ OwnerStep(o)
  /\ call' = IF pc'[o] # "idle" \/ call[o] = "rearm" THEN call
             ELSE [call EXCEPT ![o] = IF @ = "stop" THEN "stopped" ELSE "started"]
  /\ UNCHANGED <<mExitTask, mRepeat>>

SetRepeatFlag(o, repeat) ==
  /\ Free(o)
  /\ mRepeat' = repeat
  /\ UNCHANGED <<taskVars, mExitTask, call>>

----------------------------------------------------------------------------
(* The worker: run() *)

\* while (!mExitTask): compute the timeout and sleep.
LoopSleeps(w) == ~mExitTask /\ RunSleeps(w) /\ UNCHANGED ownVars
LoopEnds(w) == ExitsLoop(w) /\ UNCHANGED ownVars

\* Mutant of LoopContinues: state() is not asked after a sleep.
LoopContinuesAlways(w) ==
  pc[w] = "slept" /\ Moves(w, "run") /\ UNCHANGED ownVars

\* STOPPING: continue, that is, back to the loop's condition.
LoopContinues(w) == RunContinues(w) /\ UNCHANGED ownVars

\* Not stopping: the handler is called, by a worker that has slept.
HandlerBegins(w) == pc[w] = "slept" /\ RunWorks(w) /\ UNCHANGED ownVars

\* Mutant of HandlerEnds: a one-shot timer goes on.
HandlerEndsAgain(w) == pc[w] = "body" /\ Moves(w, "run") /\ UNCHANGED ownVars

\* The handler has returned: again, or break.
HandlerEnds(w) ==
  /\ pc[w] = "body"
  /\ Moves(w, IF mRepeat THEN "run" ELSE "leaving")
  /\ UNCHANGED ownVars

TimerRun(w) ==
  \/ LoopSleeps(w) \/ LoopEnds(w) \/ LoopContinues(w)
  \/ HandlerBegins(w) \/ HandlerEnds(w)

TimerInWorker(w) == WorkerStep(w) /\ UNCHANGED ownVars

TimerElapses(w) == Timeout(w) /\ UNCHANGED ownVars

TimerOwner(o) ==
  TimerInTask(o) \/ \E repeat \in BOOLEAN : TimerArms(o, repeat)

TimerNext ==
  \/ \E o \in Owners : \/ TimerStop(o) \/ TimerStart(o) \/ TimerOwner(o)
                       \/ \E repeat \in BOOLEAN : SetRepeatFlag(o, repeat)
  \/ \E w \in Workers : TimerRun(w) \/ TimerInWorker(w) \/ TimerElapses(w)

TimerSpec == TimerInit /\ [][TimerNext]_threadVars

\* Threads that can run do, and handlers return; a sleep may last for ever.
ThreadsRun ==
  /\ \A o \in Owners : WF_threadVars(TimerOwner(o))
  /\ \A w \in Workers : WF_threadVars(TimerRun(w)) /\ WF_threadVars(TimerInWorker(w))

SleepsEnd == \A w \in Workers : WF_threadVars(TimerElapses(w))

FairTimerSpec == TimerSpec /\ ThreadsRun

----------------------------------------------------------------------------
(* Properties *)

\* The state of the abstract timer, from where the worker is.
TimerState ==
  IF \A w \in Workers : ~Alive(w) THEN "off"
  ELSE IF \E w \in Workers : pc[w] = "body" THEN "firing"
  ELSE IF \E w \in Workers : pc[w] \in {"run", "sleep", "waiting", "slept"}
       THEN "armed"
  ELSE "spent"

\* The thread that uses the timer: AbstractTimer's is one.
User == call[CHOOSE o \in Owners : TRUE]

Promise == INSTANCE AbstractTimer
             WITH state <- TimerState, repeat <- mRepeat, user <- User

\* The timer thread keeps the promise of an ITimer: stop() returns when the
\* handler neither runs nor will be called, no handler call comes before the
\* next start(), and a one-shot timer calls it once.
KeepsPromise == Promise!AbsSpec

\* run(), start() and stop() use Task the way Task's specification allows:
\* whatever is proved of Task holds of the timer thread.
IsATask == Spec

\* start() is never refused by Task: the stop() it begins with has always
\* brought the task back to INIT, so a started timer is really started.
StartNeverRefused ==
  \A o \in Owners : call[o] = "start" /\ pc[o] = "start" => mState = "INIT"

\* A started timer calls its handler unless it is told to stop first, if its
\* sleeps end.
StartedTimerFires ==
  SleepsEnd =>
    ((TimerState = "armed" /\ ~mExitTask) ~> (TimerState = "firing" \/ mExitTask))

\* stop() returns even if the sleep would last for ever (FairTimerSpec): it never
\* depends on a timeout to wake the worker.
TimerStopReturns == \A o \in Owners : call[o] = "stop" ~> call[o] = "stopped"

\* The inductive invariant: TaskInv, and where the owner is inside Task in
\* each of the timer's operations.  start() never takes Task's way through
\* the nested stop().
TimerInv ==
  /\ TaskInv
  /\ TimerTypeOK
  /\ nested = {}
  /\ \A o \in Owners :
       /\ call[o] = "stopped" => pc[o] = "idle" /\ mState = "INIT"
       /\ call[o] = "started" => pc[o] = "idle"
       /\ mExitTask => call[o] \in {"rearm", "stop", "stopped"}
       /\ call[o] = "rearm" =>
            \/ pc[o] \in {"stop", "unlocked", "joining", "joined"}
            \/ pc[o] = "idle" /\ mState = "INIT"
       /\ call[o] = "start" => \/ pc[o] = "start" /\ mState = "INIT"
                               \/ pc[o] = "starting"
       /\ call[o] = "stop" =>
            pc[o] \in {"stop", "unlocked", "joining", "joined"}
=============================================================================
