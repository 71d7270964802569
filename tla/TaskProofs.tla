---------------------------- MODULE TaskProofs ----------------------------
(***************************************************************************)
(* What a step of Task keeps, and what start() and stop() guarantee a task *)
(* whose owners take turns, for any set of owners and of thread ids.       *)
(* TaskInv needs the owners to take turns: start() gives the mutex up to   *)
(* join and does not look at mState again, so two owners that start a task *)
(* at that moment both create a worker.  SharedInv needs nothing.  Then    *)
(* the two tasks of this program, TimerThread and IRQ.                     *)
(***************************************************************************)
EXTENDS TaskTurns, TimerThread, Irq, TLAPS

\* All calls of start(), stop() and sleep() come from one thread.
SingleOwner == \A a, b \in Owners : a = b

\* The labels and values of the initial state satisfy the invariant.
LEMMA InitInv == ASSUME TaskInit PROVE TaskInv
  BY TaskAssumption
     DEF TaskInit, TaskInv, TypeOK, Threads, TaskStates, OwnerLabels,
         WorkerLabels, WorkerSleepsInterruptibly, InitMeansNoWorker, Alive

\* A step of the owner whose turn it is keeps the invariant.
LEMMA OwnerInv ==
  ASSUME TakesTurns, TaskInv, NEW o \in Owners, Call(o) \/ OwnerStep(o)
  PROVE  TaskInv'
  <1> USE TaskAssumption
          DEF TakesTurns, TaskInv, TypeOK, Threads, TaskStates, OwnerLabels,
              WorkerLabels, WorkerSleepsInterruptibly, InitMeansNoWorker,
              Alive, Working, Goto, Moves
  <1>1. CASE Call(o)
    BY <1>1 DEF Call, CallStart, CallStop, CallSleep
  <1>2. CASE StartRefused(o)
    BY <1>2 DEF StartRefused
  <1>3. CASE StartStopped(o)
    BY <1>3 DEF StartStopped
  <1>4. CASE StartFails(o)
    BY <1>4 DEF StartFails, CanCreate
  <1>5. ASSUME NEW w \in Workers, Create(o, w) PROVE TaskInv'
    BY <1>5 DEF Create, CanCreate
  <1>6. CASE Started(o)
    BY <1>6 DEF Started
  <1>7. CASE StopIgnored(o)
    BY <1>7 DEF StopIgnored, StopEnter, AfterStop
  <1>8. CASE StopSignals(o)
    BY <1>8 DEF StopSignals, StopEnter, Signal
  <1>9. CASE StopNoThread(o)
    BY <1>9 DEF StopNoThread, StopEnter
  <1>10. CASE JoinBegins(o)
    BY <1>10 DEF JoinBegins
  <1>11. CASE Joined(o)
    BY <1>11 DEF Joined
  <1>12. CASE StopEnds(o)
    BY <1>12 DEF StopEnds, AfterStop
  <1>13. CASE SleepRefused(o)
    BY <1>13 DEF SleepRefused, AfterSleep
  <1>14. CASE SleepHolds(o)
    BY <1>14 DEF SleepHolds
  <1>15. CASE SleepReleases(o)
    BY <1>15 DEF SleepReleases, AfterSleep
  <1> QED
    BY <1>1, <1>2, <1>3, <1>4, <1>5, <1>6, <1>7, <1>8, <1>9, <1>10, <1>11,
       <1>12, <1>13, <1>14, <1>15 DEF OwnerStep

\* So does a step of a worker, wherever the owner is.
LEMMA WorkerInv ==
  ASSUME TakesTurns, TaskInv, NEW w \in Workers,
         WorkerStep(w) \/ RunStep(w) \/ Timeout(w)
  PROVE  TaskInv'
  <1> USE TaskAssumption
          DEF TakesTurns, TaskInv, TypeOK, Threads, TaskStates, OwnerLabels,
              WorkerLabels, WorkerSleepsInterruptibly, InitMeansNoWorker,
              Alive, Working, Goto, Moves
  <1>1. CASE SleepRefused(w)
    BY <1>1 DEF SleepRefused, AfterSleep
  <1>2. CASE SleepWaits(w)
    BY <1>2 DEF SleepWaits
  <1>3. CASE SleepHolds(w)
    BY <1>3 DEF SleepHolds
  <1>4. CASE SleepReleases(w)
    BY <1>4 DEF SleepReleases
  <1>5. CASE WaitReturns(w)
    BY <1>5 DEF WaitReturns
  <1>6. CASE ProcStopped(w)
    BY <1>6 DEF ProcStopped
  <1>7. CASE ProcEnds(w)
    BY <1>7 DEF ProcEnds
  <1>8. CASE RunStep(w)
    BY <1>8 DEF RunStep, RunSleeps, RunReturns, RunHeeds, RunContinues,
                RunWorks, RunWorked
  <1>9. CASE Timeout(w)
    BY <1>9 DEF Timeout
  <1> QED
    BY <1>1, <1>2, <1>3, <1>4, <1>5, <1>6, <1>7, <1>8, <1>9 DEF WorkerStep

\* Every step of Task, taken while the owners take turns.
LEMMA StepInv ==
  ASSUME TakesTurns, TaskInv, [Next]_taskVars PROVE TaskInv'
  <1>1. CASE Next
    BY <1>1, OwnerInv, WorkerInv DEF Next
  <1>2. CASE UNCHANGED taskVars
    BY <1>2 DEF TaskInv, TypeOK, Threads, WorkerSleepsInterruptibly,
                InitMeansNoWorker, Alive, taskVars
  <1> QED
    BY <1>1, <1>2

\* One owner always takes turns, so the invariant holds in every state.
THEOREM Invariant == ASSUME SingleOwner PROVE Spec => []TaskInv
  <1>1. TaskInit => TaskInv
    BY InitInv
  <1>2. TaskInv /\ [Next]_taskVars => TaskInv'
    <2>1. TakesTurns
      BY DEF TakesTurns, SingleOwner
    <2> QED
      BY <2>1, StepInv
  <1> QED
    BY <1>1, <1>2, PTL DEF Spec

\* With any number of owners, and without any agreement between them, mMutex
\* is held from the creation of a worker to the assignment of RUNNING.
LEMMA SharedInvInductive == SharedInv /\ [Next]_taskVars => SharedInv'
  <1> USE TaskAssumption
          DEF SharedInv, TypeOK, Threads, TaskStates, OwnerLabels,
              WorkerLabels, Working, Goto, Moves
  <1>1. ASSUME SharedInv, NEW o \in Owners, Call(o) PROVE SharedInv'
    BY <1>1 DEF Call, CallStart, CallStop, CallSleep
  <1>2. ASSUME SharedInv, NEW o \in Owners, OwnerStep(o) PROVE SharedInv'
    <2>1. CASE StartRefused(o) \/ StartStopped(o) \/ StartFails(o)
      BY <1>2, <2>1 DEF StartRefused, StartStopped, StartFails, CanCreate
    <2>2. ASSUME NEW w \in Workers, Create(o, w) PROVE SharedInv'
      BY <1>2, <2>2 DEF Create, CanCreate
    <2>3. CASE Started(o)
      BY <1>2, <2>3 DEF Started
    <2>4. CASE StopIgnored(o) \/ StopSignals(o) \/ StopNoThread(o)
      BY <1>2, <2>4
         DEF StopIgnored, StopSignals, StopNoThread, StopEnter, AfterStop, Signal
    <2>5. CASE JoinBegins(o)
      BY <1>2, <2>5 DEF JoinBegins
    <2>6. CASE Joined(o)
      BY <1>2, <2>6 DEF Joined
    <2>7. CASE StopEnds(o)
      BY <1>2, <2>7 DEF StopEnds, AfterStop
    <2>8. CASE SleepRefused(o) \/ SleepHolds(o) \/ SleepReleases(o)
      BY <1>2, <2>8 DEF SleepRefused, SleepHolds, SleepReleases, AfterSleep
    <2> QED
      BY <1>2, <2>1, <2>2, <2>3, <2>4, <2>5, <2>6, <2>7, <2>8 DEF OwnerStep
  <1>3. ASSUME SharedInv, NEW w \in Workers, WorkerStep(w) PROVE SharedInv'
    <2>1. CASE SleepRefused(w) \/ SleepWaits(w) \/ WaitReturns(w)
      BY <1>3, <2>1 DEF SleepRefused, SleepWaits, WaitReturns, AfterSleep
    <2>2. CASE SleepHolds(w)
      BY <1>3, <2>2 DEF SleepHolds
    <2>3. CASE SleepReleases(w)
      BY <1>3, <2>3 DEF SleepReleases, AfterSleep
    <2>4. CASE ProcStopped(w) \/ ProcEnds(w)
      BY <1>3, <2>4 DEF ProcStopped, ProcEnds
    <2> QED
      BY <1>3, <2>1, <2>2, <2>3, <2>4 DEF WorkerStep
  <1>4. ASSUME SharedInv, NEW w \in Workers, RunStep(w) PROVE SharedInv'
    BY <1>4 DEF RunStep, RunSleeps, RunReturns, RunHeeds, RunContinues,
                RunWorks, RunWorked
  <1>5. ASSUME SharedInv, NEW w \in Workers, Timeout(w) PROVE SharedInv'
    BY <1>5 DEF Timeout
  <1>6. ASSUME SharedInv, UNCHANGED taskVars PROVE SharedInv'
    BY <1>6 DEF taskVars
  <1> QED
    BY <1>1, <1>2, <1>3, <1>4, <1>5, <1>6 DEF Next

\* However many threads start and stop a task at the same time, STOPPED is
\* never overwritten by the RUNNING of the start() that created the worker.
THEOREM StartKeepsItsWorker == Spec => []StartOwnsItsWorker
  <1>1. TaskInit => SharedInv
    BY TaskAssumption DEF TaskInit, SharedInv, TypeOK, Threads, TaskStates,
                          OwnerLabels, WorkerLabels
  <1>2. SharedInv => StartOwnsItsWorker
    BY DEF SharedInv, StartOwnsItsWorker, Working
  <1> QED
    BY <1>1, <1>2, SharedInvInductive, PTL DEF Spec

\* A step that starts in the invariant follows the life cycle.
LEMMA StepFollows == ASSUME TaskInv, Next PROVE StateFollows
  <1> USE DEF StateFollows, TaskInv, Moves
  <1>1. ASSUME NEW o \in Owners, Call(o) \/ OwnerStep(o)
        PROVE  StateFollows
    <2>1. CASE Started(o)
      BY <2>1 DEF Started
    <2>2. CASE StopSignals(o)
      BY <2>2 DEF StopSignals
    <2>3. CASE StopNoThread(o)
      BY <2>3 DEF StopNoThread
    <2>4. CASE StopEnds(o)
      BY <2>4 DEF StopEnds
    <2>5. CASE mState' = mState
      BY <2>5
    <2> QED
      BY <1>1, <2>1, <2>2, <2>3, <2>4, <2>5
         DEF Call, CallStart, CallStop, CallSleep, OwnerStep, StartRefused,
             StartStopped, StartFails, Create, StopIgnored, JoinBegins,
             Joined, SleepRefused, SleepHolds, SleepReleases
  <1>2. ASSUME NEW w \in Workers,
               WorkerStep(w) \/ RunStep(w) \/ Timeout(w)
        PROVE  StateFollows
    <2>1. CASE ProcStopped(w)
      BY <1>2, <2>1, TaskAssumption
         DEF ProcStopped, TypeOK, TaskStates, Alive, Threads,
             InitMeansNoWorker
    <2>2. CASE mState' = mState
      BY <2>2
    <2> QED
      BY <1>2, <2>1, <2>2
         DEF WorkerStep, RunStep, Timeout, SleepRefused, SleepWaits,
             SleepHolds, SleepReleases, WaitReturns, ProcEnds, RunSleeps,
             RunReturns, RunHeeds, RunContinues, RunWorks, RunWorked
  <1> QED
    BY <1>1, <1>2 DEF Next

----------------------------------------------------------------------------
(* Owners that take turns *)

\* As long as overlap is FALSE both the turns and TaskInv are kept.
THEOREM TurnsInvariant == TurnsSpec => []TurnsInv
  <1>1. TurnsInit => TurnsInv
    <2> SUFFICES ASSUME TurnsInit PROVE TurnsInv
      OBVIOUS
    <2>1. TaskInv
      BY InitInv DEF TurnsInit
    <2>2. TakesTurns
      BY DEF TurnsInit, TaskInit, TakesTurns, Threads
    <2> QED
      BY <2>1, <2>2 DEF TurnsInit, TurnsInv
  <1>2. TurnsInv /\ [TurnsNext]_turnsVars => TurnsInv'
    <2> SUFFICES ASSUME TurnsInv, [TurnsNext]_turnsVars PROVE TurnsInv'
      OBVIOUS
    <2>1. CASE TurnsNext
      <3>1. overlap' \in BOOLEAN
        BY <2>1 DEF TurnsNext, TurnsInv
      <3>2. ASSUME ~overlap' PROVE TakesTurns' /\ TaskInv'
        <4>1. ~overlap /\ TakesTurns' /\ Next
          BY <2>1, <3>2 DEF TurnsNext
        <4> QED
          BY <4>1, StepInv DEF TurnsInv
      <3> QED
        BY <3>1, <3>2 DEF TurnsInv
    <2>2. CASE UNCHANGED turnsVars
      <3>1. overlap' = overlap /\ UNCHANGED taskVars
        BY <2>2 DEF turnsVars
      <3>2. TakesTurns => TakesTurns'
        BY <3>1 DEF TakesTurns, taskVars
      <3> QED
        BY <3>1, <3>2, StepInv DEF TurnsInv
    <2> QED
      BY <2>1, <2>2
  <1> QED
    BY <1>1, <1>2, PTL DEF TurnsSpec

\* A task never has two unjoined threads: start() joins the previous worker
\* before it creates the next one.
THEOREM OneWorker == TurnsSpec => []OneWorkerByTurns
  <1>1. TurnsInv => OneWorkerByTurns
    BY DEF TurnsInv, TaskInv, OneWorkerByTurns, AtMostOneWorker
  <1> QED
    BY <1>1, TurnsInvariant, PTL

\* When the task is back in INIT, that is when stop() has returned, its
\* worker is gone.
THEOREM StoppedForGood == TurnsSpec => [](~overlap => InitMeansNoWorker)
  <1>1. TurnsInv => (~overlap => InitMeansNoWorker)
    BY DEF TurnsInv, TaskInv
  <1> QED
    BY <1>1, TurnsInvariant, PTL

\* pthread_join() is only ever called on a thread that exists and has not
\* been joined.
THEOREM JoinsAreReal == TurnsSpec => [](~overlap => JoinsARealThread)
  <1>1. TurnsInv => (~overlap => JoinsARealThread)
    BY TaskAssumption DEF TurnsInv, TaskInv, TypeOK, JoinsARealThread
  <1> QED
    BY <1>1, TurnsInvariant, PTL

\* A worker's sleep can always be interrupted by stop().
THEOREM Interruptible ==
  TurnsSpec => [](~overlap => WorkerSleepsInterruptibly)
  <1>1. TurnsInv => (~overlap => WorkerSleepsInterruptibly)
    BY DEF TurnsInv, TaskInv
  <1> QED
    BY <1>1, TurnsInvariant, PTL

\* The state machine of mState, step by step.
THEOREM LifeCycleHolds == TurnsSpec => LifeCycleByTurns
  <1>1. TurnsInv /\ [TurnsNext]_turnsVars
          => [~overlap => StateFollows]_turnsVars
    BY StepFollows DEF TurnsInv, TurnsNext
  <1> QED
    BY <1>1, TurnsInvariant, PTL DEF TurnsSpec, LifeCycleByTurns

-----------------------------------------------------------------------------
(* The timer thread is a task, so what is proved above holds of it; with   *)
(* one owner it keeps the promise of AbstractTimer.                        *)

\* Every step of the timer thread is a step of Task, or none of its business.
LEMMA TimerStepIsTaskStep ==
  [TimerNext]_threadVars => [Next]_taskVars
  <1> SUFFICES ASSUME [TimerNext]_threadVars PROVE [Next]_taskVars
    OBVIOUS
  <1>1. ASSUME NEW o \in Owners, TimerStop(o) \/ TimerStart(o) PROVE Next
    BY <1>1 DEF TimerStop, TimerStart, Call, Next
  <1>2. ASSUME NEW o \in Owners, TimerOwner(o) PROVE Next
    BY <1>2 DEF TimerOwner, TimerInTask, TimerArms, Call, Next
  <1>3. ASSUME NEW o \in Owners, NEW repeat \in BOOLEAN,
               SetRepeatFlag(o, repeat)
        PROVE  UNCHANGED taskVars
    BY <1>3 DEF SetRepeatFlag
  <1>4. ASSUME NEW w \in Workers, TimerRun(w) PROVE Next
    <2>1. CASE HandlerEnds(w)
      BY <2>1 DEF HandlerEnds, RunWorked, RunStep, Next
    <2>2. CASE ~HandlerEnds(w)
      BY <1>4, <2>2 DEF TimerRun, LoopSleeps, LoopEnds, ExitsLoop, LoopContinues,
                        HandlerBegins, RunStep, Next
    <2> QED
      BY <2>1, <2>2
  <1>5. ASSUME NEW w \in Workers, TimerInWorker(w) \/ TimerElapses(w)
        PROVE  Next
    BY <1>5 DEF TimerInWorker, TimerElapses, Next
  <1>6. CASE UNCHANGED threadVars
    BY <1>6 DEF threadVars
  <1> QED
    BY <1>1, <1>2, <1>3, <1>4, <1>5, <1>6 DEF TimerNext

\* The timer thread uses Task as Task's specification allows.
THEOREM TimerIsATask == TimerSpec => IsATask
  <1>1. TimerInit => TaskInit
    BY DEF TimerInit
  <1> QED
    BY <1>1, TimerStepIsTaskStep, PTL DEF TimerSpec, IsATask, Spec

\* The invariant of the task holds of the timer thread.
LEMMA TimerTaskInv == ASSUME SingleOwner PROVE TimerSpec => []TaskInv
  BY TimerIsATask, Invariant, PTL DEF IsATask

\* Where the owner is, in each of its operations.
LEMMA TimerInvInductive ==
  ASSUME SingleOwner, TimerInv, TaskInv', [TimerNext]_threadVars
  PROVE  TimerInv'
  <1> USE DEF TimerInv, TimerTypeOK
  <1>0. TypeOK'
    BY DEF TaskInv
  <1>t. pc \in [Threads -> OwnerLabels \cup WorkerLabels] /\ Owners \subseteq Threads
    BY DEF TaskInv, TypeOK, Threads
  <1>1. ASSUME NEW o \in Owners, TimerStop(o) \/ TimerStart(o)
        PROVE  TimerInv'
    BY <1>0, <1>1, <1>t DEF TimerStop, TimerStart, CallStop, Moves, Goto,
                      Free, SingleOwner
  <1>2. ASSUME NEW o \in Owners, NEW repeat \in BOOLEAN, TimerArms(o, repeat)
        PROVE  TimerInv'
    BY <1>0, <1>2, <1>t DEF TimerArms, CallStart, Moves, Goto, SingleOwner
  <1>3. ASSUME NEW o \in Owners, TimerInTask(o) PROVE TimerInv'
    BY <1>0, <1>3, <1>t
       DEF TimerInTask, OwnerStep, StartRefused, StartStopped, StartFails,
           CanCreate, Create, Started, StopIgnored, StopEnter, StopSignals,
           StopNoThread, JoinBegins, Joined, StopEnds, AfterStop,
           SleepRefused, SleepHolds, SleepReleases, AfterSleep, Moves, Goto,
           SingleOwner, TaskInv, TypeOK, TaskStates
  <1>4. ASSUME NEW o \in Owners, NEW repeat \in BOOLEAN,
               SetRepeatFlag(o, repeat)
        PROVE  TimerInv'
    BY <1>0, <1>4 DEF SetRepeatFlag, taskVars
  <1>5. ASSUME NEW w \in Workers,
               TimerRun(w) \/ TimerInWorker(w) \/ TimerElapses(w)
        PROVE  TimerInv'
    <2>1. /\ UNCHANGED <<mExitTask, mRepeat, call, nested>>
          /\ \A o \in Owners : pc'[o] = pc[o]
      BY <1>5, <1>t, TaskAssumption
         DEF TimerRun, TimerInWorker, TimerElapses, ownVars, LoopSleeps,
             LoopEnds, ExitsLoop, LoopContinues, HandlerBegins, HandlerEnds, RunSleeps,
             RunReturns, RunContinues, RunWorks, Moves, Goto, WorkerStep,
             SleepRefused, SleepWaits, SleepHolds, SleepReleases,
             WaitReturns, ProcStopped, ProcEnds, Timeout
    <2>2. mState = "INIT" => mState' = "INIT" \/ \E o \in Owners : pc[o] = "starting"
      BY <1>5, <1>t, TaskAssumption
         DEF TimerRun, TimerInWorker, TimerElapses, LoopSleeps,
             LoopEnds, ExitsLoop, LoopContinues, HandlerBegins, HandlerEnds, RunSleeps,
             RunReturns, RunContinues, RunWorks, Moves, WorkerStep,
             SleepRefused, SleepWaits, SleepHolds, SleepReleases,
             WaitReturns, ProcStopped, ProcEnds, Timeout,
             TaskInv, InitMeansNoWorker, Alive
    <2> QED
      BY <1>0, <2>1, <2>2 DEF SingleOwner
  <1>6. CASE UNCHANGED threadVars
    BY <1>0, <1>6 DEF threadVars, taskVars, ownVars
  <1> QED
    BY <1>1, <1>2, <1>3, <1>4, <1>5, <1>6 DEF TimerNext, TimerOwner

\* The flag mExitTask and the remaining repeat agree with the task's state in
\* every reachable state.
THEOREM TimerInvariant == ASSUME SingleOwner PROVE TimerSpec => []TimerInv
  <1>1. TimerInit /\ TaskInv => TimerInv
    BY DEF TimerInit, TaskInit, TimerInv, TimerTypeOK, TaskInv, Threads
  <1>2. TimerInv /\ TaskInv' /\ [TimerNext]_threadVars => TimerInv'
    BY TimerInvInductive
  <1> QED
    BY <1>1, <1>2, TimerTaskInv, PTL DEF TimerSpec

\* The stop() that start() begins with always leaves the task in INIT, so
\* Task::start() is never refused and never needs its own nested stop().
THEOREM StartIsNeverRefused ==
  ASSUME SingleOwner PROVE TimerSpec => []StartNeverRefused
  <1>1. TimerInv => StartNeverRefused
    BY DEF TimerInv, StartNeverRefused
  <1> QED
    BY <1>1, TimerInvariant, PTL

\* With at most one worker, the abstract state is the place of that worker.
LEMMA TimerStateIs ==
  ASSUME TaskInv, NEW w \in Workers, Alive(w)
  PROVE  TimerState = IF pc[w] = "body" THEN "firing"
                      ELSE IF pc[w] \in {"run", "sleep", "waiting", "slept"}
                           THEN "armed" ELSE "spent"
  BY DEF TaskInv, Alive, TimerState

LEMMA TimerStateOff ==
  ASSUME \A w \in Workers : pc[w] = "none" PROVE TimerState = "off"
  BY DEF Alive, TimerState

\* AbstractTimer's user is the single owner.
LEMMA UserIs ==
  ASSUME SingleOwner, NEW o \in Owners PROVE User = call[o] /\ User' = call'[o]
  <1>1. (CHOOSE p \in Owners : TRUE) \in Owners
    OBVIOUS
  <1>2. (CHOOSE p \in Owners : TRUE) = o
    BY <1>1 DEF SingleOwner
  <1> QED
    BY <1>2 DEF User

\* The step of the abstract timer that a worker's step is.
LEMMA WorkerKeepsPromise ==
  ASSUME SingleOwner, Owners # {}, TimerInv, TaskInv', NEW w \in Workers,
         TimerRun(w) \/ TimerInWorker(w) \/ TimerElapses(w)
  PROVE  [Promise!AbsNext]_<<TimerState, mRepeat, User>>
  <1>t. pc \in [Threads -> OwnerLabels \cup WorkerLabels] /\ w \in Threads
    BY DEF TimerInv, TaskInv, TypeOK, Threads
  <1>r. mRepeat' = mRepeat /\ User' = User /\ mRepeat \in BOOLEAN
    BY DEF TimerRun, TimerInWorker, TimerElapses, LoopSleeps, LoopEnds, ExitsLoop,
           LoopContinues, HandlerBegins, HandlerEnds, ownVars, User, TimerInv,
           TimerTypeOK
  <1>1. Alive(w) \/ pc' = pc
    BY DEF TimerRun, TimerInWorker, TimerElapses, LoopSleeps, LoopEnds, ExitsLoop,
           LoopContinues, HandlerBegins, HandlerEnds, RunSleeps, RunReturns,
           RunContinues, RunWorks, WorkerStep, SleepRefused, SleepWaits,
           SleepHolds, SleepReleases, WaitReturns, ProcStopped, ProcEnds,
           Timeout, Alive
  <1>2. CASE pc' = pc
    BY <1>2, <1>r DEF TimerState, Alive
  <1>3. CASE Alive(w) /\ pc' # pc
    <2>1. \/ pc[w] \in {"run", "sleep", "waiting"} /\ pc'[w] \in {"sleep", "waiting", "slept"}
          \/ pc[w] = "run" /\ pc'[w] = "leaving" /\ mExitTask
          \/ pc[w] = "slept" /\ pc'[w] \in {"run", "body"}
          \/ pc[w] = "body" /\ pc'[w] = IF mRepeat THEN "run" ELSE "leaving"
          \/ pc[w] \in {"leaving", "stopped"} /\ pc'[w] \in {"stopped", "ended"}
      BY <1>3, <1>t, TaskAssumption
         DEF TimerRun, TimerInWorker, TimerElapses, LoopSleeps, LoopEnds, ExitsLoop,
             LoopContinues, HandlerBegins, HandlerEnds, RunSleeps, RunReturns,
             RunContinues, RunWorks, WorkerStep, SleepRefused, SleepWaits,
             SleepHolds, SleepReleases, AfterSleep, WaitReturns, ProcStopped,
             ProcEnds, Timeout, Moves, Goto, TimerInv, TaskInv,
             WorkerSleepsInterruptibly
    <2>2. Alive(w)'
      BY <2>1 DEF Alive
    <2>3. TimerState = IF pc[w] = "body" THEN "firing"
                       ELSE IF pc[w] \in {"run", "sleep", "waiting", "slept"}
                            THEN "armed" ELSE "spent"
      BY <1>3, TimerStateIs DEF TimerInv
    <2>4. TimerState' = IF pc'[w] = "body" THEN "firing"
                        ELSE IF pc'[w] \in {"run", "sleep", "waiting", "slept"}
                             THEN "armed" ELSE "spent"
      BY <2>2 DEF TaskInv, Alive, TimerState
    <2>5. CASE pc[w] = "run" /\ pc'[w] = "leaving" /\ mExitTask
      <3>1. PICK o \in Owners : TRUE
        OBVIOUS
      <3>2. call[o] \in {"rearm", "stop", "stopped"}
        BY <2>5 DEF TimerInv
      \* After the return of stop() there is no worker.
      <3>3. call[o] # "stopped"
        BY <1>3 DEF TimerInv, TaskInv, InitMeansNoWorker, SingleOwner
      <3>4. User \in {"rearm", "stop"}
        BY <3>2, <3>3, UserIs
      <3> QED
        BY <2>3, <2>4, <2>5, <3>4, <1>r
           DEF Promise!AbsNext, Promise!Cancel, Promise!Ending, Promise!Becomes
    <2> QED
      BY <2>1, <2>3, <2>4, <2>5, <1>r
         DEF Promise!AbsNext, Promise!Fire, Promise!Rearm, Promise!Spend,
             Promise!Becomes
  <1> QED
    BY <1>1, <1>2, <1>3

\* Calls and returns of stop() and start(), pthread_create() and pthread_join()
\* are what the abstract timer sees of the owner's steps in Task.
LEMMA OwnerKeepsPromise ==
  ASSUME SingleOwner, TimerInv, TimerInv', NEW o \in Owners,
         TimerStop(o) \/ TimerStart(o) \/ TimerInTask(o)
  PROVE  [Promise!AbsNext]_<<TimerState, mRepeat, User>>
  <1>t. pc \in [Threads -> OwnerLabels \cup WorkerLabels] /\ o \in Threads
        /\ Workers \subseteq Threads /\ o \notin Workers
        /\ call \in [Owners -> {"stopped", "rearm", "start", "started", "stop"}]
    BY TaskAssumption DEF TimerInv, TimerTypeOK, TaskInv, TypeOK, Threads
  <1>r. mRepeat' = mRepeat /\ User = call[o] /\ User' = call'[o]
    BY UserIs DEF TimerStop, TimerStart, TimerInTask
  <1>1. CASE TimerStop(o) \/ TimerStart(o)
    <2>1. TimerState' = TimerState
      BY <1>1, <1>t
         DEF TimerStop, TimerStart, CallStop, Moves, Goto, TimerState, Alive
    <2>2. Promise!Outside /\ User' \in {"stop", "rearm"}
      BY <1>1, <1>r, <1>t DEF TimerStop, TimerStart, Free, Promise!Outside
    <2> QED
      BY <2>1, <2>2, <1>r DEF Promise!AbsNext, Promise!UserCalls
  <1>2. ASSUME NEW w \in Workers, Create(o, w), TimerInTask(o)
        PROVE  [Promise!AbsNext]_<<TimerState, mRepeat, User>>
    <2>1. \A v \in Workers : pc[v] = "none"
      BY <1>2, TaskAssumption
         DEF TimerInv, TaskInv, Create, CanCreate, InitMeansNoWorker, Alive,
             Threads
    <2>2. pc'[w] = "run" /\ \A v \in Workers \ {w} : pc'[v] = "none"
      BY <1>2, <1>t, <2>1 DEF Create
    <2>3. TimerState = "off" /\ TimerState' = "armed"
      BY <2>1, <2>2 DEF TimerState, Alive
    <2>4. User = "start" /\ User' = User
      BY <1>2, <1>t, <1>r DEF TimerInTask, Create, CanCreate, TimerInv
    <2> QED
      BY <2>3, <2>4, <1>r DEF Promise!AbsNext, Promise!Arm
  <1>3. CASE Joined(o) /\ TimerInTask(o)
    <2>1. /\ target[o] = mId /\ mId \in Workers /\ pc[mId] = "ended"
          /\ \A v \in Workers : v # mId => pc[v] = "none"
      BY <1>3 DEF TimerInv, TaskInv, TypeOK, Joined, Alive
    <2>2. \A v \in Workers : pc'[v] = "none"
      BY <1>3, <1>t, <2>1, TaskAssumption DEF Joined
    <2>3. TimerState = "spent" /\ TimerState' = "off"
      BY <2>1, <2>2 DEF TimerState, Alive
    <2>4. User \in {"rearm", "stop"} /\ User' = User
      BY <1>3, <1>t, <1>r, <2>1, TaskAssumption
         DEF TimerInTask, Joined, Goto, TimerInv, TaskInv, TypeOK, Threads
    <2> QED
      BY <2>3, <2>4, <1>r DEF Promise!AbsNext, Promise!Off, Promise!Ending,
                              Promise!Becomes
  <1>4. CASE (\A w \in Workers : pc'[w] = pc[w]) /\ TimerInTask(o)
    <2>1. TimerState' = TimerState
      BY <1>4 DEF TimerState, Alive
    <2>2. CASE call' = call
      BY <2>1, <2>2, <1>r
    <2>3. CASE call' # call
      <3>1. /\ pc'[o] = "idle"
            /\ call'[o] = IF call[o] = "stop" THEN "stopped" ELSE "started"
            /\ call[o] # "rearm"
        BY <2>3, <1>4, <1>t DEF TimerInTask
      <3>2. call[o] \in {"start", "stop"}
        <4>1. pc[o] # "idle"
          BY <1>4, <1>t
             DEF TimerInTask, OwnerStep, StartRefused, StartStopped, StartFails,
                 CanCreate, Create, Started, StopIgnored, StopEnter, StopSignals,
                 StopNoThread, JoinBegins, Joined, StopEnds, SleepRefused,
                 SleepHolds, SleepReleases
        <4> QED
          BY <4>1, <3>1, <1>t DEF TimerInv
      <3>3. CASE call[o] = "start"
        BY <2>1, <3>1, <3>3, <1>r DEF Promise!AbsNext, Promise!StartReturns
      \* stop() has returned: the task is in INIT, where it has no worker.
      <3>4. CASE call[o] = "stop"
        <4>1. mState' = "INIT"
          BY <3>1, <3>4, <1>t DEF TimerInv
        <4>2. \A w \in Workers : ~Alive(w)'
          BY <4>1, <3>1 DEF TimerInv, TaskInv, InitMeansNoWorker, SingleOwner
        <4>3. TimerState' = "off"
          BY <4>2 DEF TimerState, Alive
        <4> QED
          BY <2>1, <4>3, <3>1, <3>4, <1>r DEF Promise!AbsNext, Promise!StopReturns
      <3> QED
        BY <3>2, <3>3, <3>4
    <2> QED
      BY <2>2, <2>3
  <1>5. TimerInTask(o) =>
          \/ \A w \in Workers : pc'[w] = pc[w]
          \/ \E w \in Workers : Create(o, w)
          \/ Joined(o)
    BY <1>t
       DEF TimerInTask, OwnerStep,
           StartRefused, StartStopped, StartFails, Started, StopIgnored,
           StopSignals, StopNoThread, JoinBegins, StopEnds, SleepRefused,
           SleepHolds, SleepReleases, Moves, Goto
  <1> QED
    BY <1>1, <1>2, <1>3, <1>4, <1>5

\* The timer thread implements the abstract timer: stop() returns only when
\* the handler neither runs nor will be called, no call comes between that
\* return and the next start(), and a one-shot timer fires once.
THEOREM TimerKeepsPromise ==
  ASSUME SingleOwner, Owners # {} PROVE TimerSpec => KeepsPromise
  <1>1. TimerInit => TimerState = "off" /\ mRepeat = FALSE /\ User = "stopped"
    <2>1. TimerInit => TimerState = "off" /\ mRepeat = FALSE
      BY TaskAssumption DEF TimerInit, TaskInit, TimerState, Alive, Threads
    <2>2. TimerInit => User = "stopped"
      <3> PICK o \in Owners : TRUE
        OBVIOUS
      <3> QED
        BY UserIs DEF TimerInit
    <2> QED
      BY <2>1, <2>2
  <1>2. TimerInv /\ TimerInv' /\ [TimerNext]_threadVars
          => [Promise!AbsNext]_<<TimerState, mRepeat, User>>
    <2> SUFFICES ASSUME TimerInv, TimerInv', [TimerNext]_threadVars
                 PROVE  [Promise!AbsNext]_<<TimerState, mRepeat, User>>
      OBVIOUS
    <2>1. ASSUME NEW o \in Owners, NEW r \in BOOLEAN,
                 TimerArms(o, r) \/ SetRepeatFlag(o, r)
          PROVE  [Promise!AbsNext]_<<TimerState, mRepeat, User>>
      <3>1. mRepeat' = r /\ User = call[o] /\ User' = call'[o]
        BY <2>1, UserIs DEF TimerArms, SetRepeatFlag
      <3>2. \A w \in Workers : pc'[w] = pc[w]
        BY <2>1, TaskAssumption
           DEF TimerArms, SetRepeatFlag, CallStart, Moves, Goto, taskVars,
               TimerInv, TaskInv, TypeOK, Threads
      <3>3. TimerState' = TimerState
        BY <3>2 DEF TimerState, Alive
      <3>4. CASE TimerArms(o, r)
        <4>1. \A w \in Workers : ~Alive(w)
          BY <3>4 DEF TimerArms, TimerInv, TaskInv, InitMeansNoWorker,
                      SingleOwner
        <4>2. TimerState = "off"
          BY <4>1 DEF TimerState
        <4> QED
          BY <3>1, <3>3, <3>4, <4>2
             DEF TimerArms, Promise!AbsNext, Promise!Reset, TimerInv, TimerTypeOK
      <3>5. CASE SetRepeatFlag(o, r)
        BY <3>1, <3>3, <3>5
           DEF SetRepeatFlag, Free, Promise!AbsNext, Promise!SetRepeat,
               Promise!Outside
      <3> QED
        BY <2>1, <3>4, <3>5
    <2>2. CASE UNCHANGED threadVars
      BY <2>2 DEF threadVars, taskVars, ownVars, TimerState, Alive, User
    <2> QED
      BY <2>1, <2>2, OwnerKeepsPromise, WorkerKeepsPromise
         DEF TimerNext, TimerOwner, TimerInv
  <1> QED
    BY <1>1, <1>2, TimerInvariant, PTL
       DEF TimerSpec, KeepsPromise, Promise!AbsSpec, Promise!AbsInit,
           Promise!timerVars

-----------------------------------------------------------------------------
(* An IRQ is a task, so what is proved above holds of it; with one owner,  *)
(* whatever the number of value files, thread ids and bytes in the pipe,   *)
(* the worker's file is open and the last request decides the edge.        *)

\* Every step of run() and of the hooks is a step of Task, or none of its
\* business.
LEMMA IrqStepIsTaskStep == [IrqNext]_irqVars => [Next]_taskVars
  <1> SUFFICES ASSUME [IrqNext]_irqVars PROVE [Next]_taskVars
    OBVIOUS
  <1>1. ASSUME NEW o \in Owners, SetListener(o) \/ IrqCall(o) \/ IrqOwner(o)
        PROVE  [Next]_taskVars
    BY <1>1 DEF SetListener, IrqCall, IrqOwner, OpenFails, CreateFails,
                IrqCreate, IrqStopSignals, IrqStopEnds, IrqInTask, OwnerStep,
                Call, Next
  <1>2. ASSUME NEW o \in Owners, NEW on \in BOOLEAN, Request(o, on)
        PROVE  UNCHANGED taskVars
    BY <1>2 DEF Request
  <1>3. ASSUME NEW w \in Workers, IrqRun(w) \/ PollTimesOut(w) \/ PollFails(w)
        PROVE  [Next]_taskVars
    <2>1. CASE HandlerReturns(w)
      BY <2>1 DEF HandlerReturns, RunWorked, RunStep, Next
    <2>2. CASE PollLoopEnds(w) \/ PollFails(w)
      BY <2>2 DEF PollLoopEnds, ExitsLoop, PollFails, RunStep, Next
    <2>3. CASE Interrupt(w)
      BY <2>3 DEF Interrupt, RunStep, Next
    <2>4. CASE \/ Begin(w) \/ Check(w) \/ Poll(w) \/ Command(w)
               \/ NoListener(w) \/ Ack(w) \/ PollTimesOut(w)
      BY <2>4 DEF Begin, Check, Poll, Command, NoListener, Ack, PollTimesOut,
                  Continues
    <2> QED
      BY <1>3, <2>1, <2>2, <2>3, <2>4 DEF IrqRun
  <1>4. ASSUME NEW w \in Workers, IrqEnds(w) PROVE Next
    BY <1>4 DEF IrqEnds, WorkerStep, Next
  <1>5. CASE Edge \/ UNCHANGED irqVars
    BY <1>5 DEF Edge, irqVars
  <1> QED
    BY <1>1, <1>2, <1>3, <1>4, <1>5 DEF IrqNext

\* IRQ uses Task as Task's specification allows.
THEOREM IrqRefinesTask == IrqSpec => IrqIsATask
  <1>1. IrqInit => TaskInit
    BY DEF IrqInit
  <1> QED
    BY <1>1, IrqStepIsTaskStep, PTL DEF IrqSpec, IrqIsATask, Spec

\* The invariant of the task holds of the IRQ.
LEMMA IrqTaskInv == ASSUME SingleOwner PROVE IrqSpec => []TaskInv
  BY IrqRefinesTask, Invariant, PTL DEF IrqIsATask

----------------------------------------------------------------------------
(* The pipe *)

\* What is in the pipe and what the GPIO is set to: the part of the invariant
\* that is about requests.
PipeInv ==
  /\ pipe \in Seq({"D", "E", "T"})
  /\ edge \in BOOLEAN /\ wanted \in BOOLEAN
  /\ EdgeFollowsRequests

\* Another request becomes the last one.
LEMMA RequestKeepsPipe ==
  ASSUME PipeInv, NEW on \in BOOLEAN, wanted' = on, edge' = edge,
         pipe' = Append(pipe, IF on THEN "E" ELSE "D")
  PROVE  PipeInv'
  <1>1. /\ Len(pipe') = Len(pipe) + 1 /\ Len(pipe) \in Nat
        /\ pipe'[Len(pipe')] = IF wanted' THEN "E" ELSE "D"
        /\ pipe' \in Seq({"D", "E", "T"})
    BY DEF PipeInv
  <1>2. /\ Len(pipe') \in 1..Len(pipe')
        /\ \A j \in (Len(pipe') + 1)..Len(pipe') : pipe'[j] = "T"
        /\ pipe'[Len(pipe')] # "T"
    BY <1>1
  <1> QED
    BY <1>1, <1>2 DEF PipeInv, EdgeFollowsRequests

\* A stop byte at the end hides no request.
LEMMA StopKeepsPipe ==
  ASSUME PipeInv, wanted' = wanted, edge' = edge, pipe' = Append(pipe, "T")
  PROVE  PipeInv'
  <1>1. /\ Len(pipe') = Len(pipe) + 1 /\ Len(pipe) \in Nat
        /\ pipe'[Len(pipe')] = "T"
        /\ \A i \in 1..Len(pipe) : pipe'[i] = pipe[i]
        /\ pipe' \in Seq({"D", "E", "T"})
    BY DEF PipeInv
  <1>2. CASE \E i \in 1..Len(pipe) : pipe[i] # "T"
    <2>1. PICK i \in 1..Len(pipe) :
                 /\ pipe[i] = IF wanted THEN "E" ELSE "D"
                 /\ \A j \in (i + 1)..Len(pipe) : pipe[j] = "T"
      BY <1>2 DEF PipeInv, EdgeFollowsRequests
    <2>2. /\ i \in 1..Len(pipe') /\ pipe'[i] = IF wanted' THEN "E" ELSE "D"
          /\ pipe'[i] # "T"
          /\ \A j \in (i + 1)..Len(pipe') : pipe'[j] = "T"
      BY <1>1, <2>1
    <2> QED
      BY <1>1, <2>2 DEF PipeInv, EdgeFollowsRequests
  <1>3. CASE \A i \in 1..Len(pipe) : pipe[i] = "T"
    <2>1. edge = wanted /\ \A i \in 1..Len(pipe') : pipe'[i] = "T"
      BY <1>1, <1>3 DEF PipeInv, EdgeFollowsRequests
    <2> QED
      BY <1>1, <2>1 DEF PipeInv, EdgeFollowsRequests
  <1> QED
    BY <1>2, <1>3

\* The first byte is read and obeyed.
LEMMA CommandKeepsPipe ==
  ASSUME PipeInv, pipe # <<>>, wanted' = wanted, pipe' = Tail(pipe),
         edge' = IF Head(pipe) = "T" THEN edge ELSE Head(pipe) = "E"
  PROVE  PipeInv'
  <1>1. /\ Len(pipe') = Len(pipe) - 1 /\ Len(pipe) \in Nat \ {0}
        /\ \A i \in 1..Len(pipe') : pipe'[i] = pipe[i + 1]
        /\ Head(pipe) = pipe[1] /\ pipe[1] \in {"D", "E", "T"}
        /\ pipe' \in Seq({"D", "E", "T"}) /\ edge' \in BOOLEAN
    <2>1. pipe \in Seq({"D", "E", "T"}) /\ edge \in BOOLEAN
      BY DEF PipeInv
    <2>2. Len(pipe) \in Nat \ {0} /\ pipe[1] \in {"D", "E", "T"}
      BY <2>1
    <2>3. Head(pipe) = pipe[1]
      BY <2>1
    <2>4. /\ Len(pipe') = Len(pipe) - 1
          /\ pipe' \in Seq({"D", "E", "T"})
      BY <2>1, <2>2
    <2>5. \A i \in 1..Len(pipe') : pipe'[i] = pipe[i + 1]
      BY <2>1, <2>2, <2>4
    <2>6. edge' \in BOOLEAN
      BY <2>1
    <2> QED
      BY <2>2, <2>3, <2>4, <2>5, <2>6
  <1>2. CASE \E i \in 1..Len(pipe') : pipe'[i] # "T"
    <2>1. \E i \in 1..Len(pipe) : pipe[i] # "T"
      BY <1>1, <1>2
    <2>2. PICK i \in 1..Len(pipe) :
                 /\ pipe[i] = IF wanted THEN "E" ELSE "D"
                 /\ \A j \in (i + 1)..Len(pipe) : pipe[j] = "T"
      BY <2>1 DEF PipeInv, EdgeFollowsRequests
    <2>3. PICK k \in 1..Len(pipe') : pipe[k + 1] # "T"
      BY <1>1, <1>2
    <2>4. i # 1
      BY <1>1, <2>2, <2>3
    <2>5. /\ i - 1 \in 1..Len(pipe')
          /\ pipe'[i - 1] = IF wanted' THEN "E" ELSE "D"
          /\ \A j \in ((i - 1) + 1)..Len(pipe') : pipe'[j] = "T"
      BY <1>1, <2>2, <2>4
    <2> QED
      BY <1>1, <1>2, <2>5 DEF PipeInv, EdgeFollowsRequests
  <1>3. CASE \A i \in 1..Len(pipe') : pipe'[i] = "T"
    <2>1. \A i \in 2..Len(pipe) : pipe[i] = "T"
      <3>1. ASSUME NEW i \in 2..Len(pipe) PROVE pipe[i] = "T"
        <4>1. i - 1 \in 1..Len(pipe') /\ (i - 1) + 1 = i
          BY <1>1
        <4> QED
          BY <1>1, <1>3, <4>1
      <3> QED
        BY <3>1
    <2>2. edge' = wanted
      <3>1. CASE pipe[1] = "T"
        BY <1>1, <2>1, <3>1 DEF PipeInv, EdgeFollowsRequests
      <3>2. CASE pipe[1] # "T"
        <4>1. 1 \in 1..Len(pipe)
          BY <1>1
        <4>2. PICK i \in 1..Len(pipe) : pipe[i] = IF wanted THEN "E" ELSE "D"
          BY <3>2, <4>1 DEF PipeInv, EdgeFollowsRequests
        <4>3. i = 1
          BY <1>1, <2>1, <4>2
        <4> QED
          BY <1>1, <3>2, <4>2, <4>3 DEF PipeInv
      <3> QED
        BY <3>1, <3>2
    <2> QED
      BY <1>1, <1>3, <2>2 DEF PipeInv, EdgeFollowsRequests
  <1> QED
    BY <1>2, <1>3

----------------------------------------------------------------------------
(* The value file *)

\* Where the worker is and which file it uses: the rest of the invariant.
FileInv ==
  /\ IrqTypeOK
  /\ PollsOpenFile
  /\ ReadsAByte
  /\ \A w \in Workers : Inside(w) /\ at # "begin" => polled = mFD
  /\ \A w \in Workers : pc[w] = "body" => at = "ack"

LEMMA PartsOfIrqInv == IrqInv <=> TaskInv /\ FileInv /\ PipeInv
  BY DEF IrqInv, FileInv, PipeInv, IrqTypeOK

\* A stop byte, a request or nothing is added, or one byte is obeyed.
LEMMA PipeStep ==
  ASSUME PipeInv, ReadsAByte, [IrqNext]_irqVars
  PROVE  PipeInv'
  <1> DEFINE Same == UNCHANGED <<pipe, edge, wanted>>
  <1>0. Same => PipeInv'
    BY DEF PipeInv, EdgeFollowsRequests
  <1>1. ASSUME NEW o \in Owners, NEW on \in BOOLEAN, Request(o, on)
        PROVE  PipeInv'
    BY <1>1, RequestKeepsPipe DEF Request
  <1>2. ASSUME NEW o \in Owners, SetListener(o) \/ IrqCall(o) \/ IrqOwner(o)
        PROVE  PipeInv'
    <2>1. CASE IrqStopSignals(o)
      BY <2>1, StopKeepsPipe DEF IrqStopSignals, PreStop
    <2>2. CASE ~IrqStopSignals(o)
      BY <1>0, <1>2, <2>2
         DEF SetListener, IrqCall, IrqOwner, OpenFails, CreateFails,
             IrqCreate, IrqStopEnds, IrqInTask, gpio
    <2> QED
      BY <2>1, <2>2
  <1>3. ASSUME NEW w \in Workers,
               IrqRun(w) \/ PollTimesOut(w) \/ PollFails(w) \/ IrqEnds(w)
        PROVE  PipeInv'
    <2>1. CASE Command(w)
      BY <2>1, CommandKeepsPipe DEF Command, ReadsAByte
    <2>2. CASE ~Command(w)
      BY <1>0, <1>3, <2>2
         DEF IrqRun, Begin, Check, Poll, Interrupt, HandlerReturns,
             NoListener, Ack, PollLoopEnds, ExitsLoop, PollTimesOut, PollFails,
             IrqEnds, gpio
    <2> QED
      BY <2>1, <2>2
  <1>4. CASE Edge \/ UNCHANGED irqVars
    BY <1>0, <1>4 DEF Edge, irqVars, gpio
  <1> QED
    BY <1>1, <1>2, <1>3, <1>4 DEF IrqNext

\* The types of IRQ's own variables.
LEMMA IrqTypeStep ==
  ASSUME IrqTypeOK, ReadsAByte, [IrqNext]_irqVars
  PROVE  IrqTypeOK'
  <1> USE IrqAssumption DEF IrqTypeOK, IrqLabels
  <1>1. ASSUME NEW o \in Owners, NEW on \in BOOLEAN, Request(o, on)
        PROVE  IrqTypeOK'
    BY <1>1 DEF Request, files, run
  <1>2. ASSUME NEW o \in Owners, SetListener(o) \/ IrqCall(o) \/ IrqOwner(o)
        PROVE  IrqTypeOK'
    <2>1. CASE IrqStopSignals(o)
      BY <2>1 DEF IrqStopSignals, PreStop, files, run
    <2>2. ASSUME NEW w \in Workers, IrqCreate(o, w) PROVE IrqTypeOK'
      BY <2>2 DEF IrqCreate, Opens
    <2>3. CASE OpenFails(o) \/ CreateFails(o)
      BY <2>3 DEF OpenFails, CreateFails, Opens, gpio, run
    <2>4. CASE IrqStopEnds(o)
      BY <2>4 DEF IrqStopEnds, gpio, run
    <2>5. CASE SetListener(o)
      BY <2>5 DEF SetListener, files, gpio, run
    <2>6. CASE IrqCall(o) \/ IrqInTask(o)
      <3>1. UNCHANGED <<mExitTask, mListener, files, gpio, run>>
        BY <2>6 DEF IrqCall, IrqInTask
      <3> QED
        BY <3>1 DEF files, gpio, run
    <2> QED
      BY <1>2, <2>1, <2>2, <2>3, <2>4, <2>5, <2>6 DEF IrqOwner
  <1>3. ASSUME NEW w \in Workers,
               IrqRun(w) \/ PollTimesOut(w) \/ PollFails(w) \/ IrqEnds(w)
        PROVE  IrqTypeOK'
    <2>1. CASE Command(w)
      <3>1. pipe # <<>>
        BY <2>1 DEF Command, ReadsAByte
      <3>2. Tail(pipe) \in Seq({"D", "E", "T"})
        BY <3>1
      <3>3. edge' \in BOOLEAN
        BY <2>1 DEF Command
      <3> QED
        BY <2>1, <3>2, <3>3 DEF Command, Continues, files
    <2>2. CASE HandlerReturns(w) \/ PollLoopEnds(w) \/ PollFails(w) \/ IrqEnds(w)
      <3>1. UNCHANGED <<mExitTask, mListener, files, gpio, run>>
        BY <2>2 DEF HandlerReturns, PollLoopEnds, PollFails, IrqEnds
      <3> QED
        BY <3>1 DEF files, gpio, run
    <2>3. CASE Begin(w) \/ Ack(w)
      BY <2>3 DEF Begin, Ack, Continues, files
    <2>4. CASE Check(w) \/ NoListener(w) \/ PollTimesOut(w)
      BY <2>4 DEF Check, NoListener, PollTimesOut, Continues, files, gpio
    <2>5. CASE Poll(w)
      BY <2>5 DEF Poll, Continues, files, gpio
    <2>6. CASE Interrupt(w)
      BY <2>6 DEF Interrupt, files, gpio
    <2> QED
      BY <1>3, <2>1, <2>2, <2>3, <2>4, <2>5, <2>6 DEF IrqRun
  <1>4. CASE Edge \/ UNCHANGED irqVars
    BY <1>4 DEF Edge, irqVars, files, gpio, run
  <1> QED
    BY <1>1, <1>2, <1>3, <1>4 DEF IrqNext

\* While start() or stop() changes mFD no worker is inside run().
LEMMA FilesChangeUnused ==
  ASSUME SingleOwner, TaskInv, NEW o \in Owners,
         CanCreate(o) \/ pc[o] = "joined"
  PROVE  \A w \in Workers : pc[w] \notin {"run", "body"}
  BY TaskAssumption
     DEF SingleOwner, TaskInv, CanCreate, InitMeansNoWorker, Alive, Working

\* The owner's steps.
LEMMA OwnerKeepsFile ==
  ASSUME SingleOwner, TaskInv, FileInv, IrqTypeOK', NEW o \in Owners,
         \/ SetListener(o) \/ IrqCall(o) \/ IrqOwner(o)
         \/ \E on \in BOOLEAN : Request(o, on)
  PROVE  FileInv'
  <1> USE DEF FileInv, PollsOpenFile, ReadsAByte, Inside, At
  <1>t. /\ pc \in [Threads -> OwnerLabels \cup WorkerLabels] /\ o \in Threads
        /\ Workers \subseteq Threads /\ o \notin Workers
        /\ pipe \in Seq({"D", "E", "T"})
    BY TaskAssumption DEF TaskInv, TypeOK, Threads, IrqTypeOK
  <1>1. CASE SetListener(o) \/ \E on \in BOOLEAN : Request(o, on)
    BY <1>1, <1>t DEF SetListener, Request, taskVars, files, gpio, run
  <1>2. CASE IrqCall(o) \/ IrqStopSignals(o)
    BY <1>2, <1>t
       DEF IrqCall, CallStart, CallStop, IrqStopSignals, StopSignals, PreStop,
           Moves, Goto, files, gpio, run
  <1>3. CASE IrqInTask(o)
    <2>1. \A w \in Workers : pc'[w] = pc[w] \/ pc'[w] = "none"
      BY <1>3, <1>t
         DEF IrqInTask, StartRefused, StartStopped, Started, StopIgnored,
             JoinBegins, Joined, Moves, Goto
    <2> QED
      BY <1>3, <2>1 DEF IrqInTask, files, gpio, run
  <1>4. CASE OpenFails(o) \/ CreateFails(o)
    <2>1. \A w \in Workers : pc[w] \notin {"run", "body"} /\ pc'[w] = pc[w]
      BY <1>4, <1>t, FilesChangeUnused
         DEF OpenFails, CreateFails, StartFails, Moves, Goto
    <2> QED
      BY <2>1
  <1>5. CASE IrqStopEnds(o)
    <2>1. \A w \in Workers : pc[w] \notin {"run", "body"} /\ pc'[w] = pc[w]
      BY <1>5, <1>t, FilesChangeUnused DEF IrqStopEnds, StopEnds, Goto
    <2> QED
      BY <2>1
  <1>6. ASSUME NEW w \in Workers, IrqCreate(o, w) PROVE FileInv'
    <2>1. \A v \in Workers : pc[v] \notin {"run", "body"}
      BY <1>6, FilesChangeUnused DEF IrqCreate, Create
    <2>2. \A v \in Workers \ {w} : pc'[v] = pc[v]
      BY <1>6, <1>t DEF IrqCreate, Create
    <2>3. pc'[w] = "run" /\ at' = "begin" /\ mFD' \in open'
      BY <1>6, <1>t DEF IrqCreate, Create, Opens
    <2> QED
      BY <2>1, <2>2, <2>3
  <1> QED
    BY <1>1, <1>2, <1>3, <1>4, <1>5, <1>6 DEF IrqOwner

\* The worker's steps.
LEMMA RunKeepsFile ==
  ASSUME TaskInv, FileInv, IrqTypeOK', NEW w \in Workers,
         IrqRun(w) \/ PollTimesOut(w) \/ PollFails(w) \/ IrqEnds(w)
  PROVE  FileInv'
  <1> USE DEF FileInv, PollsOpenFile, ReadsAByte, Inside, At
  <1>t. pc \in [Threads -> OwnerLabels \cup WorkerLabels] /\ w \in Threads
        /\ Workers \subseteq Threads
    BY DEF TaskInv, TypeOK, Threads
  <1>u. \A v \in Workers : Alive(v) /\ Alive(w) => v = w
    BY DEF TaskInv
  <1>1. CASE Begin(w) \/ Check(w) \/ Poll(w) \/ PollTimesOut(w) \/ Command(w)
             \/ NoListener(w) \/ Ack(w)
    <2>1. \A v \in Workers : v # w => pc[v] \notin {"run", "body"}
      BY <1>1, <1>u
         DEF Begin, Check, Poll, PollTimesOut, Command, NoListener, Ack, Alive
    <2> QED
      BY <1>1, <2>1
         DEF Begin, Check, Poll, PollTimesOut, Command, NoListener, Ack,
             Continues, taskVars, files, gpio
  <1>2. CASE Interrupt(w)
    <2>1. \A v \in Workers : v # w => pc[v] \notin {"run", "body"}
      BY <1>2, <1>u DEF Interrupt, Alive
    <2>2. \A v \in Workers : v # w => pc'[v] = pc[v]
      BY <1>2, <1>t DEF Interrupt, RunWorks, Moves, Goto
    <2> QED
      BY <1>2, <2>1, <2>2 DEF Interrupt, files, gpio
  <1>3. CASE HandlerReturns(w)
    <2>1. pc[w] = "body" /\ at = "ack" /\ at' = at
      BY <1>3 DEF HandlerReturns, run
    <2>2. \A v \in Workers : v # w => pc'[v] = pc[v]
      BY <1>3, <1>t DEF HandlerReturns, Moves, Goto
    <2>3. pc'[w] = "run"
      BY <1>3, <1>t DEF HandlerReturns, Moves, Goto
    <2> QED
      BY <1>3, <2>1, <2>2, <2>3 DEF HandlerReturns, files, gpio, run
  <1>4. CASE PollLoopEnds(w) \/ PollFails(w) \/ IrqEnds(w)
    <2>1. \A v \in Workers : pc'[v] = pc[v]
                            \/ pc'[v] \in {"leaving", "stopped", "ended"}
      BY <1>4, <1>t
         DEF PollLoopEnds, ExitsLoop, PollFails, RunReturns, IrqEnds, ProcStopped,
                        ProcEnds, Moves, Goto
    <2> QED
      BY <1>4, <2>1 DEF PollLoopEnds, ExitsLoop, PollFails, IrqEnds, files, gpio, run
  <1> QED
    BY <1>1, <1>2, <1>3, <1>4 DEF IrqRun

\* The invariant holds in every reachable state of an IRQ with one owner.
THEOREM IrqInvariant == ASSUME SingleOwner PROVE IrqSpec => []IrqInv
  <1>1. IrqInit /\ TaskInv => FileInv /\ PipeInv
    <2> SUFFICES ASSUME IrqInit, TaskInv PROVE FileInv /\ PipeInv
      OBVIOUS
    <2>1. PipeInv
      <3>1. /\ pipe \in Seq({"D", "E", "T"})
            /\ ~ \E i \in 1..Len(pipe) : pipe[i] # "T"
        BY DEF IrqInit
      <3> QED
        BY <3>1 DEF IrqInit, PipeInv, EdgeFollowsRequests
    <2>2. \A w \in Workers : pc[w] = "none"
      BY TaskAssumption DEF IrqInit, TaskInit, Threads
    <2>3. IrqTypeOK
      BY <2>1 DEF IrqInit, IrqTypeOK, IrqLabels, PipeInv
    <2> QED
      BY <2>1, <2>2, <2>3
         DEF FileInv, PollsOpenFile, ReadsAByte, Inside, At
  <1>2. TaskInv /\ FileInv /\ PipeInv /\ [IrqNext]_irqVars
          => FileInv' /\ PipeInv'
    <2> SUFFICES ASSUME TaskInv, FileInv, PipeInv, [IrqNext]_irqVars
                 PROVE  FileInv' /\ PipeInv'
      OBVIOUS
    <2>1. PipeInv'
      BY PipeStep DEF FileInv
    <2>2. IrqTypeOK'
      BY IrqTypeStep DEF FileInv
    <2>3. CASE Edge \/ UNCHANGED irqVars
      BY <2>1, <2>2, <2>3
         DEF Edge, irqVars, taskVars, files, gpio, run, FileInv,
             PollsOpenFile, ReadsAByte, Inside, At
    <2> QED
      BY <2>1, <2>2, <2>3, OwnerKeepsFile, RunKeepsFile DEF IrqNext
  <1>3. TaskInv /\ FileInv /\ PipeInv => IrqInv
    BY PartsOfIrqInv
  <1> QED
    BY <1>1, <1>2, <1>3, IrqTaskInv, PTL DEF IrqSpec

\* The worker's file is open as long as the worker polls or reads it.
THEOREM FileStaysOpen == ASSUME SingleOwner PROVE IrqSpec => []PollsOpenFile
  <1>1. IrqInv => PollsOpenFile
    BY DEF IrqInv
  <1> QED
    BY <1>1, IrqInvariant, PTL

\* With nothing but stop bytes in the pipe the GPIO is set as requested last.
THEOREM LastRequestDecides ==
  ASSUME SingleOwner PROVE IrqSpec => []EdgeFollowsRequests
  <1>1. IrqInv => EdgeFollowsRequests
    BY DEF IrqInv
  <1> QED
    BY <1>1, IrqInvariant, PTL
=============================================================================
