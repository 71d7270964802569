------------------------------- MODULE Task -------------------------------
(***************************************************************************)
(* base/task.cpp with base/mutex.h and base/cond_var.cpp: a worker thread  *)
(* with start(), stop(), sleep() and wakeup(), one mutex (mMutex) and one  *)
(* condition variable (mCond).                                             *)
(*                                                                         *)
(* A thread is either an owner, which calls the public operations, or a    *)
(* worker, a thread pthread_create() returned.  pc[t] is where thread t    *)
(* stands between two points at which another thread can take a step: a    *)
(* lock it waits for, the window between pthread_create() and the          *)
(* assignment of mState, a join.  run() is virtual; here it is any loop    *)
(* that sleeps, looks at state(), works ("body") and returns when it likes *)
(* (TimerThread gives the one of the timer thread).                        *)
(***************************************************************************)
CONSTANTS Owners,   \* the threads that call start(), stop() and sleep()
          Workers,  \* the thread ids pthread_create() can return
          None      \* the pthread_t -1, and nobody holding mMutex

ASSUME TaskAssumption ==
  /\ None \notin Owners \cup Workers
  /\ Owners \cap Workers = {}

VARIABLES mState,   \* TaskState
          mId,      \* the worker's thread id, None for (pthread_t)-1
          mMutex,   \* the thread that holds the mutex, or None
          waiting,  \* the threads blocked in mCond.wait()
          pc,       \* per thread, see above
          target,   \* the thread an owner's pthread_join() waits for
          nested    \* the owners whose stop() was called by start()

taskVars == <<mState, mId, mMutex, waiting, pc, target, nested>>

Threads == Owners \cup Workers

TaskStates == {"INIT", "RUNNING", "STOPPING", "STOPPED"}

OwnerLabels == {"idle", "start", "restart", "relock", "starting",
                "stop", "unlocked", "joining", "joined", "sleep", "usleep"}

\* "none" is a thread id nobody holds: not created yet, or joined.
WorkerLabels == {"none", "run", "sleep", "usleep", "waiting", "slept",
                 "body", "leaving", "stopped", "ended"}

TypeOK ==
  /\ mState \in TaskStates
  /\ mId \in Workers \cup {None}
  /\ mMutex \in Threads \cup {None}
  /\ waiting \subseteq Workers
  /\ pc \in [Threads -> OwnerLabels \cup WorkerLabels]
  /\ \A o \in Owners : pc[o] \in OwnerLabels
  /\ \A w \in Workers : pc[w] \in WorkerLabels
  /\ target \in [Owners -> Workers \cup {None}]
  /\ nested \subseteq Owners

TaskInit ==
  /\ mState = "INIT"
  /\ mId = None
  /\ mMutex = None
  /\ waiting = {}
  /\ pc = [t \in Threads |-> IF t \in Owners THEN "idle" ELSE "none"]
  /\ target = [o \in Owners |-> None]
  /\ nested = {}

Goto(t, label) == pc' = [pc EXCEPT ![t] = label]

\* A step of t that changes nothing else.
Moves(t, label) ==
  Goto(t, label) /\ UNCHANGED <<mState, mId, mMutex, waiting, target, nested>>

\* CondVar::signal(): one of the waiting threads, if there is any, is woken.
Signal == \/ waiting = {} /\ waiting' = waiting
          \/ \E w \in waiting : waiting' = waiting \ {w}

----------------------------------------------------------------------------
(* start() *)

CallStart(o) == pc[o] = "idle" /\ Moves(o, "start")

\* The task is already running (or somebody is stopping it): refused.
StartRefused(o) ==
  /\ pc[o] = "start"
  /\ mMutex = None
  /\ mState \notin {"INIT", "STOPPED"}
  /\ Moves(o, "idle")

\* Mutant of StartStopped: the worker that ended is not joined.
StartStoppedUnjoined(o) ==
  /\ pc[o] = "start"
  /\ mMutex = None
  /\ mState = "STOPPED"
  /\ Moves(o, "relock")

\* The last worker ended on its own: unlock and call stop() to join it.
StartStopped(o) ==
  /\ pc[o] = "start"
  /\ mMutex = None
  /\ mState = "STOPPED"
  /\ nested' = nested \cup {o}
  /\ Goto(o, "restart")
  /\ UNCHANGED <<mState, mId, mMutex, waiting, target>>

\* Where start() holds the mutex and is about to create the thread: at once
\* from INIT, or after the nested stop() and WITHOUT a second look at mState.
CanCreate(o) ==
  /\ mMutex = None
  /\ \/ pc[o] = "start" /\ mState = "INIT"
     \/ pc[o] = "relock"

\* onPreStart() or pthread_create() failed.
StartFails(o) ==
  /\ CanCreate(o)
  /\ nested' = nested \ {o}
  /\ Goto(o, "idle")
  /\ UNCHANGED <<mState, mId, mMutex, waiting, target>>

\* Mutant of Create: the mutex is not held until RUNNING is written.
CreateUnlocked(o, w) ==
  /\ CanCreate(o)
  /\ pc[w] = "none"
  /\ mId' = w
  /\ nested' = nested \ {o}
  /\ pc' = [pc EXCEPT ![o] = "starting", ![w] = "run"]
  /\ UNCHANGED <<mState, mMutex, waiting, target>>

\* pthread_create(): the new worker runs while start() still holds mMutex.
Create(o, w) ==
  /\ CanCreate(o)
  /\ pc[w] = "none"
  /\ mMutex' = o
  /\ mId' = w
  /\ nested' = nested \ {o}
  /\ pc' = [pc EXCEPT ![o] = "starting", ![w] = "run"]
  /\ UNCHANGED <<mState, waiting, target>>

Started(o) ==
  /\ pc[o] = "starting"
  /\ mState' = "RUNNING"
  /\ mMutex' = None
  /\ Goto(o, "idle")
  /\ UNCHANGED <<mId, waiting, target, nested>>

(* stop(), called by an owner or by start() *)

CallStop(o) == pc[o] = "idle" /\ Moves(o, "stop")

AfterStop(o) == IF o \in nested THEN "relock" ELSE "idle"

StopEnter(o) == pc[o] \in {"stop", "restart"} /\ mMutex = None

StopIgnored(o) ==
  /\ StopEnter(o)
  /\ mState \notin {"RUNNING", "STOPPED"}
  /\ Moves(o, AfterStop(o))

\* Mutant of StopSignals: nobody is signalled.
StopSilently(o) ==
  /\ StopEnter(o)
  /\ mState \in {"RUNNING", "STOPPED"}
  /\ mId # None
  /\ mState' = "STOPPING"
  /\ Goto(o, "unlocked")
  /\ UNCHANGED <<mId, mMutex, waiting, target, nested>>

\* STOPPING and the signal, under the mutex; then the mutex is released.
StopSignals(o) ==
  /\ StopEnter(o)
  /\ mState \in {"RUNNING", "STOPPED"}
  /\ mId # None
  /\ mState' = "STOPPING"
  /\ Signal
  /\ Goto(o, "unlocked")
  /\ UNCHANGED <<mId, mMutex, target, nested>>

\* There is no thread to join: straight to INIT.
StopNoThread(o) ==
  /\ StopEnter(o)
  /\ mState \in {"RUNNING", "STOPPED"}
  /\ mId = None
  /\ mState' = "INIT"
  /\ Signal
  /\ Goto(o, AfterStop(o))
  /\ UNCHANGED <<mId, mMutex, target, nested>>

\* pthread_join(mId): the argument is read after the mutex is released.
JoinBegins(o) ==
  /\ pc[o] = "unlocked"
  /\ target' = [target EXCEPT ![o] = mId]
  /\ Goto(o, "joining")
  /\ UNCHANGED <<mState, mId, mMutex, waiting, nested>>

\* The join returns when the thread has ended.  Joining an id twice, or -1,
\* is undefined; the C library answers ESRCH, so the join returns at once.
Joined(o) ==
  /\ pc[o] = "joining"
  /\ IF target[o] = None \/ pc[target[o]] = "none"
       THEN Goto(o, "joined")
       ELSE /\ pc[target[o]] = "ended"
            /\ pc' = [pc EXCEPT ![o] = "joined", ![target[o]] = "none"]
  /\ UNCHANGED <<mState, mId, mMutex, waiting, target, nested>>

StopEnds(o) ==
  /\ pc[o] = "joined"
  /\ mMutex = None
  /\ mId' = None
  /\ mState' = "INIT"
  /\ target' = [target EXCEPT ![o] = None]
  /\ Goto(o, AfterStop(o))
  /\ UNCHANGED <<mMutex, waiting, nested>>

(* sleep(), called by the worker or by any other thread *)

CallSleep(o) == pc[o] = "idle" /\ Moves(o, "sleep")

\* Where a caller of sleep() continues.
AfterSleep(t) == IF t \in Owners THEN "idle" ELSE "slept"

SleepRefused(t) ==
  /\ pc[t] = "sleep"
  /\ mMutex = None
  /\ mState = "STOPPING"
  /\ Moves(t, AfterSleep(t))

\* The worker itself: mCond.wait() releases the mutex while it waits.
SleepWaits(w) ==
  /\ pc[w] = "sleep"
  /\ mMutex = None
  /\ mState # "STOPPING"
  /\ mId = w
  /\ waiting' = waiting \cup {w}
  /\ Goto(w, "waiting")
  /\ UNCHANGED <<mState, mId, mMutex, target, nested>>

\* Any other thread: usleep() with the mutex held.
SleepHolds(t) ==
  /\ pc[t] = "sleep"
  /\ mMutex = None
  /\ mState # "STOPPING"
  /\ mId # t
  /\ mMutex' = t
  /\ Goto(t, "usleep")
  /\ UNCHANGED <<mState, mId, waiting, target, nested>>

SleepReleases(t) ==
  /\ pc[t] = "usleep"
  /\ mMutex' = None
  /\ Goto(t, AfterSleep(t))
  /\ UNCHANGED <<mState, mId, waiting, target, nested>>

\* The timeout, a spurious wakeup, or wakeup() called from outside.
Timeout(w) ==
  /\ w \in waiting
  /\ waiting' = waiting \ {w}
  /\ UNCHANGED <<mState, mId, mMutex, pc, target, nested>>

\* A woken thread returns from mCond.wait() when it has the mutex again.
WaitReturns(w) ==
  /\ pc[w] = "waiting"
  /\ w \notin waiting
  /\ mMutex = None
  /\ Moves(w, "slept")

----------------------------------------------------------------------------
(* the worker: _task_proc_priv() and a generic run() *)

RunSleeps(w) == pc[w] = "run" /\ Moves(w, "sleep")

RunReturns(w) == pc[w] = "run" /\ Moves(w, "leaving")

\* run() asks state(), without the mutex, whether the task is stopping, and
\* leaves its loop or (continue) goes round to test a flag of its own.
RunHeeds(w) ==
  pc[w] = "slept" /\ mState = "STOPPING" /\ Moves(w, "leaving")

RunContinues(w) ==
  pc[w] = "slept" /\ mState = "STOPPING" /\ Moves(w, "run")

RunWorks(w) ==
  /\ \/ pc[w] = "run"
     \/ pc[w] = "slept" /\ mState # "STOPPING"
  /\ Moves(w, "body")

RunWorked(w) ==
  pc[w] = "body" /\ \E label \in {"run", "leaving"} : Moves(w, label)

\* Mutant of ProcStopped: STOPPED is written without the mutex.
ProcStoppedUnlocked(w) ==
  /\ pc[w] = "leaving"
  /\ mState' = "STOPPED"
  /\ Goto(w, "stopped")
  /\ UNCHANGED <<mId, mMutex, waiting, target, nested>>

\* run() has returned: STOPPED is written whatever mState was.
ProcStopped(w) ==
  /\ pc[w] = "leaving"
  /\ mMutex = None
  /\ mState' = "STOPPED"
  /\ Goto(w, "stopped")
  /\ UNCHANGED <<mId, mMutex, waiting, target, nested>>

ProcEnds(w) == pc[w] = "stopped" /\ Moves(w, "ended")

----------------------------------------------------------------------------

\* The steps of an owner that has called an operation.
OwnerStep(o) ==
  \/ StartRefused(o) \/ StartStopped(o) \/ StartFails(o)
  \/ \E w \in Workers : Create(o, w)
  \/ Started(o)
  \/ StopIgnored(o) \/ StopSignals(o) \/ StopNoThread(o)
  \/ JoinBegins(o) \/ Joined(o) \/ StopEnds(o)
  \/ SleepRefused(o) \/ SleepHolds(o) \/ SleepReleases(o)

\* The steps of a worker inside Task's own code.
WorkerStep(w) ==
  \/ SleepRefused(w) \/ SleepWaits(w) \/ SleepHolds(w) \/ SleepReleases(w)
  \/ WaitReturns(w)
  \/ ProcStopped(w) \/ ProcEnds(w)

\* The steps of run().
RunStep(w) ==
  \/ RunSleeps(w) \/ RunReturns(w) \/ RunHeeds(w) \/ RunContinues(w)
  \/ RunWorks(w) \/ RunWorked(w)

Call(o) == CallStart(o) \/ CallStop(o) \/ CallSleep(o)

Next ==
  \/ \E o \in Owners : Call(o) \/ OwnerStep(o)
  \/ \E w \in Workers : WorkerStep(w) \/ RunStep(w) \/ Timeout(w)

Spec == TaskInit /\ [][Next]_taskVars

\* Every thread that can run runs; nobody has to call anything, and no
\* timeout has to end a sleep: what stop() achieves, it achieves by itself.
\* Of run() it is assumed that it calls sleep() again and again, and that it
\* does not see STOPPING for ever without leaving.
Fairness ==
  /\ \A o \in Owners : WF_taskVars(OwnerStep(o))
  /\ \A w \in Workers : /\ WF_taskVars(WorkerStep(w))
                        /\ WF_taskVars(RunStep(w))
                        /\ SF_taskVars(RunSleeps(w))
                        /\ SF_taskVars(RunHeeds(w))

FairSpec == Spec /\ Fairness

----------------------------------------------------------------------------
(* Properties *)

\* A worker from its creation to its join.
Alive(w) == pc[w] # "none"

\* However start(), stop() and the end of run() interleave, there is never
\* more than one thread of the task that nobody has joined.
AtMostOneWorker == \A v, w \in Workers : Alive(v) /\ Alive(w) => v = w

\* Once stop() has brought the task to INIT no worker of it is left, neither
\* running subclass code nor waiting to be joined.
InitMeansNoWorker ==
  mState = "INIT" => \A w \in Workers :
                        Alive(w) => \E o \in Owners : pc[o] = "starting"

\* A join always waits for a thread that exists: no second join of an id, and
\* never of the id -1.
JoinsARealThread ==
  \A o \in Owners : pc[o] = "joining" =>
                       target[o] # None /\ Alive(target[o])

\* The worker waits on the condition variable, which releases the mutex, and
\* never sleeps with the mutex held, where stop() could not reach it.
WorkerSleepsInterruptibly == \A w \in Workers : pc[w] # "usleep"

\* A worker that ends at once is not reported as running for ever, whoever
\* else starts and stops the task: start() holds the mutex from the creation
\* of the worker to the assignment of RUNNING, so the worker's STOPPED always
\* comes after it.
StartOwnsItsWorker ==
  \A o \in Owners : pc[o] = "starting" =>
    mId # None /\ pc[mId] \notin {"none", "stopped", "ended"}

\* The life cycle: RUNNING only follows INIT, and the worker's STOPPED only
\* replaces RUNNING or STOPPING, so it is written once per start() and never
\* over the INIT of a stop() that believes the worker is gone.
StateFollows ==
  mState' # mState =>
    <<mState, mState'>> \in {<<"INIT", "RUNNING">>, <<"RUNNING", "STOPPING">>,
                             <<"RUNNING", "STOPPED">>,
                             <<"STOPPING", "STOPPED">>,
                             <<"STOPPING", "INIT">>,
                             <<"STOPPED", "STOPPING">>, <<"STOPPED", "INIT">>}

\* The owners take turns: nobody calls an operation while another is in one.
TakesTurns == \A a, b \in Owners : pc[a] # "idle" /\ pc[b] # "idle" => a = b

\* Where a worker that has not written STOPPED can be; when the owners take
\* turns it is never in usleep().
Working == {"run", "sleep", "waiting", "slept", "body", "leaving"}

\* What is left of the invariant below when several owners use one task: the
\* mutex, and the worker of a start() that holds it.
SharedInv ==
  /\ TypeOK
  /\ \A t \in Threads : pc[t] \in {"starting", "usleep"} => mMutex = t
  /\ \A o \in Owners : pc[o] = "starting" => mId # None /\ pc[mId] \in Working

\* The inductive invariant of a task whose owners take turns: what every
\* value of mState and every label of the owner inside says about the worker.
TaskInv ==
  /\ TypeOK
  /\ \A t \in Threads : (mMutex = t) <=> pc[t] \in {"starting", "usleep"}
  /\ \A w \in Workers : Alive(w) => mId = w
  /\ WorkerSleepsInterruptibly
  /\ \A o \in Owners :
       /\ pc[o] = "starting" => /\ mState = "INIT"
                                /\ mId # None
                                /\ pc[mId] \in Working
       /\ pc[o] = "restart" => mState = "STOPPED"
       /\ pc[o] = "relock" => mState = "INIT"
       /\ pc[o] \in {"unlocked", "joining"} =>
            mState \in {"STOPPING", "STOPPED"} /\ mId # None /\ Alive(mId)
       /\ pc[o] = "joining" => target[o] = mId
       /\ pc[o] = "joined" => /\ mState \in {"STOPPING", "STOPPED"}
                              /\ \A w \in Workers : ~Alive(w)
  /\ InitMeansNoWorker
  /\ mState = "RUNNING" => mId # None /\ pc[mId] \in Working
  /\ mState = "STOPPED" => \/ mId # None /\ pc[mId] \in {"stopped", "ended"}
                           \/ \E o \in Owners : pc[o] = "joined"
  /\ mState = "STOPPING" =>
       \E o \in Owners : pc[o] \in {"unlocked", "joining", "joined"}
=============================================================================
