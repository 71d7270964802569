-------------------------------- MODULE Irq --------------------------------
(***************************************************************************)
(* hw/irq.cpp: a Task whose run() polls a GPIO's value file and a pipe.    *)
(* enable() and disable() write a byte to the pipe and the worker programs *)
(* the GPIO's edge; stop() sets mExitTask and writes a 'T' for the worker  *)
(* that sleeps in poll().  The pipe outlives the worker: what one worker   *)
(* does not read, the next one finds.                                      *)
(***************************************************************************)
EXTENDS LoopTask, Naturals, Sequences

CONSTANTS Files,    \* the descriptors open() can return for the value file
          MaxPipe   \* bound: requests and stops that find so many bytes unread

ASSUME IrqAssumption == None \notin Files /\ MaxPipe \in Nat

VARIABLES mFD,        \* the value file, None for -1
          mListener,  \* a listener is set
          open,       \* the value files that are open
          pipe,       \* bytes nobody has read
          edge,       \* the GPIO's edge is mEdge (TRUE) or NONE (FALSE)
          wanted,     \* the last enable() or disable()
          pending,    \* poll() would report POLLPRI for the value file
          at,         \* where run() stands, see IrqLabels
          polled,     \* fds[1].fd
          hit         \* fds[1].revents after the last poll()

files == <<mFD, open>>
gpio == <<pipe, edge, wanted, pending>>
run == <<at, polled, hit>>
irqVars == <<taskVars, mExitTask, mListener, files, gpio, run>>

IrqLabels == {"begin", "check", "poll", "command", "interrupt", "ack"}

IrqTypeOK ==
  /\ mExitTask \in BOOLEAN /\ mListener \in BOOLEAN
  /\ mFD \in Files \cup {None} /\ open \subseteq Files
  /\ pipe \in Seq({"D", "E", "T"})
  /\ edge \in BOOLEAN /\ wanted \in BOOLEAN /\ pending \in BOOLEAN
  /\ at \in IrqLabels /\ polled \in Files \cup {None} /\ hit \in BOOLEAN

IrqInit ==
  /\ TaskInit
  /\ mExitTask = FALSE /\ mListener = FALSE
  /\ mFD = None /\ open = {}
  /\ pipe = <<>> /\ edge = FALSE /\ wanted = FALSE /\ pending = FALSE
  /\ at = "begin" /\ polled = None /\ hit = FALSE

----------------------------------------------------------------------------
(* The owner *)

SetListener(o) ==
  /\ pc[o] = "idle"
  /\ mListener' = TRUE
  /\ UNCHANGED <<taskVars, mExitTask, files, gpio, run>>

\* enable() writes an 'E', disable() a 'D'.
Request(o, on) ==
  /\ pc[o] = "idle"
  /\ Len(pipe) < MaxPipe
  /\ wanted' = on
  /\ pipe' = Append(pipe, IF on THEN "E" ELSE "D")
  /\ UNCHANGED <<taskVars, mExitTask, mListener, files, edge, pending, run>>

\* Calls are made when the pipe has room for the 'T' of a stop().
IrqCall(o) ==
  /\ \/ CallStart(o) /\ (mState = "STOPPED" => Len(pipe) <= MaxPipe)
     \/ CallStop(o) /\ Len(pipe) <= MaxPipe
  /\ UNCHANGED <<mExitTask, mListener, files, gpio, run>>

\* onPreStart(): the value file could not be opened.
OpenFails(o) ==
  /\ StartFails(o)
  /\ mExitTask' = FALSE
  /\ mFD' = None
  /\ UNCHANGED <<mListener, open, gpio, run>>

\* onPreStart(): whatever mFD was is overwritten.
Opens(f) ==
  /\ f \notin open
  /\ mExitTask' = FALSE
  /\ mFD' = f
  /\ open' = open \cup {f}

\* pthread_create() failed: the file stays open, and only a stop() that
\* follows a later, successful start() closes one.
CreateFails(o) ==
  /\ StartFails(o)
  /\ \E f \in Files : Opens(f)
  /\ UNCHANGED <<mListener, gpio, run>>

\* The worker begins; a file that was just opened is ready until it is read.
IrqCreate(o, w) ==
  /\ Create(o, w)
  /\ \E f \in Files : Opens(f)
  /\ at' = "begin"
  /\ pending' = TRUE
  /\ UNCHANGED <<mListener, pipe, edge, wanted, polled, hit>>

\* Mutant of PreStop: no byte is written.
PreStopSilent == mExitTask' = TRUE /\ UNCHANGED <<pipe, files>>

\* onPreStop(), under the task's mutex.  The flag is set before the byte is
\* written; nothing a worker does in between differs from doing it before or
\* after both.
PreStop ==
  /\ mExitTask' = TRUE
  /\ pipe' = Append(pipe, "T")
  /\ UNCHANGED files

IrqStopSignals(o) ==
  /\ StopSignals(o)
  /\ PreStop
  /\ UNCHANGED <<mListener, edge, wanted, pending, run>>

\* onPostStop(), after the join.
IrqStopEnds(o) ==
  /\ StopEnds(o)
  /\ mExitTask' = TRUE
  /\ mFD' = None
  /\ open' = open \ {mFD}
  /\ UNCHANGED <<mListener, gpio, run>>

\* The steps of start() and stop() that IRQ does not hook into.  A stop()
\* that finds no thread id (StopNoThread) cannot happen with one owner.
IrqInTask(o) ==
  /\ \/ StartRefused(o) \/ StartStopped(o) \/ Started(o)
     \/ StopIgnored(o) \/ JoinBegins(o) \/ Joined(o)
  /\ UNCHANGED <<mExitTask, mListener, files, gpio, run>>

IrqOwner(o) ==
  \/ OpenFails(o) \/ CreateFails(o)
  \/ \E w \in Workers : IrqCreate(o, w)
  \/ IrqStopSignals(o) \/ IrqStopEnds(o)
  \/ IrqInTask(o)

----------------------------------------------------------------------------
(* The worker: run() *)

At(w, label) == pc[w] = "run" /\ at = label

Continues(label) ==
  at' = label /\ UNCHANGED <<taskVars, mExitTask, mListener, files>>

\* The descriptors are copied once, and the first read acknowledges the file.
Begin(w) ==
  /\ At(w, "begin")
  /\ Continues("check")
  /\ polled' = mFD
  /\ pending' = FALSE
  /\ UNCHANGED <<hit, pipe, edge, wanted>>

\* while (!mExitTask)
Check(w) ==
  /\ At(w, "check")
  /\ ~mExitTask
  /\ Continues("poll")
  /\ UNCHANGED <<polled, hit, gpio>>

\* Mutant of Poll: the file is looked at only when there is no command.
PollCommandsFirst(w) ==
  /\ At(w, "poll")
  /\ pipe # <<>> \/ pending
  /\ Continues(IF pipe # <<>> THEN "command" ELSE "interrupt")
  /\ hit' = (pipe = <<>>)
  /\ UNCHANGED <<polled, gpio>>

Poll(w) ==
  /\ At(w, "poll")
  /\ pipe # <<>> \/ pending
  /\ Continues(IF pipe # <<>> THEN "command" ELSE "interrupt")
  /\ hit' = pending
  /\ UNCHANGED <<polled, gpio>>

\* poll() waits 1000 seconds at most.
PollTimesOut(w) ==
  /\ At(w, "poll")
  /\ pipe = <<>> /\ ~pending
  /\ Continues("check")
  /\ UNCHANGED <<polled, hit, gpio>>

PollLoopEnds(w) ==
  /\ At(w, "check")
  /\ ExitsLoop(w)
  /\ UNCHANGED <<mExitTask, mListener, files, gpio, run>>

\* A signal ended poll() (EINTR): the worker leaves its loop for good.
PollFails(w) ==
  /\ At(w, "poll")
  /\ pipe = <<>> /\ ~pending
  /\ RunReturns(w)
  /\ UNCHANGED <<mExitTask, mListener, files, gpio, run>>

\* Mutant of Command: the 'T' empties the pipe.
CommandDrains(w) ==
  /\ At(w, "command")
  /\ pipe' = IF Head(pipe) = "T" THEN <<>> ELSE Tail(pipe)
  /\ edge' = IF Head(pipe) = "T" THEN edge ELSE Head(pipe) = "E"
  /\ Continues(IF hit /\ Head(pipe) # "T" THEN "interrupt" ELSE "check")
  /\ UNCHANGED <<polled, hit, wanted, pending>>

\* One byte per turn; a 'T', stale or not, goes back to the loop's condition.
Command(w) ==
  /\ At(w, "command")
  /\ pipe' = Tail(pipe)
  /\ edge' = IF Head(pipe) = "T" THEN edge ELSE Head(pipe) = "E"
  /\ Continues(IF hit /\ Head(pipe) # "T" THEN "interrupt" ELSE "check")
  /\ UNCHANGED <<polled, hit, wanted, pending>>

\* mListener->onInterrupted()
Interrupt(w) ==
  /\ At(w, "interrupt")
  /\ mListener
  /\ RunWorks(w)
  /\ at' = "ack"
  /\ UNCHANGED <<mExitTask, mListener, files, gpio, polled, hit>>

HandlerReturns(w) ==
  /\ pc[w] = "body"
  /\ Moves(w, "run")
  /\ UNCHANGED <<mExitTask, mListener, files, gpio, run>>

NoListener(w) ==
  /\ At(w, "interrupt")
  /\ ~mListener
  /\ Continues("ack")
  /\ UNCHANGED <<polled, hit, gpio>>

\* The read that acknowledges the interrupt comes after the handler, so an
\* edge during the handler is acknowledged with it.
Ack(w) ==
  /\ At(w, "ack")
  /\ Continues("check")
  /\ pending' = FALSE
  /\ UNCHANGED <<polled, hit, pipe, edge, wanted>>

IrqRun(w) ==
  \/ Begin(w) \/ Check(w) \/ Poll(w) \/ Command(w)
  \/ Interrupt(w) \/ HandlerReturns(w) \/ NoListener(w) \/ Ack(w)
  \/ PollLoopEnds(w)

IrqEnds(w) ==
  /\ ProcStopped(w) \/ ProcEnds(w)
  /\ UNCHANGED <<mExitTask, mListener, files, gpio, run>>

\* The GPIO reports an edge, if it is told to.
Edge ==
  /\ edge
  /\ pending' = TRUE
  /\ UNCHANGED <<taskVars, mExitTask, mListener, files, pipe, edge, wanted, run>>

----------------------------------------------------------------------------

IrqNext ==
  \/ \E o \in Owners : \/ SetListener(o) \/ IrqCall(o) \/ IrqOwner(o)
                       \/ \E on \in BOOLEAN : Request(o, on)
  \/ \E w \in Workers : IrqRun(w) \/ PollTimesOut(w) \/ PollFails(w) \/ IrqEnds(w)
  \/ Edge

IrqSpec == IrqInit /\ [][IrqNext]_irqVars

\* Threads that can run do, handlers return; no timeout, signal or edge has
\* to come.
IrqFairness ==
  /\ \A o \in Owners : WF_irqVars(IrqOwner(o))
  /\ \A w \in Workers : WF_irqVars(IrqRun(w)) /\ WF_irqVars(IrqEnds(w))

FairIrqSpec == IrqSpec /\ IrqFairness

----------------------------------------------------------------------------
(* Properties *)

\* run() and the hooks use Task the way Task's specification allows, so what
\* is proved of Task holds of an IRQ.
IrqIsATask == Spec

Inside(w) == pc[w] \in {"run", "body"}

\* The file the worker polls and reads is open for as long as it does so:
\* stop() closes it after the join, never while poll() or the handler runs.
PollsOpenFile ==
  \A w \in Workers : Inside(w) => IF at = "begin" THEN mFD \in open
                                                  ELSE polled \in open

\* The last of the enable() and disable() calls decides: when no request is
\* left in the pipe the GPIO is set to it, however many workers have come
\* and gone in between and whatever stop bytes they left.
EdgeFollowsRequests ==
  IF \E i \in 1..Len(pipe) : pipe[i] # "T"
    THEN \E i \in 1..Len(pipe) :
           /\ pipe[i] = IF wanted THEN "E" ELSE "D"
           /\ \A j \in (i + 1)..Len(pipe) : pipe[j] = "T"
    ELSE edge = wanted

\* A worker that found a byte in the pipe is the only one to read it.
ReadsAByte == \A w \in Workers : At(w, "command") => pipe # <<>>

\* The inductive invariant: the task's, and what ties the worker to the
\* value file and to the pipe.
IrqInv ==
  /\ TaskInv
  /\ IrqTypeOK
  /\ PollsOpenFile
  /\ EdgeFollowsRequests
  /\ ReadsAByte
  /\ \A w \in Workers : Inside(w) /\ at # "begin" => polled = mFD
  /\ \A w \in Workers : pc[w] = "body" => at = "ack"

\* stop() returns, and needs neither poll()'s timeout nor another event: the
\* byte it leaves in the pipe is behind whatever the worker has still to read
\* there, so the worker cannot fall asleep in poll() without a look at the flag.
IrqStopReturns == \A o \in Owners : pc[o] = "stop" ~> pc[o] = "idle"

\* An edge that is pending when the worker is about to poll reaches the
\* listener unless a stop comes first: neither requests that keep coming nor
\* the stop bytes of earlier workers hold it up.
InterruptIsServed ==
  \A w \in Workers :
    (At(w, "poll") /\ pending /\ mListener) ~> (pc[w] = "body" \/ mExitTask)
=============================================================================
