----------------------------- MODULE TaskTurns -----------------------------
(***************************************************************************)
(* Task with a memory of how it was used: overlap becomes TRUE, for good,  *)
(* when an owner calls an operation while another owner is in one.  Until  *)
(* then the owners have taken turns, which is all the discipline start()   *)
(* and stop() need: which of the owners' threads makes a call does not     *)
(* matter.  Afterwards only what holds of every Spec is left.              *)
(***************************************************************************)
EXTENDS Task

VARIABLE overlap

turnsVars == <<taskVars, overlap>>

TurnsInit == TaskInit /\ overlap = FALSE

TurnsNext == Next /\ overlap' = (overlap \/ ~TakesTurns')

TurnsSpec == TurnsInit /\ [][TurnsNext]_turnsVars

FairTurnsSpec == TurnsSpec /\ Fairness

----------------------------------------------------------------------------
(* Properties *)

\* However start(), stop(), sleep() and the end of run() interleave, a task
\* whose owners take turns never has two threads that nobody has joined.
OneWorkerByTurns == ~overlap => AtMostOneWorker

\* The inductive invariant: what TaskInv says of mState, mId, mMutex and the
\* worker holds for as long as the owners take turns.
TurnsInv ==
  /\ overlap \in BOOLEAN
  /\ ~overlap => TakesTurns /\ TaskInv

\* stop() returns: STOPPING is set and signalled under the mutex the worker
\* holds when it decides to wait, so the wakeup cannot be lost, and nothing
\* here relies on the sleep's timeout.  Two overlapping calls of stop() and
\* start() can leave one of them in its join for ever.
StopReturns ==
  \A o \in Owners : pc[o] = "stop" /\ ~overlap ~> pc[o] = "idle" \/ overlap

\* mState follows its life cycle as long as the owners take turns.
LifeCycleByTurns == [][~overlap => StateFollows]_turnsVars
=============================================================================
