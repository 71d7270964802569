------------------------------ MODULE LoopTask ------------------------------
(***************************************************************************)
(* What TimerThread and IRQ have in common: a Task whose run() is a loop   *)
(* that ends when mExitTask is set.                                        *)
(***************************************************************************)
EXTENDS Task

VARIABLE mExitTask

\* while (!mExitTask) is over, and run() returns.
ExitsLoop(w) == mExitTask /\ RunReturns(w)
=============================================================================
