--------------------------- MODULE MCTimerThread ---------------------------
(* TimerThread on small sets of threads. *)
EXTENDS TimerThread
=============================================================================
