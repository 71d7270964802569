--------------------------- MODULE AbstractTimer ---------------------------
(***************************************************************************)
(* What an ITimer with a thread of its own (base/timer.h,                  *)
(* base/timer_thread.h) promises the thread that starts and stops it:      *)
(* stop() does not return while the handler runs, nor while it may still   *)
(* be called, and so the handler is silent from the return of stop() to    *)
(* the next start(); start() ends the timer it finds before it sets the    *)
(* new one; and a one-shot timer calls the handler once.                   *)
(***************************************************************************)
VARIABLES state,   \* "off": no handler call will come; "armed": will call
                   \* the handler; "firing": inside the handler; "spent":
                   \* will not call it again, the thread still there
          repeat,  \* what start() or setRepeat() said
          user     \* the thread that uses the timer: "stopped", after the
                   \* return of stop() or before the first start();
                   \* "rearm", inside the stop() that start() begins with;
                   \* "start", inside the rest of start(); "started", after
                   \* its return; "stop", inside stop()

timerVars == <<state, repeat, user>>

Users == {"stopped", "rearm", "start", "started", "stop"}

AbsTypeOK ==
  /\ state \in {"off", "armed", "firing", "spent"}
  /\ repeat \in BOOLEAN
  /\ user \in Users

AbsInit == state = "off" /\ repeat = FALSE /\ user = "stopped"

Outside == user \in {"stopped", "started"}
Ending == user \in {"rearm", "stop"}

(* The user *)

UserCalls(op) == Outside /\ user' = op /\ UNCHANGED <<state, repeat>>

\* start() has ended the timer it found, and takes its arguments.
Reset(r) ==
  /\ user = "rearm" /\ state = "off"
  /\ user' = "start" /\ repeat' = r
  /\ UNCHANGED state

\* start() has created the thread, or has failed to.
Arm == user = "start" /\ state = "off" /\ state' = "armed" /\ UNCHANGED <<repeat, user>>
StartReturns == user = "start" /\ user' = "started" /\ UNCHANGED <<state, repeat>>

\* The promise: stop() returns when there is no timer any more.
StopReturns ==
  /\ user = "stop" /\ state = "off"
  /\ user' = "stopped"
  /\ UNCHANGED <<state, repeat>>

SetRepeat(r) == Outside /\ repeat' = r /\ UNCHANGED <<state, user>>

(* The timer *)

Becomes(from, to) == state = from /\ state' = to /\ UNCHANGED <<repeat, user>>

Fire == Becomes("armed", "firing")

\* The handler has returned.
Rearm == repeat /\ Becomes("firing", "armed")
Spend == ~repeat /\ Becomes("firing", "spent")

\* The thread heeds a stop() that is under way, outside the handler ...
Cancel == Ending /\ Becomes("armed", "spent")

\* ... and is joined by it.
Off == Ending /\ Becomes("spent", "off")

AbsNext ==
  \/ UserCalls("rearm") \/ UserCalls("stop") \/ StartReturns \/ StopReturns
  \/ Arm \/ Fire \/ Rearm \/ Spend \/ Cancel \/ Off
  \/ \E r \in BOOLEAN : Reset(r) \/ SetRepeat(r)

AbsSpec == AbsInit /\ [][AbsNext]_timerVars
=============================================================================
