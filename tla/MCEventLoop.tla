---------------------------- MODULE MCEventLoop ----------------------------
(* EventLoop on small sets of timers, descriptors and threads. *)
EXTENDS EventLoop, TLC

CONSTANTS ClientTimers   \* the timers that do not belong to handlers

MCOwner == [t \in Timers |-> IF t \in ClientTimers THEN CHOOSE c \in Clients : TRUE
                                                   ELSE Loop]
=============================================================================
