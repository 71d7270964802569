------------------------- MODULE AbstractContainer -------------------------
(***************************************************************************)
(* What an IContainerListener (ui/directfb/container.h) can count on: its  *)
(* container is created before it is shown, shown and hidden in turn, and  *)
(* destroyed only while it is hidden.  onCreate() may come twice.          *)
(***************************************************************************)
CONSTANT Containers

VARIABLE heard   \* per container: the last callback its listener got

ListenerInit == heard = [c \in Containers |-> "onDestroy"]

Hears(c, from, callback) ==
  heard[c] \in from /\ heard' = [heard EXCEPT ![c] = callback]

OnCreate(c)  == Hears(c, {"onDestroy", "onCreate"}, "onCreate")
OnShow(c)    == Hears(c, {"onCreate", "onHide"}, "onShow")
OnHide(c)    == Hears(c, {"onShow"}, "onHide")
OnDestroy(c) == Hears(c, {"onHide"}, "onDestroy")

ListenerNext ==
  \E c \in Containers : OnCreate(c) \/ OnShow(c) \/ OnHide(c) \/ OnDestroy(c)

ListenerSpec == ListenerInit /\ [][ListenerNext]_heard
=============================================================================
