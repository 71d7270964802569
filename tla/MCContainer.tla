---------------------------- MODULE MCContainer ----------------------------
(* Container with two containers and one kind of message, for TLC. *)
EXTENDS Container
=============================================================================
