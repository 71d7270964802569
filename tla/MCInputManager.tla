--------------------------- MODULE MCInputManager ---------------------------
(* InputManager with two keys, for TLC. *)
EXTENDS InputManager
=============================================================================
