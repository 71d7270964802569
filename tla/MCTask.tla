------------------------------ MODULE MCTask ------------------------------
(* Task, with the memory of TaskTurns, on small sets of threads. *)
EXTENDS TaskTurns
=============================================================================
