---------------------------- MODULE MCListeners ----------------------------
(* Listeners with three listeners that nothing distinguishes. *)
EXTENDS Listeners

Symmetry == Permutations(Listener)
=============================================================================
