---------------------------- MODULE MCServices ----------------------------
(* Services with a small table of descriptors. *)
EXTENDS Services
=============================================================================
