------------------------------ MODULE MCParcel ------------------------------
(* Parcel with one field of several kinds, for TLC. *)
EXTENDS Parcel

MCFields == {[kind |-> "u32", bytes |-> <<1, 0, 255, 255>>],
             [kind |-> "string", bytes |-> <<7, 0>>],
             [kind |-> "bytes", bytes |-> <<0, 1, 2>>]}
=============================================================================
