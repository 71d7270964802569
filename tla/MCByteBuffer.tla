---------------------------- MODULE MCByteBuffer ----------------------------
(* ByteBuffer with one writer and one reader, for TLC. *)
EXTENDS ByteBuffer
=============================================================================
