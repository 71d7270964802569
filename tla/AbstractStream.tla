--------------------------- MODULE AbstractStream ---------------------------
(***************************************************************************)
(* What utils/byte_buffer.cpp promises the threads that share a buffer: a  *)
(* bounded first-in first-out stream of bytes with an end-of-stream flag.  *)
(* A write appends a prefix of what its caller offers, a read takes bytes  *)
(* from the front and hands them to its caller in order; nothing is lost,  *)
(* repeated or reordered except by a flush.                                *)
(***************************************************************************)
EXTENDS Integers, Sequences

CONSTANTS Writers, Readers, Byte, Capacity

VARIABLES queue,    \* the bytes written and not read yet
          closed,   \* the end-of-stream flag
          offered,  \* per writer: the bytes its call was given
          out       \* the bytes the last read delivered

Offers == offered' # offered /\ UNCHANGED <<queue, closed, out>>

\* Nothing is accepted after the end of the stream.
Put ==
  /\ ~closed
  /\ \E w \in Writers : \E n \in 0..Len(offered[w]) :
       /\ Len(queue) + n <= Capacity
       /\ queue' = queue \o SubSeq(offered[w], 1, n)
       /\ offered' = [offered EXCEPT ![w] = <<>>]
  /\ UNCHANGED <<closed, out>>

\* Nothing is delivered after the end of the stream.
Take ==
  /\ ~closed
  /\ \E n \in 0..Len(queue) :
       /\ out' = SubSeq(queue, 1, n)
       /\ queue' = SubSeq(queue, n + 1, Len(queue))
  /\ UNCHANGED <<closed, offered>>

Flush == queue' = <<>> /\ UNCHANGED <<closed, out, offered>>

SetEOS == closed' \in BOOLEAN /\ UNCHANGED <<queue, out, offered>>

StreamInit == queue = <<>> /\ closed = FALSE /\ out = <<>>

StreamNext == Offers \/ Put \/ Take \/ Flush \/ SetEOS

StreamSpec == StreamInit /\ [][StreamNext]_<<queue, closed, offered, out>>
=============================================================================
