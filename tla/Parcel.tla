------------------------------- MODULE Parcel -------------------------------
(***************************************************************************)
(* utils/parcel.cpp: two parcels, one that is written and sent and one     *)
(* that is received and read, and the pipe between send() and recv().      *)
(*                                                                         *)
(* A value is the sequence of the bytes it has in memory, so that write32()*)
(* and read32() are copies.  mData is the allocated block, NULL when it is *)
(* empty; what malloc() leaves in a block is Junk, which is no byte.       *)
(*                                                                         *)
(* The users' side, which the repository leaves open: the reader knows     *)
(* which kinds of fields follow each other; the writer writes at the end   *)
(* of a parcel only, never after rewind() or send() (its bytes would count *)
(* twice) and not into a received parcel (whose mDataCapacity is 0); both  *)
(* give the descriptor up after a send() or recv() that failed.            *)
(***************************************************************************)
EXTENDS Naturals, Sequences, SequencesExt, FiniteSetsExt

CONSTANTS
  Fields,        \* the values written: [kind, bytes]
  Junk,
  DefaultSize,   \* DEFAULT_PARCEL_DATA_SIZE
  MaxFields,     \* bound: the fields of a message
  MaxChannel,    \* bound: the messages under way
  MaxData,       \* bound: the bytes of a block that may still grow
  PipeSize

Byte == 0..255

\* The sizes of write8() ... write64(); a "string" ends with its only 0, and of
\* "bytes" both sides know the length, which is not 0: a reader could not tell
\* an empty field from none.
Width == [u8 |-> 1, u16 |-> 2, u32 |-> 4, u64 |-> 8]

IsField(f) ==
  \/ f.kind \in DOMAIN Width /\ Len(f.bytes) = Width[f.kind]
  \/ /\ f.kind = "string" /\ f.bytes # <<>>
     /\ \A i \in DOMAIN f.bytes : f.bytes[i] = 0 <=> i = Len(f.bytes)
  \/ f.kind = "bytes" /\ f.bytes # <<>>

ASSUME ParcelAssumption ==
  /\ \A f \in Fields : f.bytes \in Seq(Byte) /\ IsField(f)
  /\ Junk \notin Byte
  /\ MaxFields \in Nat \ {0} /\ MaxChannel \in Nat \ {0}
  /\ PipeSize \in Nat /\ PipeSize >= 4

\* Three times these are below 2^31.
ASSUME WidthAssumption ==
  /\ {MaxData, DefaultSize} \subseteq Nat
  /\ MaxData <= 715827882 /\ DefaultSize <= 715827882

VARIABLES
  mData, mDataPos, mDataSize, mDataCapacity,   \* per parcel
  pipe,       \* the bytes between the two descriptors
  sender,     \* where the writer is
  toWrite,    \* what its write() calls have still to write
  receiver,   \* where the reader is
  totalRead,
  fields,     \* history, per parcel: the fields it holds
  at,         \* history, per parcel: the fields behind mDataPos
  channel,    \* history: the messages sent and not received
  got         \* what the last read returned

parcels == <<mData, mDataPos, mDataSize, mDataCapacity, fields, at>>
writer == <<sender, toWrite>>
reader == <<receiver, totalRead>>
vars == <<parcels, pipe, writer, reader, channel, got>>

Parcels == {"out", "in"}

Init ==
  /\ mData = [p \in Parcels |-> <<>>]
  /\ mDataPos = [p \in Parcels |-> 0]
  /\ mDataSize = [p \in Parcels |-> 0]
  /\ mDataCapacity = [p \in Parcels |-> 0]
  /\ pipe = <<>>
  /\ sender = "idle" /\ toWrite = <<>>
  /\ receiver = "idle" /\ totalRead = 0
  /\ fields = [p \in Parcels |-> <<>>]
  /\ at = [p \in Parcels |-> 0]
  /\ channel = <<>> /\ got = <<>>

\* The thread of a parcel is in neither send() nor recv().
Free(p) == IF p = "out" THEN sender = "idle" ELSE receiver = "idle"

----------------------------------------------------------------------------
(* rewind(), reset() and the writes *)

Rewind(p) ==
  /\ Free(p)
  /\ mDataPos' = [mDataPos EXCEPT ![p] = 0]
  /\ at' = [at EXCEPT ![p] = 0]
  /\ UNCHANGED <<mData, mDataSize, mDataCapacity, pipe, writer, reader,
                 fields, channel, got>>

\* What reset() does to the parcel.
Emptied(p) ==
  /\ mData' = [mData EXCEPT ![p] = <<>>]
  /\ mDataPos' = [mDataPos EXCEPT ![p] = 0]
  /\ mDataSize' = [mDataSize EXCEPT ![p] = 0]
  /\ mDataCapacity' = [mDataCapacity EXCEPT ![p] = 0]
  /\ fields' = [fields EXCEPT ![p] = <<>>]
  /\ at' = [at EXCEPT ![p] = 0]

Reset(p) == Free(p) /\ Emptied(p) /\ UNCHANGED <<pipe, writer, reader, channel, got>>

\* Mutant of NewSize: room for what is there, and not for what comes.
NewSizeShort(capacity, len) == Max({(capacity * 3) \div 2, DefaultSize})

NewSize(capacity, len) == Max({((capacity + len) * 3) \div 2, DefaultSize})

\* malloc() or realloc() of n bytes.
Resized(data, n) == [i \in 1..n |-> IF i <= Len(data) THEN data[i] ELSE Junk]

\* The bytes copied to offset pos; what falls outside the block is lost.
Overwritten(data, pos, bytes) ==
  [i \in 1..Len(data) |-> IF i \in pos + 1 .. pos + Len(bytes)
                          THEN bytes[i - pos] ELSE data[i]]

\* Mutant of Write: a string is copied without its last byte.
WriteUnended(f) ==
  LET bytes == IF f.kind = "string" THEN Front(f.bytes) ELSE f.bytes
      len == Len(bytes)
      pos == mDataPos["out"]
      capacity == IF pos + len > mDataCapacity["out"]
                  THEN NewSize(mDataCapacity["out"], len)
                  ELSE mDataCapacity["out"]
      data == IF pos + len > mDataCapacity["out"]
              THEN Resized(mData["out"], capacity) ELSE mData["out"]
  IN /\ sender = "idle" /\ Len(fields["out"]) < MaxFields
     /\ pos = mDataSize["out"] /\ mDataCapacity["out"] + len <= MaxData
     /\ mData' = [mData EXCEPT !["out"] = Overwritten(data, pos, bytes)]
     /\ mDataCapacity' = [mDataCapacity EXCEPT !["out"] = capacity]
     /\ mDataPos' = [mDataPos EXCEPT !["out"] = @ + len]
     /\ mDataSize' = [mDataSize EXCEPT !["out"] = @ + len]
     /\ fields' = [fields EXCEPT !["out"] = Append(@, f)]
     /\ at' = [at EXCEPT !["out"] = @ + 1]
     /\ UNCHANGED <<pipe, writer, reader, channel, got>>

\* write8() ... writeBytes(): grow the block if the field does not fit.
Write(f) ==
  LET len == Len(f.bytes)
      pos == mDataPos["out"]
      capacity == IF pos + len > mDataCapacity["out"]
                  THEN NewSize(mDataCapacity["out"], len)
                  ELSE mDataCapacity["out"]
      data == IF pos + len > mDataCapacity["out"]
              THEN Resized(mData["out"], capacity) ELSE mData["out"]
  IN /\ sender = "idle" /\ Len(fields["out"]) < MaxFields
     /\ pos = mDataSize["out"] /\ mDataCapacity["out"] + len <= MaxData
     /\ mData' = [mData EXCEPT !["out"] = Overwritten(data, pos, f.bytes)]
     /\ mDataCapacity' = [mDataCapacity EXCEPT !["out"] = capacity]
     /\ mDataPos' = [mDataPos EXCEPT !["out"] = @ + len]
     /\ mDataSize' = [mDataSize EXCEPT !["out"] = @ + len]
     /\ fields' = [fields EXCEPT !["out"] = Append(@, f)]
     /\ at' = [at EXCEPT !["out"] = @ + 1]
     /\ UNCHANGED <<pipe, writer, reader, channel, got>>

----------------------------------------------------------------------------
(* The reads *)

\* read8() and read16() return 0 at the end of the parcel, read32() and
\* read64() return -1, and the others NULL.
Refused(kind) ==
  CASE kind \in {"u8", "u16"}  -> [i \in 1..Width[kind] |-> 0]
    [] kind \in {"u32", "u64"} -> [i \in 1..Width[kind] |-> 255]
    [] OTHER -> <<>>

\* The reader reads what the writer wrote, and possibly more than that.
Expects(p, f) == at[p] < Len(fields[p]) => fields[p][at[p] + 1] = f

\* len bytes are read at the position, or the read is refused.
Take(p, kind, len) ==
  /\ IF mDataPos[p] + len > mDataSize[p]
     THEN /\ got' = Refused(kind)
          /\ UNCHANGED <<mDataPos, at>>
     ELSE /\ got' = SubSeq(mData[p], mDataPos[p] + 1, mDataPos[p] + len)
          /\ mDataPos' = [mDataPos EXCEPT ![p] = @ + len]
          /\ at' = [at EXCEPT ![p] = @ + 1]
  /\ UNCHANGED <<mData, mDataSize, mDataCapacity, fields, pipe, writer, reader,
                 channel>>

ReadValue(p, f) ==
  /\ Free(p) /\ Expects(p, f) /\ f.kind \in DOMAIN Width
  /\ Take(p, f.kind, Width[f.kind])

\* What is left of the parcel has no 0 in it.
Unended(p) == \A i \in mDataPos[p] + 1 .. mDataSize[p] : mData[p][i] # 0

\* strlen() comes before the test.  In an unended parcel it runs on, into the
\* rest of the block and beyond; if it meets a 0 there, that is too far.
ReadString(p, f) ==
  /\ Free(p) /\ Expects(p, f) /\ f.kind = "string"
  /\ Take(p, "string",
          IF Unended(p) THEN mDataSize[p] + 1
          ELSE Min({i \in mDataPos[p] + 1 .. mDataSize[p] : mData[p][i] = 0})
                 - mDataPos[p])

\* Or it meets memory that cannot be read and this end of the pipe is gone
\* with its program, as it always does when mData is NULL.
StringFaults(p, f) ==
  /\ Free(p) /\ Expects(p, f) /\ f.kind = "string" /\ Unended(p)
  /\ IF p = "out" THEN sender' = "closed" /\ UNCHANGED receiver
                  ELSE receiver' = "failed" /\ UNCHANGED sender
  /\ UNCHANGED <<parcels, pipe, toWrite, totalRead, channel, got>>

ReadBytes(p, f) ==
  /\ Free(p) /\ Expects(p, f) /\ f.kind = "bytes"
  /\ Take(p, "bytes", Len(f.bytes))

----------------------------------------------------------------------------
(* send() *)

\* The four bytes of a uint32_t ...
Header(n) ==
  <<n % 256, (n \div 256) % 256, (n \div 65536) % 256, n \div 16777216>>

\* ... and what they are together.
Value(b) == b[1] + 256 * b[2] + 65536 * b[3] + 16777216 * b[4]

SendBegins ==
  /\ sender = "idle" /\ Len(channel) < MaxChannel
  /\ mDataPos' = [mDataPos EXCEPT !["out"] = 0]
  /\ at' = [at EXCEPT !["out"] = 0]
  /\ sender' = "header"
  /\ UNCHANGED <<mData, mDataSize, mDataCapacity, fields, pipe, toWrite, reader,
                 channel, got>>

\* A write of four bytes to a pipe is atomic.
WriteHeader ==
  /\ sender = "header" /\ Len(pipe) + 4 <= PipeSize
  /\ pipe' = pipe \o Header(mDataSize["out"])
  /\ toWrite' = SubSeq(mData["out"], 1, mDataSize["out"])
  /\ channel' = Append(channel, fields["out"])
  /\ sender' = "data"
  /\ UNCHANGED <<parcels, reader, got>>

\* A longer one reaches the pipe in pieces.
WriteData ==
  /\ sender = "data" /\ toWrite # <<>>
  /\ \E n \in 1..Len(toWrite) :
       /\ Len(pipe) + n <= PipeSize
       /\ pipe' = pipe \o SubSeq(toWrite, 1, n)
       /\ toWrite' = SubSeq(toWrite, n + 1, Len(toWrite))
  /\ UNCHANGED <<parcels, sender, reader, channel, got>>

SendReturns ==
  /\ sender = "data" /\ toWrite = <<>>
  /\ sender' = "idle"
  /\ UNCHANGED <<parcels, pipe, toWrite, reader, channel, got>>

\* One of the two calls of write() fails, and the caller closes.
SendFails ==
  /\ \/ sender = "header"
     \/ sender = "data" /\ toWrite # <<>>
  /\ sender' = "closed"
  /\ UNCHANGED <<parcels, pipe, toWrite, reader, channel, got>>

Close ==
  /\ sender = "idle"
  /\ sender' = "closed"
  /\ UNCHANGED <<parcels, pipe, toWrite, reader, channel, got>>

----------------------------------------------------------------------------
(* recv() *)

RecvBegins ==
  /\ receiver = "idle"
  /\ Emptied("in")
  /\ receiver' = "header"
  /\ UNCHANGED <<pipe, writer, totalRead, channel, got>>

\* mDataSize is read over, then the block is allocated.
ReadHeader ==
  LET n == Value(pipe)
  IN /\ receiver = "header" /\ Len(pipe) >= 4
     /\ mDataSize' = [mDataSize EXCEPT !["in"] = n]
     /\ mData' = [mData EXCEPT !["in"] = [i \in 1..n |-> Junk]]
     /\ pipe' = SubSeq(pipe, 5, Len(pipe))
     /\ totalRead' = 0
     /\ receiver' = "data"
     /\ UNCHANGED <<mDataPos, mDataCapacity, fields, at, writer, channel, got>>

\* At the end of the stream read() returns 0 and recv() goes on with a size
\* of 0: the caller gets an empty parcel.
ReadNoHeader ==
  /\ receiver = "header" /\ pipe = <<>> /\ sender = "closed"
  /\ receiver' = "idle"
  /\ UNCHANGED <<parcels, pipe, writer, totalRead, channel, got>>

\* Mutant of ReadData: each piece is read to the beginning of the block.
ReadDataFirst ==
  LET n == Min({mDataSize["in"] - totalRead, Len(pipe)})
  IN /\ receiver = "data" /\ mDataSize["in"] > totalRead /\ pipe # <<>>
     /\ mData' = [mData EXCEPT !["in"] = Overwritten(@, 0, SubSeq(pipe, 1, n))]
     /\ pipe' = SubSeq(pipe, n + 1, Len(pipe))
     /\ totalRead' = totalRead + n
     /\ UNCHANGED <<mDataPos, mDataSize, mDataCapacity, fields, at, writer,
                    receiver, channel, got>>

\* read() takes what is there, at most what is missing.
ReadData ==
  LET n == Min({mDataSize["in"] - totalRead, Len(pipe)})
  IN /\ receiver = "data" /\ mDataSize["in"] > totalRead /\ pipe # <<>>
     /\ mData' = [mData EXCEPT !["in"] =
                    Overwritten(@, totalRead, SubSeq(pipe, 1, n))]
     /\ pipe' = SubSeq(pipe, n + 1, Len(pipe))
     /\ totalRead' = totalRead + n
     /\ UNCHANGED <<mDataPos, mDataSize, mDataCapacity, fields, at, writer,
                    receiver, channel, got>>

\* Mutant of RecvReturns: the loop goes on while mDataSize >= totalRead.
RecvReturnsLate ==
  /\ receiver = "data" /\ totalRead > mDataSize["in"]
  /\ fields' = [fields EXCEPT !["in"] = Head(channel)]
  /\ channel' = Tail(channel)
  /\ receiver' = "idle"
  /\ UNCHANGED <<mData, mDataPos, mDataSize, mDataCapacity, at, pipe, writer,
                 totalRead, got>>

RecvReturns ==
  /\ receiver = "data" /\ totalRead = mDataSize["in"]
  /\ fields' = [fields EXCEPT !["in"] = Head(channel)]
  /\ channel' = Tail(channel)
  /\ receiver' = "idle"
  /\ UNCHANGED <<mData, mDataPos, mDataSize, mDataCapacity, at, pipe, writer,
                 totalRead, got>>

\* A read() or malloc() fails; only the read() in the loop is followed by
\* reset().
RecvFails ==
  /\ receiver \in {"header", "data"}
  /\ Emptied("in")
  /\ receiver' = "failed"
  /\ UNCHANGED <<pipe, writer, totalRead, channel, got>>

RecvWithoutMemory ==
  /\ receiver = "header" /\ Len(pipe) >= 4
  /\ mDataSize' = [mDataSize EXCEPT !["in"] = Value(pipe)]
  /\ pipe' = SubSeq(pipe, 5, Len(pipe))
  /\ receiver' = "failed"
  /\ UNCHANGED <<mData, mDataPos, mDataCapacity, fields, at, writer, totalRead,
                 channel, got>>

----------------------------------------------------------------------------

Sender == WriteHeader \/ WriteData \/ SendReturns

Receiver == ReadHeader \/ ReadNoHeader \/ ReadData \/ RecvReturns

Next ==
  \/ \E f \in Fields : Write(f)
  \/ \E p \in Parcels : \/ Rewind(p) \/ Reset(p)
                        \/ \E f \in Fields : \/ ReadValue(p, f)
                                             \/ ReadString(p, f)
                                             \/ StringFaults(p, f)
                                             \/ ReadBytes(p, f)
  \/ SendBegins \/ Sender \/ SendFails \/ Close
  \/ RecvBegins \/ Receiver \/ RecvFails \/ RecvWithoutMemory

Spec == Init /\ [][Next]_vars

\* A send() goes on while there is room in the pipe, a recv() while there is
\* something in it.
FairSpec == Spec /\ WF_vars(Sender) /\ WF_vars(Receiver)

----------------------------------------------------------------------------
(* Properties *)

\* The bytes of a sequence of fields.
Bytes(s) == FlattenSeq([i \in 1..Len(s) |-> s[i].bytes])

\* What goes through the pipe for a message, and for a sequence of messages.
Packet(m) == Header(Len(Bytes(m))) \o Bytes(m)

Encoded(ms) == FlattenSeq([i \in 1..Len(ms) |-> Packet(ms[i])])

TypeOK ==
  /\ mData \in [Parcels -> Seq(Byte \cup {Junk})]
  /\ {mDataPos, mDataSize, mDataCapacity, at} \subseteq [Parcels -> Nat]
  /\ fields \in [Parcels -> Seq(Fields)]
  /\ \A p \in Parcels : at[p] <= Len(fields[p])
  /\ sender \in {"idle", "header", "data", "closed"}
  /\ receiver \in {"idle", "header", "data", "failed"}
  /\ pipe \in Seq(Byte) /\ toWrite \in Seq(Byte)
  /\ totalRead \in Nat
  /\ channel \in Seq(Seq(Fields))

\* The position and the size of a parcel count the bytes of its fields and
\* stay inside its block, and the block begins with these bytes.
Holds(p) ==
  /\ mDataSize[p] <= Len(mData[p])
  /\ mDataPos[p] = Len(Bytes(SubSeq(fields[p], 1, at[p])))
  /\ Bytes(fields[p]) = SubSeq(mData[p], 1, mDataSize[p])

\* The capacity is that of the block and fits four bytes; send() begins at
\* the beginning.
Outgoing ==
  /\ Holds("out")
  /\ Len(mData["out"]) = mDataCapacity["out"]
  /\ mDataCapacity["out"] <= NewSize(MaxData, 0)
  /\ sender \in {"idle", "header"} => toWrite = <<>>
  /\ sender = "header" => at["out"] = 0

\* The parcel is empty until recv() has read the size, and then has the size
\* of the next message.
Incoming ==
  /\ receiver \in {"idle", "header"} => Holds("in")
  /\ receiver \in {"header", "data"} => at["in"] = 0 /\ mDataPos["in"] = 0
  /\ receiver = "data" =>
       /\ channel # <<>>
       /\ mDataSize["in"] = Len(Bytes(Head(channel)))
       /\ Len(mData["in"]) = mDataSize["in"]
       /\ totalRead <= mDataSize["in"]

\* What recv() has read of a message, what is in the pipe and what send() has
\* still to write are the messages under way, and nothing else.
Wire ==
  /\ receiver \in {"idle", "header"} => pipe \o toWrite = Encoded(channel)
  /\ receiver = "data" =>
       SubSeq(mData["in"], 1, totalRead) \o (pipe \o toWrite)
         = Bytes(Head(channel)) \o Encoded(Tail(channel))

\* Whatever was written, grown, sent and received in pieces, each parcel that
\* is in no call holds its fields and the pipe the messages under way.
ParcelInv == TypeOK /\ Outgoing /\ Incoming /\ Wire

Messages == INSTANCE AbstractParcel WITH Outgoing <- "out", Incoming <- "in"

\* Fields arrive as they were written, in order and message by message,
\* although the pipe carries bytes only.  A read beyond them that returns is
\* refused; readString() may instead not return.
KeepsMessages == Messages!ParcelSpec

\* The strlen() of readString() leaves the parcel only behind the last field:
\* a string that is read in its turn ends inside, wherever the block has been
\* moved to, the pipe has cut it and other fields with 0 in them lie.
FaultsOnlyAtTheEnd ==
  [][\A p \in Parcels, f \in Fields :
       StringFaults(p, f) => at[p] = Len(fields[p])]_vars

\* A recv() that has begun to read a message returns, unless the other side
\* has stopped in the middle of it: then its read() returns 0 for ever.
RecvEnds ==
  (receiver = "data") ~> \/ receiver # "data"
                         \/ (sender = "closed" /\ toWrite # <<>>)
=============================================================================
