----------------------------- MODULE ByteBuffer -----------------------------
(***************************************************************************)
(* utils/byte_buffer.cpp: a ring buffer shared by threads that write and   *)
(* threads that read it.                                                   *)
(*                                                                         *)
(* Every function holds mLock from its first look at the buffer to its     *)
(* return and gives it up only in pthread_cond_wait(), so the code before  *)
(* a wait and the code after it are one step each.  Both waits are an `if',*)
(* not a loop: whatever ends the wait, the code goes on.                   *)
(***************************************************************************)
EXTENDS Integers, Sequences

CONSTANTS Writers, Readers,
          Byte,
          Capacity,   \* mCapacity
          MaxLen,     \* bound: the length of a request
          Timeouts,   \* the timeouts callers use: "0" does not wait, "-1"
                      \* waits for ever, "ms" is a number of milliseconds
          FlushAnytime  \* is ByteBuffer_Flush() also called while a writer waits?

ASSUME BufferAssumption ==
  /\ Writers \cap Readers = {}
  /\ Capacity \in Nat \ {0}
  /\ MaxLen \in Nat \ {0}
  /\ Timeouts \subseteq {"0", "-1", "ms"}
  /\ FlushAnytime \in BOOLEAN

VARIABLES mEOS, mSize, mFront, mRear,
          mBuffer,   \* its content at the offsets 0..Capacity-1
          full,      \* the threads in pthread_cond_wait(&mCondVarFull)
          empty,     \* the threads in pthread_cond_wait(&mCondVarEmpty)
          pc,
          timeout,   \* per thread: its call's timeout
          offered,   \* per writer: its call's data
          asked,     \* per reader: its call's len
          out        \* the bytes the last read copied to its caller

vars == <<mEOS, mSize, mFront, mRear, mBuffer, full, empty, pc, timeout,
          offered, asked, out>>

Threads == Writers \cup Readers
Offsets == 0 .. Capacity - 1

Requests == UNION {[1..n -> Byte] : n \in 1..MaxLen}

TypeOK ==
  /\ mEOS \in BOOLEAN
  /\ mSize \in 0..Capacity /\ mFront \in 0..Capacity /\ mRear \in 0..Capacity
  /\ mBuffer \in [Offsets -> Byte]
  /\ full \subseteq Writers /\ empty \subseteq Readers
  /\ pc \in [Threads -> {"idle", "called", "waiting"}]
  /\ timeout \in [Threads -> {"0", "-1", "ms"}]
  /\ offered \in [Writers -> Seq(Byte)]
  /\ asked \in [Readers -> Nat]
  /\ out \in Seq(Byte)

\* ByteBuffer_Create(): the content is whatever malloc() returned.
Init ==
  /\ mEOS = FALSE
  /\ mSize = 0 /\ mFront = 0 /\ mRear = 0
  /\ mBuffer \in [Offsets -> Byte]
  /\ full = {} /\ empty = {}
  /\ pc = [p \in Threads |-> "idle"]
  /\ timeout = [p \in Threads |-> "0"]
  /\ offered = [w \in Writers |-> <<>>]
  /\ asked = [r \in Readers |-> 0]
  /\ out = <<>>

Least(x, y) == IF x > y THEN y ELSE x

AvailableSpace == Capacity - mSize

\* pthread_cond_signal(): one of the waiting threads, if there is any.
Signals(set, set2) == \/ set = {} /\ set2 = {}
                      \/ \E p \in set : set2 = set \ {p}

Goto(p, label) == pc' = [pc EXCEPT ![p] = label]

ring == <<mSize, mFront, mRear, mBuffer>>

\* The call returns; its arguments are gone.
Returns(p) ==
  /\ Goto(p, "idle")
  /\ timeout' = [timeout EXCEPT ![p] = "0"]
  /\ offered' = [w \in Writers |-> IF w = p THEN <<>> ELSE offered[w]]
  /\ asked' = [r \in Readers |-> IF r = p THEN 0 ELSE asked[r]]

----------------------------------------------------------------------------
(* ByteBuffer_Write() *)

CallWrite(w, data, t) ==
  /\ pc[w] = "idle"
  /\ offered' = [offered EXCEPT ![w] = data]
  /\ timeout' = [timeout EXCEPT ![w] = t]
  /\ Goto(w, "called")
  /\ UNCHANGED <<mEOS, ring, full, empty, asked, out>>

WriteMustWait == AvailableSpace = 0 /\ ~mEOS

\* Returns 0.
WriteRefused(w) ==
  /\ pc[w] = "called" /\ WriteMustWait /\ timeout[w] = "0"
  /\ Returns(w)
  /\ UNCHANGED <<mEOS, ring, full, empty, out>>

WriteWaits(w) ==
  /\ pc[w] = "called" /\ WriteMustWait /\ timeout[w] # "0"
  /\ full' = full \cup {w}
  /\ Goto(w, "waiting")
  /\ UNCHANGED <<mEOS, ring, empty, timeout, offered, asked, out>>

\* Past the wait, or without one.
WriteGoesOn(w) == \/ pc[w] = "called" /\ ~WriteMustWait
                  \/ pc[w] = "waiting" /\ w \notin full

\* Returns BUFFER_ERROR_EOS.
WriteMeetsEOS(w) ==
  /\ WriteGoesOn(w) /\ mEOS
  /\ Returns(w)
  /\ UNCHANGED <<mEOS, ring, full, empty, out>>

\* Appends the first len bytes of the data: where the ring wraps, the second
\* memcpy() starts at data + skip.
Appends(w, len, skip) ==
  LET data  == offered[w]
      toEnd == Capacity - mRear
  IN
  /\ WriteGoesOn(w) /\ ~mEOS
  /\ mBuffer' = [j \in Offsets |->
                   IF mRear <= j /\ j < mRear + len THEN data[j - mRear + 1]
                   ELSE IF j < len - toEnd THEN data[skip + j + 1]
                   ELSE mBuffer[j]]
  /\ mRear' = IF toEnd < len THEN len - toEnd ELSE mRear + len
  /\ mSize' = mSize + len
  /\ Signals(empty, empty')
  /\ Returns(w)
  /\ UNCHANGED <<mEOS, mFront, full, out>>

\* Mutant of WriteCopies: the second part is copied from the start of the data.
WriteWrapsWrong(w) == Appends(w, Least(Len(offered[w]), AvailableSpace), 0)

\* As much as fits is copied; what fits may be nothing, after a wait that
\* ended early or when another writer was faster.
WriteCopies(w) ==
  Appends(w, Least(Len(offered[w]), AvailableSpace), Capacity - mRear)

----------------------------------------------------------------------------
(* ByteBuffer_Read() *)

CallRead(r, len, t) ==
  /\ pc[r] = "idle"
  /\ asked' = [asked EXCEPT ![r] = len]
  /\ timeout' = [timeout EXCEPT ![r] = t]
  /\ Goto(r, "called")
  /\ UNCHANGED <<mEOS, ring, full, empty, offered, out>>

\* It waits for the next write even when there is data.
ReadMustWait == mSize = 0 \/ ~mEOS

\* Returns 0.
ReadRefused(r) ==
  /\ pc[r] = "called" /\ ReadMustWait /\ timeout[r] = "0"
  /\ Returns(r)
  /\ UNCHANGED <<mEOS, ring, full, empty, out>>

ReadWaits(r) ==
  /\ pc[r] = "called" /\ ReadMustWait /\ timeout[r] # "0"
  /\ empty' = empty \cup {r}
  /\ Goto(r, "waiting")
  /\ UNCHANGED <<mEOS, ring, full, timeout, offered, asked, out>>

ReadGoesOn(r) == \/ pc[r] = "called" /\ ~ReadMustWait
                 \/ pc[r] = "waiting" /\ r \notin empty

\* Returns BUFFER_ERROR_EOS, also when there is data left.
ReadMeetsEOS(r) ==
  /\ ReadGoesOn(r) /\ mEOS
  /\ Returns(r)
  /\ UNCHANGED <<mEOS, ring, full, empty, out>>

\* Takes len bytes from the front.
Removes(r, len) ==
  LET toEnd == Capacity - mFront IN
  /\ ReadGoesOn(r) /\ ~mEOS
  /\ out' = [i \in 1..len |->
               IF i <= toEnd THEN mBuffer[mFront + i - 1]
                             ELSE mBuffer[i - toEnd - 1]]
  /\ mFront' = IF toEnd < len THEN len - toEnd ELSE mFront + len
  /\ mSize' = mSize - len
  /\ Returns(r)
  /\ UNCHANGED <<mEOS, mRear, mBuffer, empty>>

\* Mutant of ReadCopies: no writer is signalled.
ReadSilently(r) == Removes(r, Least(asked[r], mSize)) /\ UNCHANGED full

ReadCopies(r) == Removes(r, Least(asked[r], mSize)) /\ Signals(full, full')

----------------------------------------------------------------------------
(* How waits end besides being signalled *)

\* pthread_cond_timedwait() gives ETIMEDOUT: BUFFER_ERROR_TIMEOUT.
TimesOut(p) ==
  /\ p \in full \cup empty /\ timeout[p] = "ms"
  /\ full' = full \ {p} /\ empty' = empty \ {p}
  /\ Returns(p)
  /\ UNCHANGED <<mEOS, ring, out>>

\* A spurious wakeup, or EINVAL from a deadline of exactly 10^9 ns, which the
\* carry (`>') leaves in tv_nsec.
WakesEarly(p) ==
  /\ p \in full \cup empty
  /\ full' = full \ {p} /\ empty' = empty \ {p}
  /\ UNCHANGED <<mEOS, ring, pc, timeout, offered, asked, out>>

(* ByteBuffer_SetEOS() and ByteBuffer_Flush() *)

\* Mutant of SetEOS: only writers are signalled.
SetEOSForWriters(isEOS) ==
  /\ mEOS' = isEOS
  /\ Signals(full, full')
  /\ UNCHANGED <<ring, empty, pc, timeout, offered, asked, out>>

SetEOS(isEOS) ==
  /\ mEOS' = isEOS
  /\ Signals(full, full') /\ Signals(empty, empty')
  /\ UNCHANGED <<ring, pc, timeout, offered, asked, out>>

\* Mutant of Flush: mRear is not reset.
FlushKeepsRear ==
  /\ FlushAnytime \/ full = {}
  /\ mSize' = 0 /\ mFront' = 0
  /\ UNCHANGED <<mEOS, mRear, mBuffer, full, empty, pc, timeout, offered, asked, out>>

Flush ==
  /\ FlushAnytime \/ full = {}
  /\ mSize' = 0 /\ mFront' = 0 /\ mRear' = 0
  /\ UNCHANGED <<mEOS, mBuffer, full, empty, pc, timeout, offered, asked, out>>

----------------------------------------------------------------------------

WriterStep(w) ==
  WriteRefused(w) \/ WriteWaits(w) \/ WriteMeetsEOS(w) \/ WriteCopies(w)

ReaderStep(r) ==
  ReadRefused(r) \/ ReadWaits(r) \/ ReadMeetsEOS(r) \/ ReadCopies(r)

Next ==
  \/ \E w \in Writers : \/ \E data \in Requests, t \in Timeouts : CallWrite(w, data, t)
                        \/ WriterStep(w)
  \/ \E r \in Readers : \/ \E len \in 1..MaxLen, t \in Timeouts : CallRead(r, len, t)
                        \/ ReaderStep(r)
  \/ \E p \in Threads : TimesOut(p) \/ WakesEarly(p)
  \/ \E isEOS \in BOOLEAN : SetEOS(isEOS)
  \/ Flush

Spec == Init /\ [][Next]_vars

----------------------------------------------------------------------------
(* Properties *)

\* Where the i-th byte of the stream is kept, from 1.
Slot(front, i) == IF i <= Capacity - front THEN front + i - 1
                                           ELSE front + i - 1 - Capacity

\* The bytes a reader has yet to get, in order.
Content == [i \in 1..mSize |-> mBuffer[Slot(mFront, i)]]

\* The two indices and the size agree, although each function updates one
\* index and both may stand at Capacity instead of 0; if they drifted apart
\* a later read would return bytes nobody wrote.
RingInv == mFront + mSize \in {mRear, mRear + Capacity}

\* The inductive invariant: the ranges of the indices, and that they agree.
BufferInv == TypeOK /\ RingInv

Stream == INSTANCE AbstractStream WITH queue <- Content, closed <- mEOS

\* The buffer is a first-in first-out stream: whatever the writers, readers,
\* timeouts and flushes do, reads deliver what writes accepted, in order.
IsAStream == Stream!StreamSpec

\* With one writer, and no flush while it waits, the writer waits only while
\* the buffer is full: every read signals, so the wakeup is not lost although
\* the wait is not repeated in a loop.
WriterWaitsForSpace == full # {} => mSize = Capacity /\ ~mEOS

\* With one reader, nobody waits at the end of the stream while bytes are left:
\* ByteBuffer_Read() waits on a ring with data as long as the stream is open,
\* and nothing is written after its end, so that only the signal of SetEOS()
\* can end such a wait.
NoWaitAtTheEnd == empty # {} => ~mEOS \/ mSize = 0
=============================================================================
