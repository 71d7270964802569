-------------------------- MODULE ByteBufferProofs --------------------------
(***************************************************************************)
(* For every capacity, every set of threads and every length of request:   *)
(* the ring indices stay consistent and the buffer implements the stream   *)
(* of AbstractStream.                                                      *)
(***************************************************************************)
EXTENDS ByteBuffer, TLAPS

\* Requests are non-empty sequences of bytes.
LEMMA RequestsAreSequences == \A data \in Requests : data \in Seq(Byte)
  <1> SUFFICES ASSUME NEW n \in 1..MaxLen, NEW data \in [1..n -> Byte]
               PROVE  data \in Seq(Byte)
    BY DEF Requests
  <1> n \in Nat
    BY BufferAssumption
  <1> QED
    OBVIOUS

\* A returning call leaves its thread idle and its arguments well-typed.
LEMMA ReturnsType ==
  ASSUME TypeOK, NEW p \in Threads, Returns(p)
  PROVE  /\ pc' \in [Threads -> {"idle", "called", "waiting"}]
         /\ timeout' \in [Threads -> {"0", "-1", "ms"}]
         /\ offered' \in [Writers -> Seq(Byte)]
         /\ asked' \in [Readers -> Nat]
  BY DEF TypeOK, Returns, Goto

\* pthread_cond_signal() only ever removes a waiting thread.
LEMMA SignalRemoves ==
  ASSUME NEW set, NEW set2, Signals(set, set2) PROVE set2 \subseteq set
  BY DEF Signals

\* A write keeps the types and the ring.
LEMMA WriteKeepsInv ==
  ASSUME BufferInv, NEW w \in Writers, WriteCopies(w) PROVE BufferInv'
  <1> DEFINE data  == offered[w]
             len   == Least(Len(data), AvailableSpace)
             toEnd == Capacity - mRear
  <1> USE BufferAssumption DEF BufferInv, TypeOK, Threads
  <1>1. data \in Seq(Byte) /\ Len(data) \in Nat
    OBVIOUS
  <1>2. len \in Nat /\ len <= Len(data) /\ len <= Capacity - mSize
    BY <1>1 DEF Least, AvailableSpace
  <1>3. toEnd \in Nat
    OBVIOUS
  <1> HIDE DEF data, len, toEnd
  <1>4. /\ mBuffer' = [j \in Offsets |->
                        IF mRear <= j /\ j < mRear + len THEN data[j - mRear + 1]
                        ELSE IF j < len - toEnd THEN data[toEnd + j + 1]
                        ELSE mBuffer[j]]
        /\ mRear' = IF toEnd < len THEN len - toEnd ELSE mRear + len
        /\ mSize' = mSize + len
        /\ UNCHANGED <<mEOS, mFront, full, out>>
    BY DEF WriteCopies, Appends, data, len, toEnd
  <1>5. mSize' \in 0..Capacity /\ mRear' \in 0..Capacity /\ RingInv'
    BY <1>2, <1>3, <1>4 DEF RingInv, toEnd
  <1>6. mBuffer' \in [Offsets -> Byte]
    <2> SUFFICES ASSUME NEW j \in Offsets PROVE mBuffer'[j] \in Byte
      BY <1>4
    <2>1. CASE mRear <= j /\ j < mRear + len
      <3> j - mRear + 1 \in 1..Len(data)
        BY <1>1, <1>2, <2>1 DEF Offsets
      <3> QED
        BY <1>1, <1>4, <2>1
    <2>2. CASE ~(mRear <= j /\ j < mRear + len) /\ j < len - toEnd
      <3> toEnd + j + 1 \in 1..Len(data)
        BY <1>1, <1>2, <1>3, <2>2 DEF Offsets
      <3> QED
        BY <1>1, <1>4, <2>2
    <2>3. CASE ~(mRear <= j /\ j < mRear + len) /\ ~(j < len - toEnd)
      BY <1>4, <2>3
    <2> QED
      BY <2>1, <2>2, <2>3
  <1>7. Returns(w) /\ empty' \subseteq empty
    BY SignalRemoves DEF WriteCopies, Appends
  <1> QED
    BY <1>4, <1>5, <1>6, <1>7, ReturnsType

\* A read keeps the types and the ring.
LEMMA ReadKeepsInv ==
  ASSUME BufferInv, NEW r \in Readers, ReadCopies(r) PROVE BufferInv'
  <1> DEFINE len   == Least(asked[r], mSize)
             toEnd == Capacity - mFront
  <1> USE BufferAssumption DEF BufferInv, TypeOK, Threads
  <1>1. len \in Nat /\ len <= mSize
    BY DEF Least
  <1>2. toEnd \in Nat
    OBVIOUS
  <1> HIDE DEF len, toEnd
  <1>3. /\ out' = [i \in 1..len |->
                    IF i <= toEnd THEN mBuffer[mFront + i - 1]
                                  ELSE mBuffer[i - toEnd - 1]]
        /\ mFront' = IF toEnd < len THEN len - toEnd ELSE mFront + len
        /\ mSize' = mSize - len
        /\ UNCHANGED <<mEOS, mRear, mBuffer, empty>>
    BY DEF ReadCopies, Removes, len, toEnd
  <1>4. mSize' \in 0..Capacity /\ mFront' \in 0..Capacity /\ RingInv'
    BY <1>1, <1>2, <1>3 DEF RingInv, toEnd
  <1>5. out' \in Seq(Byte)
    <2>1. ASSUME NEW i \in 1..len
          PROVE (IF i <= toEnd THEN mBuffer[mFront + i - 1]
                               ELSE mBuffer[i - toEnd - 1]) \in Byte
      <3>1. CASE i <= toEnd
        <4> mFront + i - 1 \in Offsets
          BY <3>1, <1>1 DEF toEnd, Offsets
        <4> QED
          BY <3>1
      <3>2. CASE ~(i <= toEnd)
        <4> i - toEnd - 1 \in Offsets
          BY <3>2, <1>1, <1>2 DEF Offsets
        <4> QED
          BY <3>2
      <3> QED
        BY <3>1, <3>2
    <2>2. out' \in [1..len -> Byte]
      BY <1>3, <2>1
    <2> QED
      BY <1>1, <2>2
  <1>6. Returns(r) /\ full' \subseteq full
    BY SignalRemoves DEF ReadCopies, Removes
  <1> QED
    BY <1>3, <1>4, <1>5, <1>6, ReturnsType

\* Every step keeps the inductive invariant.
LEMMA BufferStep == BufferInv /\ [Next]_vars => BufferInv'
  <1> SUFFICES ASSUME BufferInv, [Next]_vars PROVE BufferInv'
    OBVIOUS
  <1> USE DEF BufferInv, RingInv, TypeOK, Threads, ring
  <1>1. ASSUME NEW w \in Writers, NEW data \in Requests, NEW t \in Timeouts,
               CallWrite(w, data, t)
        PROVE  BufferInv'
    <2> data \in Seq(Byte)
      BY RequestsAreSequences
    <2> t \in {"0", "-1", "ms"}
      BY BufferAssumption
    <2> QED
      BY <1>1 DEF CallWrite, Goto
  <1>2. ASSUME NEW w \in Writers, WriterStep(w) PROVE BufferInv'
    <2>1. CASE WriteRefused(w)
      BY <2>1, ReturnsType DEF WriteRefused
    <2>2. CASE WriteWaits(w)
      BY <2>2 DEF WriteWaits, Goto
    <2>3. CASE WriteMeetsEOS(w)
      BY <2>3, ReturnsType DEF WriteMeetsEOS
    <2>4. CASE WriteCopies(w)
      BY <2>4, WriteKeepsInv
    <2> QED
      BY <1>2, <2>1, <2>2, <2>3, <2>4 DEF WriterStep
  <1>3. ASSUME NEW r \in Readers, NEW len \in 1..MaxLen, NEW t \in Timeouts,
               CallRead(r, len, t)
        PROVE  BufferInv'
    <2> len \in Nat /\ t \in {"0", "-1", "ms"}
      BY BufferAssumption
    <2> QED
      BY <1>3 DEF CallRead, Goto
  <1>4. ASSUME NEW r \in Readers, ReaderStep(r) PROVE BufferInv'
    <2>1. CASE ReadRefused(r)
      BY <2>1, ReturnsType DEF ReadRefused
    <2>2. CASE ReadWaits(r)
      BY <2>2 DEF ReadWaits, Goto
    <2>3. CASE ReadMeetsEOS(r)
      BY <2>3, ReturnsType DEF ReadMeetsEOS
    <2>4. CASE ReadCopies(r)
      BY <2>4, ReadKeepsInv
    <2> QED
      BY <1>4, <2>1, <2>2, <2>3, <2>4 DEF ReaderStep
  <1>5. ASSUME NEW p \in Threads, TimesOut(p) PROVE BufferInv'
    BY <1>5, ReturnsType DEF TimesOut
  <1>6. ASSUME NEW p \in Threads, WakesEarly(p) PROVE BufferInv'
    BY <1>6 DEF WakesEarly
  <1>7. ASSUME NEW isEOS \in BOOLEAN, SetEOS(isEOS) PROVE BufferInv'
    <2> full' \subseteq full /\ empty' \subseteq empty
      BY <1>7, SignalRemoves DEF SetEOS
    <2> QED
      BY <1>7 DEF SetEOS
  <1>8. CASE Flush
    BY <1>8, BufferAssumption DEF Flush
  <1>9. CASE UNCHANGED vars
    BY <1>9 DEF vars
  <1> QED
    BY <1>1, <1>2, <1>3, <1>4, <1>5, <1>6, <1>7, <1>8, <1>9 DEF Next

\* Initially the ring is empty.
LEMMA BufferInitInv == Init => BufferInv
  <1> SUFFICES ASSUME Init PROVE BufferInv
    OBVIOUS
  <1>1. RingInv /\ mSize \in 0..Capacity /\ mFront \in 0..Capacity /\ mRear \in 0..Capacity
    BY BufferAssumption DEF Init, RingInv
  <1>2. out \in Seq(Byte) /\ offered \in [Writers -> Seq(Byte)]
    BY DEF Init
  <1> QED
    BY <1>1, <1>2 DEF Init, BufferInv, TypeOK, Threads

\* The types and the ring invariant hold in every state of every buffer.
THEOREM BufferInvariant == Spec => []BufferInv
  BY BufferInitInv, BufferStep, PTL DEF Spec

\* The variables keep their types: in particular no index leaves the ring.
THEOREM BufferTypeCorrect == Spec => []TypeOK
  <1>1. BufferInv => TypeOK
    BY DEF BufferInv
  <1> QED
    BY <1>1, BufferInvariant, PTL

\* The indices and the size of the ring always agree.
THEOREM RingIsConsistent == Spec => []RingInv
  <1>1. BufferInv => RingInv
    BY DEF BufferInv
  <1> QED
    BY <1>1, BufferInvariant, PTL

----------------------------------------------------------------------------
(* The refinement *)

\* A byte of the stream is inside the ring.
LEMMA SlotInRange ==
  \A front \in 0..Capacity : \A i \in 1..Capacity : Slot(front, i) \in Offsets
  BY BufferAssumption DEF Slot, Offsets

\* The content is a sequence of bytes of length mSize.
LEMMA ContentType ==
  BufferInv =>
    /\ Content \in Seq(Byte) /\ Len(Content) = mSize
    /\ \A i \in 1..mSize : Slot(mFront, i) \in Offsets /\ Content[i] = mBuffer[Slot(mFront, i)]
  <1> SUFFICES ASSUME BufferInv
               PROVE  /\ Content \in Seq(Byte) /\ Len(Content) = mSize
                      /\ \A i \in 1..mSize :
                           Slot(mFront, i) \in Offsets /\ Content[i] = mBuffer[Slot(mFront, i)]
    OBVIOUS
  <1> USE BufferAssumption DEF BufferInv, TypeOK
  <1>1. \A i \in 1..mSize : Slot(mFront, i) \in Offsets
    BY DEF Slot, Offsets
  <1>2. Content \in [1..mSize -> Byte]
    BY <1>1 DEF Content
  <1> QED
    BY <1>1, <1>2 DEF Content

\* A step that leaves the ring alone leaves the content alone.
LEMMA RingUnchanged == UNCHANGED ring => UNCHANGED Content
  BY DEF ring, Content, Slot

\* A write appends what it accepts.
LEMMA WriteAppends ==
  ASSUME BufferInv, NEW w \in Writers, WriteCopies(w)
  PROVE  Content' = Content \o SubSeq(offered[w], 1, Least(Len(offered[w]), AvailableSpace))
  <1> DEFINE data  == offered[w]
             len   == Least(Len(data), AvailableSpace)
             toEnd == Capacity - mRear
  <1> USE BufferAssumption DEF BufferInv, TypeOK, Threads
  <1>1. data \in Seq(Byte) /\ Len(data) \in Nat
    OBVIOUS
  <1>2. len \in Nat /\ len <= Len(data) /\ len <= Capacity - mSize
    BY <1>1 DEF Least, AvailableSpace
  <1>3. /\ Content \in Seq(Byte) /\ Len(Content) = mSize
        /\ \A i \in 1..mSize : /\ Slot(mFront, i) \in Offsets
                              /\ Content[i] = mBuffer[Slot(mFront, i)]
    BY ContentType
  <1>3a. toEnd \in Nat
    OBVIOUS
  <1> HIDE DEF data, len, toEnd
  <1>4. /\ mBuffer' = [j \in Offsets |->
                        IF mRear <= j /\ j < mRear + len THEN data[j - mRear + 1]
                        ELSE IF j < len - toEnd THEN data[toEnd + j + 1]
                        ELSE mBuffer[j]]
        /\ mRear' = IF toEnd < len THEN len - toEnd ELSE mRear + len
        /\ mSize' = mSize + len
        /\ mFront' = mFront
    BY DEF WriteCopies, Appends, data, len, toEnd
  <1>5. BufferInv'
    BY WriteKeepsInv
  <1>6. /\ Content' \in Seq(Byte) /\ Len(Content') = mSize + len
        /\ \A i \in 1..mSize + len :
             Slot(mFront, i) \in Offsets /\ Content'[i] = mBuffer'[Slot(mFront, i)]
    <2>0. mSize' \in 0..Capacity /\ mFront' \in 0..Capacity
      BY <1>5
    <2>1. \A i \in 1..mSize' : Slot(mFront', i) \in Offsets
      BY <2>0, SlotInRange
    <2>2. Content' \in [1..mSize' -> Byte] /\ mSize' \in Nat
      BY <1>5, <2>1 DEF Content
    <2>3. /\ Content' \in Seq(Byte) /\ Len(Content') = mSize'
          /\ \A i \in 1..mSize' : Slot(mFront', i) \in Offsets /\ Content'[i] = mBuffer'[Slot(mFront', i)]
      BY <1>5, <2>1, <2>2 DEF Content
    <2> QED
      BY <2>3, <1>4
  <1>7. SubSeq(data, 1, len) \in Seq(Byte) /\ Len(SubSeq(data, 1, len)) = len
    BY <1>1, <1>2
  <1> DEFINE s(i) == Slot(mFront, i)
  <1>8. ASSUME NEW i \in 1..mSize PROVE Content'[i] = Content[i]
    <2>1. ~(mRear <= s(i) /\ s(i) < mRear + len) /\ ~(s(i) < len - toEnd)
      BY <1>2 DEF Slot, RingInv, toEnd
    <2>2. s(i) \in Offsets /\ Content[i] = mBuffer[s(i)]
      BY <1>3
    <2>3. i \in 1..mSize + len
      BY <1>2
    <2>4. Content'[i] = mBuffer'[s(i)]
      BY <1>6, <2>3
    <2> HIDE DEF s
    <2>5. mBuffer'[s(i)] = mBuffer[s(i)]
      BY <1>4, <2>1, <2>2
    <2> QED
      BY <2>2, <2>4, <2>5
  <1>9. ASSUME NEW i \in mSize + 1 .. mSize + len PROVE Content'[i] = data[i - mSize]
    <2>1. i \in 1..mSize + len
      BY <1>2
    <2>2. s(i) \in Offsets /\ Content'[i] = mBuffer'[s(i)]
      BY <1>6, <2>1
    <2>3. CASE i - mSize <= toEnd
      <3>1. s(i) = mRear + (i - mSize) - 1
        BY <1>2, <2>3 DEF Slot, RingInv, toEnd
      <3> HIDE DEF s
      <3>2. mRear <= s(i) /\ s(i) < mRear + len /\ s(i) - mRear + 1 = i - mSize
        BY <1>2, <3>1
      <3>3. mBuffer'[s(i)] = data[i - mSize]
        BY <1>4, <2>2, <3>2
      <3> QED
        BY <2>2, <3>3
    <2>4. CASE ~(i - mSize <= toEnd)
      <3>1. s(i) = (i - mSize) - toEnd - 1
        BY <1>2, <2>4 DEF Slot, RingInv, toEnd
      <3> HIDE DEF s
      <3>2. ~(mRear <= s(i) /\ s(i) < mRear + len)
        BY <1>2, <2>4, <3>1 DEF toEnd, RingInv
      <3>3. s(i) < len - toEnd /\ toEnd + s(i) + 1 = i - mSize
        BY <1>2, <1>3a, <2>4, <3>1
      <3>4. mBuffer'[s(i)] = data[i - mSize]
        BY <1>4, <2>2, <3>2, <3>3
      <3> QED
        BY <2>2, <3>4
    <2> QED
      BY <2>3, <2>4
  <1>10. \A i \in 1..mSize + len :
           Content'[i] = (Content \o SubSeq(data, 1, len))[i]
    <2> SUFFICES ASSUME NEW i \in 1..mSize + len
                 PROVE  Content'[i] = (Content \o SubSeq(data, 1, len))[i]
      OBVIOUS
    <2>1. CASE i <= mSize
      BY <1>2, <1>3, <1>7, <1>8, <2>1
    <2>2. CASE ~(i <= mSize)
      <3>1. (Content \o SubSeq(data, 1, len))[i] = SubSeq(data, 1, len)[i - mSize]
        BY <1>2, <1>3, <1>7, <2>2
      <3>2. i - mSize \in 1..len
        BY <1>2, <2>2
      <3>3. SubSeq(data, 1, len)[i - mSize] = data[i - mSize]
        BY <1>1, <1>2, <3>2
      <3>4. i \in mSize + 1 .. mSize + len
        BY <1>2, <2>2
      <3> QED
        BY <1>9, <3>1, <3>3, <3>4
    <2> QED
      BY <2>1, <2>2
  <1>11. /\ Content \o SubSeq(data, 1, len) \in Seq(Byte)
         /\ Len(Content \o SubSeq(data, 1, len)) = mSize + len
    <2> HIDE DEF BufferInv, TypeOK
    <2> DEFINE tail == SubSeq(data, 1, len)
    <2>1. tail \in Seq(Byte) /\ Len(tail) = len
      BY <1>7
    <2> HIDE DEF tail
    <2>2. Content \o tail \in Seq(Byte) /\ Len(Content \o tail) = Len(Content) + Len(tail)
      BY <1>3, <2>1
    <2> QED
      BY <1>3, <2>1, <2>2 DEF tail
  <1>12. Content' = Content \o SubSeq(data, 1, len)
    <2> HIDE DEF BufferInv, TypeOK
    <2> DEFINE longer == Content \o SubSeq(data, 1, len)
    <2>1. longer \in Seq(Byte) /\ Len(longer) = mSize + len
      BY <1>11
    <2>2. \A i \in 1..mSize + len : Content'[i] = longer[i]
      BY <1>10
    <2> HIDE DEF longer
    <2>3. Content' = longer
      BY <1>6, <2>1, <2>2
    <2> QED
      BY <2>3 DEF longer
  <1> QED
    BY <1>12 DEF data, len

\* A read delivers the front of the content and removes it.
LEMMA ReadTakes ==
  ASSUME BufferInv, NEW r \in Readers, ReadCopies(r)
  PROVE  LET len == Least(asked[r], mSize)
         IN  /\ len \in 0..Len(Content)
             /\ out' = SubSeq(Content, 1, len)
             /\ Content' = SubSeq(Content, len + 1, Len(Content))
  <1> DEFINE len   == Least(asked[r], mSize)
             toEnd == Capacity - mFront
  <1> USE BufferAssumption DEF BufferInv, TypeOK, Threads
  <1>1. len \in Nat /\ len <= mSize
    BY DEF Least
  <1>2. /\ Content \in Seq(Byte) /\ Len(Content) = mSize
        /\ \A i \in 1..mSize : Slot(mFront, i) \in Offsets /\ Content[i] = mBuffer[Slot(mFront, i)]
    BY ContentType
  <1> HIDE DEF len, toEnd
  <1>3. /\ out' = [i \in 1..len |->
                    IF i <= toEnd THEN mBuffer[mFront + i - 1]
                                  ELSE mBuffer[i - toEnd - 1]]
        /\ mFront' = IF toEnd < len THEN len - toEnd ELSE mFront + len
        /\ mSize' = mSize - len
        /\ UNCHANGED <<mRear, mBuffer>>
    BY DEF ReadCopies, Removes, len, toEnd
  <1>4. BufferInv'
    BY ReadKeepsInv
  <1>5. out' = SubSeq(Content, 1, len)
    <2>1. \A i \in 1..len : out'[i] = Content[i]
      BY <1>1, <1>2, <1>3 DEF Slot, toEnd
    <2>2. out' \in Seq(Byte) /\ Len(out') = len
      BY <1>1, <1>3, <1>4
    <2>3. /\ SubSeq(Content, 1, len) \in Seq(Byte)
          /\ Len(SubSeq(Content, 1, len)) = len
          /\ \A i \in 1..len : SubSeq(Content, 1, len)[i] = Content[i]
      BY <1>1, <1>2
    <2> QED
      BY <1>1, <2>1, <2>2, <2>3
  <1>6. /\ Content' \in Seq(Byte) /\ Len(Content') = mSize - len
        /\ \A i \in 1..mSize - len : Content'[i] = mBuffer[Slot(mFront', i)]
    <2>0. mSize' \in 0..Capacity /\ mFront' \in 0..Capacity
      BY <1>4
    <2>1. \A i \in 1..mSize' : Slot(mFront', i) \in Offsets
      BY <2>0, SlotInRange
    <2>2. Content' \in [1..mSize' -> Byte] /\ mSize' \in Nat
      BY <1>4, <2>1 DEF Content
    <2>3. /\ Content' \in Seq(Byte) /\ Len(Content') = mSize'
          /\ \A i \in 1..mSize' : Slot(mFront', i) \in Offsets /\ Content'[i] = mBuffer'[Slot(mFront', i)]
      BY <1>4, <2>1, <2>2 DEF Content
    <2> QED
      BY <2>3, <1>3
  <1>7. Content' = SubSeq(Content, len + 1, mSize)
    <2>1. /\ SubSeq(Content, len + 1, mSize) \in Seq(Byte)
          /\ Len(SubSeq(Content, len + 1, mSize)) = mSize - len
          /\ \A i \in 1..mSize - len :
               SubSeq(Content, len + 1, mSize)[i] = Content[i + len]
      BY <1>1, <1>2
    <2>2. \A i \in 1..mSize - len : mBuffer[Slot(mFront', i)] = Content[i + len]
      <3> SUFFICES ASSUME NEW i \in 1..mSize - len
                   PROVE  mBuffer[Slot(mFront', i)] = Content[i + len]
        OBVIOUS
      <3>1. Slot(mFront', i) = Slot(mFront, i + len)
        BY <1>1, <1>3 DEF Slot, toEnd
      <3> QED
        BY <1>1, <1>2, <3>1
    <2> HIDE DEF BufferInv, TypeOK
    <2> DEFINE rest == SubSeq(Content, len + 1, mSize)
    <2>3. /\ rest \in Seq(Byte) /\ Len(rest) = mSize - len
          /\ \A i \in 1..mSize - len : Content'[i] = rest[i]
      BY <1>6, <2>1, <2>2
    <2> HIDE DEF rest
    <2>4. Content' = rest
      BY <1>6, <2>3
    <2> QED
      BY <2>4 DEF rest
  <1> QED
    BY <1>1, <1>2, <1>5, <1>7 DEF len

\* Every step is a step of the stream, or leaves the stream alone.
LEMMA StepIsStreamStep ==
  ASSUME BufferInv, [Next]_vars
  PROVE  [Stream!StreamNext]_<<Content, mEOS, offered, out>>
  <1> USE DEF Stream!StreamNext
  <1>1. ASSUME UNCHANGED ring, UNCHANGED <<mEOS, out>>
        PROVE  [Stream!StreamNext]_<<Content, mEOS, offered, out>>
    BY <1>1, RingUnchanged DEF Stream!Offers
  <1>2. ASSUME NEW w \in Writers, WriterStep(w)
        PROVE  [Stream!StreamNext]_<<Content, mEOS, offered, out>>
    <2>1. CASE WriteCopies(w)
      <3> DEFINE n == Least(Len(offered[w]), AvailableSpace)
      <3>1. Content' = Content \o SubSeq(offered[w], 1, n)
        BY <2>1, WriteAppends
      <3>2. n \in 0..Len(offered[w]) /\ Len(Content) + n <= Capacity
        BY BufferAssumption, ContentType DEF Least, AvailableSpace, BufferInv, TypeOK
      <3>3. offered' = [offered EXCEPT ![w] = <<>>]
        BY <2>1 DEF WriteCopies, Appends, Returns, BufferInv, TypeOK
      <3> QED
        BY <2>1, <3>1, <3>2, <3>3 DEF Stream!Put, WriteCopies, Appends
    <2> QED
      BY <1>1, <1>2, <2>1 DEF WriterStep, WriteRefused, WriteWaits, WriteMeetsEOS
  <1>3. ASSUME NEW r \in Readers, ReaderStep(r)
        PROVE  [Stream!StreamNext]_<<Content, mEOS, offered, out>>
    <2>1. CASE ReadCopies(r)
      <3>1. offered' = offered
        BY <2>1, BufferAssumption DEF ReadCopies, Removes, Returns, BufferInv, TypeOK
      <3> QED
        BY <2>1, <3>1, ReadTakes DEF Stream!Take, ReadCopies, Removes
    <2> QED
      BY <1>1, <1>3, <2>1 DEF ReaderStep, ReadRefused, ReadWaits, ReadMeetsEOS
  <1>4. ASSUME NEW isEOS \in BOOLEAN, SetEOS(isEOS)
        PROVE  [Stream!StreamNext]_<<Content, mEOS, offered, out>>
    BY <1>4, RingUnchanged DEF SetEOS, Stream!SetEOS
  <1>5. CASE Flush
    <2> Content' = <<>>
      BY <1>5 DEF Flush, Content
    <2> QED
      BY <1>5 DEF Flush, Stream!Flush
  <1>6. CASE UNCHANGED vars
    BY <1>1, <1>6 DEF vars, ring
  <1> QED
    BY <1>1, <1>2, <1>3, <1>4, <1>5, <1>6
       DEF Next, CallWrite, CallRead, TimesOut, WakesEarly

\* The buffer implements the first-in first-out stream: what reads deliver is
\* what writes accepted, in order, none of it twice.
THEOREM BufferIsAStream == Spec => IsAStream
  <1>1. Init => Stream!StreamInit
    BY DEF Init, Stream!StreamInit, Content
  <1>2. BufferInv /\ [Next]_vars
          => [Stream!StreamNext]_<<Content, mEOS, offered, out>>
    BY StepIsStreamStep
  <1> QED
    BY <1>1, <1>2, BufferInvariant, PTL DEF Spec, IsAStream, Stream!StreamSpec
----------------------------------------------------------------------------
(* The wakeups.  Each wait is an `if', so they depend on how many threads  *)
(* there are on either side.                                               *)

OneWriter == \A v, w \in Writers : v = w
OneReader == \A q, r \in Readers : q = r

\* Where there is one thread at most, a signal leaves none waiting.
LEMMA SignalEmpties ==
  ASSUME NEW S, \A p, q \in S : p = q,
         NEW set \in SUBSET S, NEW set2, Signals(set, set2)
  PROVE  set2 = {}
  BY DEF Signals

\* A thread in a queue is one that waits there, so it is not about to look at
\* the buffer for the first time.
QueuedWait == \A p \in full : pc[p] = "waiting"

\* With WriterWaitsForSpace, what the steps of one writer preserve.
FullInv == QueuedWait /\ WriterWaitsForSpace

LEMMA FullStep ==
  ASSUME OneWriter, ~FlushAnytime, BufferInv, FullInv, [Next]_vars
  PROVE  FullInv'
  <1> USE DEF BufferInv, TypeOK, FullInv, QueuedWait, WriterWaitsForSpace, ring
  <1>0. Signals(full, full') => full' = {}
    <2> full \in SUBSET Writers /\ \A v, w \in Writers : v = w
      BY DEF OneWriter
    <2> QED
      BY SignalEmpties
  <1>1. ASSUME NEW w \in Writers, NEW data \in Requests, NEW t \in Timeouts,
               CallWrite(w, data, t)
        PROVE  FullInv'
    BY <1>1 DEF CallWrite, Goto, Threads
  <1>2. ASSUME NEW w \in Writers, WriterStep(w) PROVE FullInv'
    <2>1. w \notin full => full = {}
      BY DEF OneWriter
    <2>2. CASE WriteRefused(w)
      BY <2>1, <2>2 DEF WriteRefused
    <2>3. CASE WriteWaits(w)
      <3>1. mSize = Capacity /\ ~mEOS
        BY <2>3, BufferAssumption DEF WriteWaits, WriteMustWait, AvailableSpace
      <3>2. full' = full \cup {w} /\ pc' = [pc EXCEPT ![w] = "waiting"]
        BY <2>3 DEF WriteWaits, Goto
      <3> QED
        BY <2>3, <3>1, <3>2 DEF WriteWaits, Threads
    <2>4. CASE WriteMeetsEOS(w)
      <3> full = {}
        BY <2>1, <2>4 DEF WriteMeetsEOS, WriteGoesOn
      <3> QED
        BY <2>4 DEF WriteMeetsEOS
    <2>5. CASE WriteCopies(w)
      <3> full = {}
        BY <2>1, <2>5 DEF WriteCopies, Appends, WriteGoesOn
      <3> QED
        BY <2>5 DEF WriteCopies, Appends
    <2> QED
      BY <1>2, <2>2, <2>3, <2>4, <2>5 DEF WriterStep
  <1>3. ASSUME NEW r \in Readers, NEW len \in 1..MaxLen, NEW t \in Timeouts,
               CallRead(r, len, t)
        PROVE  FullInv'
    BY <1>3, BufferAssumption DEF CallRead, Goto, Threads
  <1>4. ASSUME NEW r \in Readers, ReaderStep(r) PROVE FullInv'
    <2>1. r \notin full
      BY BufferAssumption
    <2>2. CASE ReadRefused(r)
      BY <2>1, <2>2 DEF ReadRefused, Returns, Goto, Threads
    <2>3. CASE ReadWaits(r)
      BY <2>1, <2>3 DEF ReadWaits, Goto, Threads
    <2>4. CASE ReadMeetsEOS(r)
      BY <2>1, <2>4 DEF ReadMeetsEOS, Returns, Goto, Threads
    <2>5. CASE ReadCopies(r)
      <3> full' = {}
        BY <2>5, <1>0 DEF ReadCopies
      <3> QED
        OBVIOUS
    <2> QED
      BY <1>4, <2>2, <2>3, <2>4, <2>5 DEF ReaderStep
  <1>5. ASSUME NEW p \in Threads, TimesOut(p) \/ WakesEarly(p) PROVE FullInv'
    <2>1. /\ full' = full \ {p}
          /\ \A q \in full \ {p} : pc'[q] = pc[q]
          /\ UNCHANGED <<mSize, mEOS>>
      BY <1>5 DEF TimesOut, WakesEarly, Returns, Goto, Threads
    <2> QED
      BY <2>1
  <1>6. ASSUME NEW isEOS \in BOOLEAN, SetEOS(isEOS) PROVE FullInv'
    <2> full' = {}
      BY <1>6, <1>0 DEF SetEOS
    <2> QED
      OBVIOUS
  <1>7. CASE Flush
    BY <1>7 DEF Flush
  <1>8. CASE UNCHANGED vars
    BY <1>8 DEF vars
  <1> QED
    BY <1>1, <1>2, <1>3, <1>4, <1>5, <1>6, <1>7, <1>8 DEF Next

\* One writer, and no flush while it waits: it waits only while the ring is
\* full and open, however many threads read and whatever ends their waits.
THEOREM WriterIsWoken ==
  ASSUME OneWriter, ~FlushAnytime PROVE Spec => []WriterWaitsForSpace
  <1>1. Init => FullInv
    BY DEF Init, FullInv, QueuedWait, WriterWaitsForSpace
  <1>2. BufferInv /\ FullInv /\ [Next]_vars => FullInv'
    BY FullStep
  <1>3. FullInv => WriterWaitsForSpace
    BY DEF FullInv
  <1> QED
    BY <1>1, <1>2, <1>3, BufferInvariant, PTL DEF Spec

\* One reader, any writers: it does not wait at the end of the stream while bytes
\* are left, however the calls overlap.
THEOREM ReaderLeavesAtTheEnd == ASSUME OneReader PROVE Spec => []NoWaitAtTheEnd
  <1>1. Init => NoWaitAtTheEnd
    BY DEF Init, NoWaitAtTheEnd
  <1>2. ASSUME BufferInv, NoWaitAtTheEnd, [Next]_vars PROVE NoWaitAtTheEnd'
    <2> USE <1>2 DEF BufferInv, TypeOK, ring, NoWaitAtTheEnd
    <2>0. mSize \in 0..Capacity /\ Capacity \in Nat
      BY BufferAssumption
    <2>1. ASSUME NEW w \in Writers,
                 \/ WriterStep(w)
                 \/ \E data \in Requests, t \in Timeouts : CallWrite(w, data, t)
          PROVE  NoWaitAtTheEnd'
      BY <2>1 DEF WriterStep, CallWrite, WriteRefused, WriteWaits,
                  WriteMeetsEOS, WriteCopies, Appends
    <2>2. ASSUME NEW r \in Readers, ReadCopies(r) PROVE NoWaitAtTheEnd'
      BY <2>2 DEF ReadCopies, Removes
    <2>3. ASSUME NEW r \in Readers,
                 \/ ReadRefused(r) \/ ReadWaits(r) \/ ReadMeetsEOS(r)
                 \/ \E len \in 1..MaxLen, t \in Timeouts : CallRead(r, len, t)
          PROVE  NoWaitAtTheEnd'
      BY <2>3 DEF ReadRefused, ReadWaits, ReadMustWait, ReadMeetsEOS, CallRead
    <2>4. ASSUME NEW p \in Threads, TimesOut(p) \/ WakesEarly(p)
          PROVE  NoWaitAtTheEnd'
      BY <2>4 DEF TimesOut, WakesEarly
    <2>5. ASSUME NEW isEOS \in BOOLEAN, SetEOS(isEOS) PROVE NoWaitAtTheEnd'
      <3> empty \in SUBSET Readers /\ \A q, r \in Readers : q = r
        BY DEF OneReader
      <3> empty' = {}
        BY <2>5, SignalEmpties DEF SetEOS
      <3> QED
        OBVIOUS
    <2>6. CASE Flush
      BY <2>6 DEF Flush
    <2>7. CASE UNCHANGED vars
      BY <2>7 DEF vars
    <2> QED
      BY <2>1, <2>2, <2>3, <2>4, <2>5, <2>6, <2>7 DEF Next, ReaderStep
  <1> QED
    BY <1>1, <1>2, BufferInvariant, PTL DEF Spec
=============================================================================
