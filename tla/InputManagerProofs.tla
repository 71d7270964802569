------------------------- MODULE InputManagerProofs -------------------------
(***************************************************************************)
(* The input manager, for any sets of keys and devices, any number of      *)
(* plugs, of events that wait and of messages the pipe holds: the list of  *)
(* devices is in sync with the kernel's, and no released key is repeated.  *)
(***************************************************************************)
EXTENDS InputManager, SequenceTheorems, TLAPS

----------------------------------------------------------------------------
(* The list of devices *)

\* A sequence less its k-th element.
LEMMA Without ==
  ASSUME NEW D, NEW s \in Seq(D), NEW k \in 1..Len(s)
  PROVE  LET t == SubSeq(s, 1, k - 1) \o SubSeq(s, k + 1, Len(s))
         IN  /\ t \in Seq(D) /\ Len(t) = Len(s) - 1
             /\ \A i \in 1..Len(t) : t[i] = IF i < k THEN s[i] ELSE s[i + 1]
  <1>1. Len(s) \in Nat /\ \A i \in 1..Len(s) : s[i] \in D
    BY LenProperties, ElementOfSeq
  <1> DEFINE front == SubSeq(s, 1, k - 1)
             back == SubSeq(s, k + 1, Len(s))
             t == front \o back
  <1>2. /\ front \in Seq(D) /\ Len(front) = k - 1
        /\ \A i \in 1..k - 1 : front[i] = s[i]
    BY <1>1, SubSeqProperties
  <1>3. /\ back \in Seq(D) /\ Len(back) = Len(s) - k
        /\ \A i \in 1..Len(s) - k : back[i] = s[k + i]
    <2>1. \A i \in k + 1..Len(s) : s[i] \in D
      BY <1>1
    <2>2. k + 1 \in Int /\ Len(s) \in Int
      BY <1>1
    <2>3. /\ back \in Seq(D)
          /\ Len(back) = IF k + 1 <= Len(s) THEN Len(s) - (k + 1) + 1 ELSE 0
          /\ \A i \in 1..Len(s) - (k + 1) + 1 : back[i] = s[k + 1 + i - 1]
      BY <2>1, <2>2, SubSeqProperties
    <2>4. Len(s) - (k + 1) + 1 = Len(s) - k
      BY <1>1
    <2>5. \A i \in 1..Len(s) - k : k + 1 + i - 1 = k + i
      BY <1>1
    <2> HIDE DEF back, t
    <2>6. Len(back) = Len(s) - k
      <3>1. k \in Nat /\ Len(s) \in Nat /\ k <= Len(s)
        BY <1>1
      <3>2. k + 1 <= Len(s) \/ k = Len(s)
        BY <3>1
      <3>3. k + 1 <= Len(s) => Len(back) = Len(s) - (k + 1) + 1
        BY <2>3
      <3>4. k = Len(s) => Len(back) = 0 /\ Len(s) - k = 0
        BY <1>1, <2>3
      <3> QED
        BY <2>4, <3>2, <3>3, <3>4
    <2>7. ASSUME NEW i \in 1..Len(s) - k PROVE back[i] = s[k + i]
      BY <2>3, <2>4, <2>5
    <2> QED
      BY <2>3, <2>6, <2>7
  <1> HIDE DEF front, back
  <1>4. /\ t \in Seq(D) /\ Len(t) = Len(front) + Len(back)
        /\ \A i \in 1..Len(front) + Len(back) :
             t[i] = IF i <= Len(front) THEN front[i] ELSE back[i - Len(front)]
    BY <1>2, <1>3, ConcatProperties
  <1> HIDE DEF t
  <1>5. Len(t) = Len(s) - 1
    BY <1>1, <1>2, <1>3, <1>4
  <1>6. ASSUME NEW i \in 1..Len(t), i < k PROVE t[i] = s[i]
    <2>1. i \in 1..k - 1 /\ i <= Len(front)
      BY <1>1, <1>2, <1>5, <1>6
    <2>2. i \in 1..Len(front) + Len(back)
      BY <1>2, <1>3, <1>4, <1>5, <2>1
    <2>3. t[i] = front[i]
      BY <1>4, <2>1, <2>2
    <2> QED
      BY <1>2, <2>1, <2>3
  <1>7. ASSUME NEW i \in 1..Len(t), ~(i < k) PROVE t[i] = s[i + 1]
    <2>1. /\ i - (k - 1) \in 1..Len(s) - k
          /\ k + (i - (k - 1)) = i + 1 /\ ~(i <= k - 1)
      BY <1>1, <1>5, <1>7
    <2>2. i \in 1..Len(front) + Len(back)
      BY <1>4
    <2>3. t[i] = back[i - (k - 1)]
      BY <1>2, <1>4, <2>1, <2>2
    <2>4. back[i - (k - 1)] = s[k + (i - (k - 1))]
      BY <1>3, <2>1
    <2> QED
      BY <2>1, <2>3, <2>4
  <1> QED
    BY <1>4, <1>5, <1>6, <1>7 DEF t, front, back

\* The plugs there may be, and what is in the list.
Plugs == 1..MaxPlugs + 1
Entries == Devices \X Plugs

\* No device is in a list twice.
OnceIn(list) == \A i, j \in 1..Len(list) : list[i][1] = list[j][1] => i = j

\* addInputDevice() leaves a list without duplicates, with the entries it had
\* and perhaps one more, that of a device that was not in it and is there.
LEMMA AddedList ==
  ASSUME TypeOK, NEW list \in Seq(Entries), OnceIn(list), NEW d \in Devices
  PROVE  /\ Added(list, d) \in Seq(Entries) /\ OnceIn(Added(list, d))
         /\ \A i \in 1..Len(list) :
              i \in 1..Len(Added(list, d)) /\ Added(list, d)[i] = list[i]
         /\ \A i \in 1..Len(Added(list, d)) :
              i \in 1..Len(list) \/ Added(list, d)[i] = <<d, present[d]>>
         /\ present[d] # 0 => \E i \in 1..Len(Added(list, d)) : Added(list, d)[i][1] = d
  <1>1. CASE present[d] = 0 \/ \E i \in 1..Len(list) : list[i][1] = d
    BY <1>1 DEF Added
  <1>2. CASE ~(present[d] = 0 \/ \E i \in 1..Len(list) : list[i][1] = d)
    <2> DEFINE t == Append(list, <<d, present[d]>>)
    <2>1. <<d, present[d]>> \in Entries
      BY <1>2, InputAssumption DEF TypeOK, Entries, Plugs
    <2>2. Added(list, d) = t
      BY <1>2 DEF Added
    <2>3. /\ t \in Seq(Entries) /\ Len(t) = Len(list) + 1 /\ Len(list) \in Nat
          /\ \A i \in 1..Len(list) : t[i] = list[i]
          /\ t[Len(list) + 1] = <<d, present[d]>>
      BY <2>1, AppendProperties, LenProperties
    <2> HIDE DEF t
    <2>4. OnceIn(t)
      <3>1. \A i \in 1..Len(t) : i \in 1..Len(list) \/ i = Len(list) + 1
        BY <2>3
      <3>2. t[Len(list) + 1][1] = d
        BY <2>3
      <3> SUFFICES ASSUME NEW i \in 1..Len(t), NEW j \in 1..Len(t), t[i][1] = t[j][1]
                   PROVE  i = j
        BY DEF OnceIn
      <3>3. CASE i \in 1..Len(list) /\ j \in 1..Len(list)
        BY <2>3, <3>3 DEF OnceIn
      <3>4. CASE i \in 1..Len(list) /\ j = Len(list) + 1
        BY <1>2, <2>3, <3>2, <3>4
      <3>5. CASE j \in 1..Len(list) /\ i = Len(list) + 1
        BY <1>2, <2>3, <3>2, <3>5
      <3> QED
        BY <3>1, <3>3, <3>4, <3>5
    <2>5. \A i \in 1..Len(t) : i \in 1..Len(list) \/ t[i] = <<d, present[d]>>
      BY <2>3
    <2>6. \A i \in 1..Len(list) : i \in 1..Len(t) /\ t[i] = list[i]
      BY <2>3
    <2>7. Len(list) + 1 \in 1..Len(t) /\ t[Len(list) + 1][1] = d
      BY <2>3
    <2> QED
      BY <2>2, <2>3, <2>4, <2>5, <2>6, <2>7
  <1> QED
    BY <1>1, <1>2

\* removeInputDevice() leaves the entries of the other devices, and no more.
LEMMA RemovedList ==
  ASSUME NEW list \in Seq(Entries), OnceIn(list), NEW d \in Devices
  PROVE  /\ Removed(list, d) \in Seq(Entries) /\ OnceIn(Removed(list, d))
         /\ \A i \in 1..Len(Removed(list, d)) :
              /\ Removed(list, d)[i][1] # d
              /\ \E j \in 1..Len(list) : Removed(list, d)[i] = list[j]
         /\ \A j \in 1..Len(list) : list[j][1] # d =>
              \E i \in 1..Len(Removed(list, d)) : Removed(list, d)[i] = list[j]
  <1>0. Len(list) \in Nat
    BY LenProperties
  <1>1. CASE \A i \in 1..Len(list) : list[i][1] # d
    <2>1. Removed(list, d) = list
      BY <1>1 DEF Removed
    <2> QED
      BY <1>1, <2>1
  <1>2. CASE \E i \in 1..Len(list) : list[i][1] = d
    <2> DEFINE k == CHOOSE i \in 1..Len(list) :
                      list[i][1] = d /\ \A j \in 1..i-1 : list[j][1] # d
               t == SubSeq(list, 1, k - 1) \o SubSeq(list, k + 1, Len(list))
    <2>1. \E i \in 1..Len(list) :
            list[i][1] = d /\ \A j \in 1..i-1 : list[j][1] # d
      <3>1. PICK i \in 1..Len(list) : list[i][1] = d
        BY <1>2
      <3>2. \A j \in 1..i-1 : j \in 1..Len(list) /\ j # i
        BY <1>0
      <3>3. \A j \in 1..i-1 : list[j][1] # d
        BY <3>1, <3>2 DEF OnceIn
      <3> QED
        BY <3>1, <3>3
    <2>2. k \in 1..Len(list) /\ list[k][1] = d
      BY <2>1
    <2>3. Removed(list, d) = t
      BY <1>2 DEF Removed
    <2> HIDE DEF k
    <2>4. /\ t \in Seq(Entries) /\ Len(t) = Len(list) - 1
          /\ \A i \in 1..Len(t) : t[i] = IF i < k THEN list[i] ELSE list[i + 1]
      BY <2>2, Without
    <2> HIDE DEF t
    <2>5. \A i \in 1..Len(t) : \E j \in 1..Len(list) :
            t[i] = list[j] /\ j # k /\ j = IF i < k THEN i ELSE i + 1
      <3> SUFFICES ASSUME NEW i \in 1..Len(t)
                   PROVE  \E j \in 1..Len(list) :
                            t[i] = list[j] /\ j # k /\ j = IF i < k THEN i ELSE i + 1
        OBVIOUS
      <3>1. CASE i < k
        <4>1. i \in 1..Len(list) /\ i # k
          BY <1>0, <2>2, <2>4, <3>1
        <4> QED
          BY <2>4, <3>1, <4>1
      <3>2. CASE ~(i < k)
        <4>1. i + 1 \in 1..Len(list) /\ i + 1 # k
          BY <1>0, <2>2, <2>4, <3>2
        <4> QED
          BY <2>4, <3>2, <4>1
      <3> QED
        BY <3>1, <3>2
    <2>6. OnceIn(t)
      <3> SUFFICES ASSUME NEW i \in 1..Len(t), NEW j \in 1..Len(t), t[i][1] = t[j][1]
                   PROVE  i = j
        BY DEF OnceIn
      <3>1. PICK a \in 1..Len(list) :
              t[i] = list[a] /\ a # k /\ a = IF i < k THEN i ELSE i + 1
        BY <2>5
      <3>2. PICK b \in 1..Len(list) :
              t[j] = list[b] /\ b # k /\ b = IF j < k THEN j ELSE j + 1
        BY <2>5
      <3>3. a = b
        BY <3>1, <3>2 DEF OnceIn
      <3> QED
        BY <1>0, <2>2, <2>4, <3>1, <3>2, <3>3
    <2>7. \A i \in 1..Len(t) : t[i][1] # d /\ \E j \in 1..Len(list) : t[i] = list[j]
      BY <2>2, <2>5 DEF OnceIn
    <2>8. ASSUME NEW j \in 1..Len(list), list[j][1] # d
          PROVE  \E i \in 1..Len(t) : t[i] = list[j]
      <3>1. CASE j < k
        <4>1. j \in 1..Len(t)
          BY <1>0, <2>2, <2>4, <3>1
        <4> QED
          BY <2>4, <3>1, <4>1
      <3>2. CASE j > k
        <4>1. j - 1 \in 1..Len(t) /\ ~(j - 1 < k) /\ (j - 1) + 1 = j
          BY <1>0, <2>2, <2>4, <3>2
        <4>2. t[j - 1] = list[j]
          BY <2>4, <4>1
        <4> QED
          BY <4>1, <4>2
      <3> QED
        BY <2>2, <2>8, <3>1, <3>2
    <2> QED
      BY <2>3, <2>4, <2>6, <2>7, <2>8
  <1> QED
    BY <1>1, <1>2

----------------------------------------------------------------------------
(* Types *)

InputType == {"CREATE", "DELETE"} \X Devices

\* What the queues are made of: a message that is appended, and the rest when
\* the first is taken.
LEMMA Queue ==
  ASSUME NEW D, NEW q \in Seq(D), NEW x \in D
  PROVE  /\ Append(q, x) \in Seq(D) /\ Len(Append(q, x)) = Len(q) + 1
         /\ Len(q) \in Nat
         /\ \A i \in 1..Len(q) : Append(q, x)[i] = q[i]
         /\ Append(q, x)[Len(q) + 1] = x
  BY AppendProperties, LenProperties

LEMMA Unqueue ==
  ASSUME NEW D, NEW q \in Seq(D), q # <<>>
  PROVE  /\ Tail(q) \in Seq(D) /\ Len(Tail(q)) = Len(q) - 1
         /\ Len(q) \in Nat \ {0}
         /\ \A i \in 1..Len(q) - 1 : Tail(q)[i] = q[i + 1]
         /\ Head(q) = q[1] /\ Head(q) \in D
  <1>1. Len(q) \in Nat /\ Len(q) # 0
    BY LenProperties, EmptySeq
  <1>2. /\ Tail(q) \in Seq(D) /\ Head(q) \in D /\ Len(Tail(q)) = Len(q) - 1
        /\ \A i \in 1..Len(Tail(q)) : Tail(q)[i] = q[i + 1]
        /\ Head(q) = q[1]
    BY HeadTailProperties
  <1> QED
    BY <1>1, <1>2

\* A message of the kernel's or the worker's.
LEMMA Message ==
  ASSUME NEW m \in Messages
  PROVE  m[1] \in Codes /\ m[2] \in States /\ m = <<m[1], m[2]>> /\ m # None
  BY InputAssumption DEF Messages, Codes

\* What the timer's and the worker's operations do to the timer is typed.
LEMMA TimerTypes ==
  ASSUME TypeOK, \/ Repeat!Reset(TRUE) \/ Repeat!Arm \/ Repeat!Cancel
                 \/ Repeat!Off \/ Repeat!Fire \/ Repeat!Rearm
                 \/ Repeat!StartReturns \/ Repeat!StopReturns
  PROVE  timer' \in {"off", "armed", "firing", "spent"} /\ mRepeat' \in BOOLEAN
  BY DEF TypeOK, Repeat!Reset, Repeat!Arm, Repeat!Cancel, Repeat!Off,
         Repeat!Fire, Repeat!Rearm, Repeat!StartReturns, Repeat!StopReturns,
         Repeat!Becomes

\* A message is written to the pipe.
LEMMA PipeTypes ==
  ASSUME TypeOK, NEW m \in Messages PROVE Append(pipe, m) \in Seq(Messages)
  BY Queue DEF TypeOK

\* The types of what the kernel and the devices' list are made of.
LEMMA KernelTypes ==
  ASSUME TypeOK, Kernel PROVE TypeOK'
  <1>0. MaxPlugs \in Nat
    BY InputAssumption
  <1>1. ASSUME NEW what \in {"CREATE", "DELETE"}, NEW d \in Devices, Notify(what, d)
        PROVE  inotify' \in Seq(InputType)
    <2>1. inotify \in Seq(InputType) /\ <<what, d>> \in InputType
      BY DEF TypeOK, InputType
    <2>2. Append(inotify, <<what, d>>) \in Seq(InputType)
      BY <2>1, Queue
    <2> QED
      BY <1>1, <2>1, <2>2 DEF Notify
  <1>2. ASSUME NEW d \in Devices, PlugIn(d) PROVE TypeOK'
    <2>1. inotify' \in Seq({"CREATE", "DELETE"} \X Devices)
      BY <1>1, <1>2 DEF PlugIn, InputType
    <2>2. plugs' \in 0..MaxPlugs /\ plugs' + 1 \in 0..MaxPlugs + 1
      BY <1>0, <1>2 DEF PlugIn, TypeOK
    <2>3. present' \in [Devices -> 0..MaxPlugs + 1]
      BY <1>2, <2>2 DEF PlugIn, TypeOK
    <2> QED
      BY <1>2, <2>1, <2>2, <2>3 DEF PlugIn, TypeOK, worker, keys, repeatTimer, expired
  <1>3. ASSUME NEW d \in Devices, PlugOut(d) PROVE TypeOK'
    <2>1. inotify' \in Seq({"CREATE", "DELETE"} \X Devices)
      BY <1>1, <1>3 DEF PlugOut, InputType
    <2>2. plugs' \in 0..MaxPlugs /\ 0 \in 0..MaxPlugs + 1
      BY <1>0, <1>3 DEF PlugOut, TypeOK
    <2>3. present' \in [Devices -> 0..MaxPlugs + 1]
      BY <1>3, <2>2 DEF PlugOut, TypeOK
    <2>4. held' \in [Devices -> SUBSET Codes]
      BY <1>3 DEF PlugOut, TypeOK
    <2>5. events' \in [Devices -> Seq(Messages)]
      BY <1>3 DEF PlugOut, TypeOK
    <2> QED
      BY <1>3, <2>1, <2>2, <2>3, <2>4, <2>5 DEF PlugOut, TypeOK, worker, keys, repeatTimer, expired
  <1>4. ASSUME NEW d \in Devices, NEW k \in Codes, NEW s \in States, KeyEvent(d, k, s)
        PROVE  TypeOK'
    <2>1. events[d] \in Seq(Messages) /\ <<k, s>> \in Messages
      BY DEF TypeOK, Messages
    <2>2. Append(events[d], <<k, s>>) \in Seq(Messages)
      BY <2>1, Queue
    <2>3. events' \in [Devices -> Seq(Messages)]
      BY <1>4, <2>2 DEF KeyEvent, TypeOK
    <2>4. held' \in [Devices -> SUBSET Codes]
      BY <1>4 DEF KeyEvent, TypeOK
    <2> QED
      BY <1>4, <2>3, <2>4 DEF KeyEvent, TypeOK, worker, keys, repeatTimer, expired
  <1> QED
    BY <1>2, <1>3, <1>4 DEF Kernel

\* Every step is typed.
LEMMA TypeStep ==
  ASSUME TypeOK, InHand, ListedOnce, Next PROVE TypeOK'
  <1> USE DEF kernel, keys, repeatTimer, expired
  <1>0. mInputDevices \in Seq(Entries) /\ OnceIn(mInputDevices)
    BY DEF TypeOK, Entries, Plugs, ListedOnce, OnceIn
  <1>1. CASE Kernel
    BY <1>1, KernelTypes
  <1>2. CASE WorkerStep
    <2>1. CASE AddWatch
      BY <2>1 DEF AddWatch, TypeOK
    <2>2. CASE Scanned
      BY <2>2 DEF Scanned, TypeOK
    <2>3. CASE HandleNotify
      <3>1. /\ inotify \in Seq(InputType) /\ inotify # <<>>
        BY <2>3 DEF HandleNotify, TypeOK, InputType
      <3>2. inotify' \in Seq(InputType) /\ Head(inotify)[2] \in Devices
        BY <2>3, <3>1, Unqueue DEF HandleNotify, InputType
      <3>3. mInputDevices' \in Seq(Entries)
        BY <1>0, <2>3, <3>2, AddedList, RemovedList DEF HandleNotify
      <3> QED
        BY <2>3, <3>2, <3>3 DEF HandleNotify, TypeOK, worker, InputType, Entries, Plugs
    <2>4. CASE SelectDevices
      <3>1. polled' \subseteq Devices
        <4>1. \A i \in 1..Len(mInputDevices) : mInputDevices[i][1] \in Devices
          BY <1>0, ElementOfSeq DEF Entries
        <4> QED
          BY <2>4, <4>1 DEF SelectDevices
      <3> QED
        BY <2>4, <3>1 DEF SelectDevices, TypeOK
    <2>5. CASE EndOfWalk
      BY <2>5 DEF EndOfWalk, TypeOK
    <2>6. ASSUME NEW d \in Devices, Scan(d) PROVE TypeOK'
      <3>1. mInputDevices' \in Seq(Entries)
        BY <1>0, <2>6, AddedList DEF Scan
      <3> QED
        BY <2>6, <3>1 DEF Scan, TypeOK, worker, Entries, Plugs
    <2>7. ASSUME NEW d \in Devices, SkipDevice(d) PROVE TypeOK'
      BY <2>7 DEF SkipDevice, TypeOK
    <2>8. ASSUME NEW d \in Devices, TakeEvent(d) PROVE TypeOK'
      <3>1. events[d] \in Seq(Messages) /\ events[d] # <<>>
        BY <2>8 DEF TakeEvent, TypeOK
      <3>2. Head(events[d]) \in Messages /\ Tail(events[d]) \in Seq(Messages)
        BY <3>1, Unqueue
      <3>3. events' \in [Devices -> Seq(Messages)]
        BY <2>8, <3>2 DEF TakeEvent, TypeOK
      <3>4. pc' \in {"start", "stop", "write"}
        BY <2>8, <3>2 DEF TakeEvent
      <3>5. event' \in Messages \cup {None} /\ sent' \in Messages \cup {None}
        BY <2>8, <3>2 DEF TakeEvent, TypeOK
      <3>6. pressed' \subseteq Codes
        BY <2>8, <3>2, Message DEF TakeEvent, TypeOK
      <3> QED
        BY <2>8, <3>3, <3>4, <3>5, <3>6 DEF TakeEvent, TypeOK
    <2>9. CASE SetRepeat \/ StartTimer
      <3>1. timer' \in {"off", "armed", "firing", "spent"} /\ mRepeat' \in BOOLEAN
        BY <2>9, TimerTypes DEF SetRepeat, StartTimer
      <3> QED
        BY <2>9, <3>1 DEF SetRepeat, StartTimer, TypeOK
    <2>10. CASE AssignKey
      <3>1. sent \in Messages
        BY <2>10 DEF AssignKey, InHand, TypeOK
      <3> QED
        BY <2>10, <3>1, Message DEF AssignKey, TypeOK, Repeat!StartReturns
    <2>11. CASE ClearKey
      BY <2>11 DEF ClearKey, TypeOK, Codes, Repeat!StopReturns
    <2>12. CASE WriteKey
      <3>1. sent \in Messages
        BY <2>12 DEF WriteKey, InHand, TypeOK
      <3>2. pipe' \in Seq(Messages)
        BY <2>12, <3>1, PipeTypes DEF WriteKey
      <3> QED
        BY <2>12, <3>2 DEF WriteKey, TypeOK
    <2> QED
      BY <1>2, <2>1, <2>2, <2>3, <2>4, <2>5, <2>6, <2>7, <2>8, <2>9, <2>10,
         <2>11, <2>12 DEF WorkerStep
  <1>3. CASE StopTimer \/ TimerExpires
    <2>1. timer' \in {"off", "armed", "firing", "spent"} /\ mRepeat' \in BOOLEAN
      BY <1>3, TimerTypes DEF StopTimer, TimerExpires
    <2> QED
      BY <1>3, <2>1 DEF StopTimer, TimerExpires, TypeOK, others, worker
  <1>4. CASE TimerStep
    <2>1. CASE NoKeyToRepeat
      <3>1. timer' \in {"off", "armed", "firing", "spent"} /\ mRepeat' \in BOOLEAN
        BY <2>1, TimerTypes DEF NoKeyToRepeat
      <3> QED
        BY <2>1, <3>1 DEF NoKeyToRepeat, TypeOK, others, worker
    <2>2. CASE CheckKey
      BY <2>2 DEF CheckKey, TypeOK, others, worker
    <2>3. CASE ReadKey
      BY <2>3 DEF ReadKey, TypeOK, others, worker
    <2>4. CASE RepeatKey
      <3>1. timer' \in {"off", "armed", "firing", "spent"} /\ mRepeat' \in BOOLEAN
        BY <2>4, TimerTypes DEF RepeatKey
      <3>2. <<keyValue, "REPEATED">> \in Messages
        BY DEF TypeOK, Messages, States
      <3>3. pipe' \in Seq(Messages)
        BY <2>4, <3>2, PipeTypes DEF RepeatKey
      <3> QED
        BY <2>4, <3>1, <3>3 DEF RepeatKey, TypeOK, Codes, others, worker
    <2> QED
      BY <1>4, <2>1, <2>2, <2>3, <2>4 DEF TimerStep
  <1>5. CASE Dispatch
    <2>1. pipe' \in Seq(Messages)
      BY <1>5, Unqueue DEF Dispatch, TypeOK
    <2> QED
      BY <1>5, <2>1 DEF Dispatch, TypeOK, others, worker
  <1> QED
    BY <1>1, <1>2, <1>3, <1>4, <1>5 DEF Next

----------------------------------------------------------------------------
(* The repeat of keys *)

\* What the kernel, the list of devices and the pipe have to do with the repeat.
LEMMA RepeatUnchanged ==
  ASSUME InHand, Repeating,
         UNCHANGED <<timer, expired, event, sent, keys>>,
         \/ pc' = pc
         \/ pc \in {"watch", "scan", "select", "walk"}
            /\ pc' \in {"scan", "select", "walk"}
  PROVE  InHand' /\ Repeating'
  BY DEF InHand, Repeating, RepeatsOnlyPressedKeys, keys, expired

\* The timer is off until the press that starts it, its key is set before the
\* press is written, and cleared when the timer is off again.
LEMMA RepeatStep ==
  ASSUME TypeOK, InHand, Repeating, Next PROVE InHand' /\ Repeating'
  <1> USE DEF kernel, worker, keys, repeatTimer, expired, others,
              RepeatsOnlyPressedKeys
  <1>1. CASE Kernel
    <2>1. UNCHANGED <<timer, expired, event, sent, keys, pc>>
      BY <1>1 DEF Kernel, PlugIn, PlugOut, KeyEvent
    <2> QED
      BY <2>1, RepeatUnchanged
  <1>2. CASE WorkerStep
    <2>1. CASE \/ AddWatch \/ Scanned \/ HandleNotify \/ SelectDevices \/ EndOfWalk
               \/ \E d \in Devices : Scan(d) \/ SkipDevice(d)
      <3>1. /\ UNCHANGED <<timer, expired, event, sent, keys>>
            /\ \/ pc' = pc
               \/ pc \in {"watch", "scan", "select", "walk"}
                  /\ pc' \in {"scan", "select", "walk"}
        BY <2>1 DEF AddWatch, Scanned, HandleNotify, SelectDevices, EndOfWalk,
                    Scan, SkipDevice
      <3> QED
        BY <3>1, RepeatUnchanged
    <2>2. ASSUME NEW d \in Devices, TakeEvent(d) PROVE InHand' /\ Repeating'
      <3> DEFINE e == Head(events[d])
      <3>1. e \in Messages
        <4>1. events[d] \in Seq(Messages) /\ events[d] # <<>>
          BY <2>2 DEF TakeEvent, TypeOK
        <4> QED
          BY <4>1, Unqueue
      <3>2. e[2] \in States /\ e # None
        BY <3>1, Message
      <3>3. /\ pc = "walk" /\ sent' = e
            /\ event' = IF e[2] = "REPEATED" THEN event ELSE e
            /\ pc' = CASE e[2] = "PRESSED"  -> "start"
                       [] e[2] = "RELEASED" -> "stop"
                       [] OTHER             -> "write"
            /\ pressed' = IF e[2] = "PRESSED" THEN pressed \cup {e[1]} ELSE pressed
            /\ UNCHANGED <<timer, expired, mLastKeyCode>>
        BY <2>2 DEF TakeEvent, AtDevice
      <3> HIDE DEF e
      <3>4. CASE e[2] = "PRESSED"
        BY <3>2, <3>3, <3>4 DEF InHand, Repeating
      <3>5. CASE e[2] = "RELEASED"
        BY <3>2, <3>3, <3>5 DEF InHand, Repeating
      <3>6. CASE e[2] = "REPEATED"
        BY <3>2, <3>3, <3>6 DEF InHand, Repeating
      <3> QED
        BY <3>2, <3>4, <3>5, <3>6 DEF States
    <2>3. CASE SetRepeat
      BY <2>3 DEF SetRepeat, InHand, Repeating, Repeat!Reset
    <2>4. CASE StartTimer
      BY <2>4 DEF StartTimer, InHand, Repeating, Repeat!Arm
    <2>5. CASE AssignKey
      BY <2>5 DEF AssignKey, InHand, Repeating, Repeat!StartReturns
    <2>6. CASE ClearKey
      BY <2>6 DEF ClearKey, InHand, Repeating, Repeat!StopReturns
    <2>7. CASE WriteKey
      BY <2>7 DEF WriteKey, InHand, Repeating
    <2> QED
      BY <1>2, <2>1, <2>2, <2>3, <2>4, <2>5, <2>6, <2>7 DEF WorkerStep
  <1>3. CASE StopTimer
    BY <1>3 DEF StopTimer, InHand, Repeating, Repeat!Cancel, Repeat!Off,
                Repeat!Becomes
  <1>4. CASE TimerExpires
    BY <1>4 DEF TimerExpires, InHand, Repeating, Repeat!Fire, Repeat!Becomes
  <1>5. CASE TimerStep
    BY <1>5 DEF TimerStep, NoKeyToRepeat, CheckKey, ReadKey, RepeatKey, InHand,
                Repeating, Repeat!Rearm, Repeat!Becomes
  <1>6. CASE Dispatch
    <2>1. UNCHANGED <<timer, expired, event, sent, keys, pc>>
      BY <1>6 DEF Dispatch
    <2> QED
      BY <2>1, RepeatUnchanged
  <1> QED
    BY <1>1, <1>2, <1>3, <1>4, <1>5, <1>6 DEF Next

----------------------------------------------------------------------------
(* The list of devices and what inotify has still to tell of them *)

ListInv == Scanning /\ ListedOnce /\ OldIsReported /\ LastReportIsTrue /\ Found

LEMMA ListUnchanged ==
  ASSUME ListInv, UNCHANGED <<present, inotify, mInputDevices, unscanned>>,
         \/ pc' = pc
         \/ pc \notin {"watch", "scan"} /\ pc' \notin {"watch", "scan"}
  PROVE  ListInv'
  <1>1. Scanning'
    BY DEF ListInv, Scanning
  <1>2. ListedOnce' /\ LastReportIsTrue'
    BY DEF ListInv, ListedOnce, LastReportIsTrue
  <1>3. OldIsReported'
    BY DEF ListInv, OldIsReported
  <1>4. Found'
    BY DEF ListInv, Found, Reported, Listed, Scanning
  <1> QED
    BY <1>1, <1>2, <1>3, <1>4 DEF ListInv

\* The types of the list and of inotify's events.
LEMMA ListTypes ==
  ASSUME TypeOK
  PROVE  /\ inotify \in Seq(InputType) /\ Len(inotify) \in Nat
         /\ \A k \in 1..Len(inotify) : /\ inotify[k][1] \in {"CREATE", "DELETE"}
                                       /\ inotify[k][2] \in Devices
                                       /\ inotify[k] = <<inotify[k][1], inotify[k][2]>>
         /\ mInputDevices \in Seq(Entries) /\ Len(mInputDevices) \in Nat
         /\ \A i \in 1..Len(mInputDevices) : /\ mInputDevices[i][1] \in Devices
                                             /\ mInputDevices[i][2] # 0
         /\ present \in [Devices -> 0..MaxPlugs + 1]
  <1>1. inotify \in Seq(InputType) /\ mInputDevices \in Seq(Entries)
        /\ present \in [Devices -> 0..MaxPlugs + 1]
    BY DEF TypeOK, InputType, Entries, Plugs
  <1>2. /\ Len(inotify) \in Nat /\ \A k \in 1..Len(inotify) : inotify[k] \in InputType
        /\ Len(mInputDevices) \in Nat
        /\ \A i \in 1..Len(mInputDevices) : mInputDevices[i] \in Entries
    BY <1>1, LenProperties, ElementOfSeq
  <1>3. \A x \in InputType : x[1] \in {"CREATE", "DELETE"} /\ x[2] \in Devices
                             /\ x = <<x[1], x[2]>>
    BY DEF InputType
  <1>4. \A x \in Entries : x[1] \in Devices /\ x[2] # 0
    BY DEF Entries, Plugs
  <1> QED
    BY <1>1, <1>2, <1>3, <1>4

\* A device comes or goes: inotify will tell, once the watch is there.
LEMMA PlugStep ==
  ASSUME TypeOK, ListInv, NEW d \in Devices, NEW what \in {"CREATE", "DELETE"},
         NEW p, present' = [present EXCEPT ![d] = p], Notify(what, d),
         what = "CREATE" <=> p # 0, what = "CREATE" => present[d] = 0,
         UNCHANGED <<mInputDevices, unscanned, pc>>
  PROVE  ListInv'
  <1>1. CASE pc = "watch"
    <2>1. /\ pc' = "watch" /\ inotify' = <<>> /\ mInputDevices' = <<>>
          /\ unscanned' = {}
      BY <1>1 DEF ListInv, Scanning, Notify
    <2>2. Len(inotify') = 0 /\ Len(mInputDevices') = 0
      BY <2>1
    <2>3. 1..0 = {}
      OBVIOUS
    <2> QED
      BY <2>1, <2>2, <2>3 DEF ListInv, Scanning, ListedOnce, OldIsReported,
                              LastReportIsTrue, Found
  <1>2. CASE pc # "watch"
    <2>1. inotify' = Append(inotify, <<what, d>>)
      BY <1>2 DEF Notify
    <2>2. /\ Len(inotify') = Len(inotify) + 1 /\ Len(inotify) \in Nat
          /\ \A k \in 1..Len(inotify) : inotify'[k] = inotify[k]
          /\ inotify'[Len(inotify) + 1] = <<what, d>>
      <3>1. <<what, d>> \in InputType
        BY DEF InputType
      <3> QED
        BY <2>1, <3>1, ListTypes, Queue
    <2>3. /\ \A e \in Devices : present'[e] = IF e = d THEN p ELSE present[e]
      BY DEF TypeOK
    <2>4. Scanning' /\ ListedOnce'
      BY <1>2 DEF ListInv, Scanning, ListedOnce
    <2>5. OldIsReported'
      <3> SUFFICES ASSUME NEW i \in 1..Len(mInputDevices),
                          mInputDevices[i][2] # present'[mInputDevices[i][1]]
                   PROVE  \E k \in 1..Len(inotify') :
                            inotify'[k] = <<"DELETE", mInputDevices[i][1]>>
        BY DEF OldIsReported
      <3> DEFINE e == mInputDevices[i][1]
      <3>1. e \in Devices /\ mInputDevices[i][2] # 0
        BY ListTypes
      <3>2. CASE mInputDevices[i][2] # present[e]
        <4>1. PICK k \in 1..Len(inotify) : inotify[k] = <<"DELETE", e>>
          BY <3>2 DEF ListInv, OldIsReported
        <4>2. k \in 1..Len(inotify') /\ inotify'[k] = inotify[k]
          BY <2>2
        <4> QED
          BY <4>1, <4>2
      <3>3. CASE mInputDevices[i][2] = present[e]
        <4>1. e = d /\ what = "DELETE"
          BY <2>3, <3>1, <3>3
        <4>2. Len(inotify) + 1 \in 1..Len(inotify')
          BY <2>2
        <4> QED
          BY <2>2, <4>1, <4>2
      <3> QED
        BY <3>2, <3>3
    <2>6. LastReportIsTrue'
      <3> SUFFICES ASSUME NEW k \in 1..Len(inotify'),
                          \A j \in k+1..Len(inotify') : inotify'[j][2] # inotify'[k][2]
                   PROVE  inotify'[k][1] = "CREATE" <=> present'[inotify'[k][2]] # 0
        BY DEF LastReportIsTrue
      <3>1. CASE k = Len(inotify) + 1
        BY <2>2, <2>3, <3>1
      <3>2. CASE k # Len(inotify) + 1
        <4>1. k \in 1..Len(inotify) /\ Len(inotify) + 1 \in k+1..Len(inotify')
              /\ k+1..Len(inotify) \subseteq k+1..Len(inotify')
          BY <2>2, <3>2
        <4>2. inotify'[k] = inotify[k] /\ inotify[k][2] # d /\ inotify[k][2] \in Devices
          <5>1. inotify'[k] = inotify[k]
            BY <2>2, <4>1
          <5>2. inotify'[Len(inotify) + 1][2] # inotify'[k][2]
            BY <4>1
          <5>3. inotify[k][2] \in Devices
            BY <4>1, ListTypes
          <5> QED
            BY <2>2, <5>1, <5>2, <5>3
        <4>3. \A j \in k+1..Len(inotify) : inotify[j][2] # inotify[k][2]
          <5>1. \A j \in k+1..Len(inotify) : j \in 1..Len(inotify)
            BY <4>1
          <5> QED
            BY <2>2, <4>1, <4>2, <5>1
        <4>4. inotify[k][1] = "CREATE" <=> present[inotify[k][2]] # 0
          BY <4>1, <4>3 DEF ListInv, LastReportIsTrue
        <4> QED
          BY <2>3, <4>2, <4>4
      <3> QED
        BY <3>1, <3>2
    <2>7. Found'
      <3> SUFFICES ASSUME NEW e \in Devices \ unscanned, ~Reported(e)',
                          present'[e] # 0
                   PROVE  Listed(e)
        BY DEF Found, Listed
      <3>1. e # d
        <4>1. Len(inotify) + 1 \in 1..Len(inotify')
          BY <2>2
        <4> QED
          BY <2>2, <4>1 DEF Reported
      <3>2. ~Reported(e)
        <4>1. \A k \in 1..Len(inotify) : k \in 1..Len(inotify')
          BY <2>2
        <4> QED
          BY <2>2, <4>1 DEF Reported
      <3> QED
        BY <1>2, <2>3, <3>1, <3>2 DEF ListInv, Found
    <2> QED
      BY <2>4, <2>5, <2>6, <2>7 DEF ListInv
  <1> QED
    BY <1>1, <1>2

\* scanInputDevice() looks at one device more.
LEMMA ScanStep ==
  ASSUME TypeOK, ListInv, NEW d \in Devices, Scan(d) PROVE ListInv'
  <1> DEFINE N == Added(mInputDevices, d)
  <1>1. /\ mInputDevices' = N /\ unscanned' = unscanned \ {d} /\ pc = "scan"
        /\ UNCHANGED <<inotify, present, pc>>
    BY DEF Scan, kernel, worker
  <1>2. OnceIn(mInputDevices)
    BY DEF ListInv, ListedOnce, OnceIn
  <1>3. /\ OnceIn(N)
        /\ \A i \in 1..Len(mInputDevices) :
             i \in 1..Len(N) /\ N[i] = mInputDevices[i]
        /\ \A i \in 1..Len(N) :
             i \in 1..Len(mInputDevices) \/ N[i] = <<d, present[d]>>
        /\ present[d] # 0 => \E i \in 1..Len(N) : N[i][1] = d
    BY <1>2, ListTypes, AddedList
  <1> HIDE DEF N
  <1>4. Scanning'
    BY <1>1 DEF ListInv, Scanning
  <1>5. ListedOnce'
    BY <1>1, <1>3 DEF ListedOnce, OnceIn
  <1>6. OldIsReported'
    <2> SUFFICES ASSUME NEW i \in 1..Len(N), N[i][2] # present[N[i][1]]
                 PROVE  \E k \in 1..Len(inotify) : inotify[k] = <<"DELETE", N[i][1]>>
      BY <1>1 DEF OldIsReported
    <2>1. i \in 1..Len(mInputDevices) /\ N[i] = mInputDevices[i]
      BY <1>3
    <2> QED
      BY <2>1 DEF ListInv, OldIsReported
  <1>7. LastReportIsTrue'
    BY <1>1 DEF ListInv, LastReportIsTrue
  <1>8. Found'
    <2> SUFFICES ASSUME NEW e \in Devices \ (unscanned \ {d}), ~Reported(e),
                        present[e] # 0
                 PROVE  \E i \in 1..Len(N) : N[i][1] = e
      BY <1>1 DEF Found, Listed, Reported
    <2>1. CASE e = d
      BY <1>3, <2>1
    <2>2. CASE e # d
      <3>1. Listed(e)
        BY <1>1, <2>2 DEF ListInv, Found
      <3> QED
        BY <1>3, <3>1 DEF Listed
    <2> QED
      BY <2>1, <2>2
  <1> QED
    BY <1>4, <1>5, <1>6, <1>7, <1>8 DEF ListInv

\* What is still to come when the first event has been handled.
LEMMA Rest ==
  ASSUME TypeOK, inotify # <<>>
  PROVE  /\ Len(inotify) \in Nat \ {0} /\ Head(inotify) = inotify[1]
         /\ Len(Tail(inotify)) = Len(inotify) - 1
         /\ \A k \in 1..Len(Tail(inotify)) :
              k + 1 \in 1..Len(inotify) /\ Tail(inotify)[k] = inotify[k + 1]
         /\ \A k \in 1..Len(inotify) : k # 1 =>
              k - 1 \in 1..Len(Tail(inotify)) /\ Tail(inotify)[k - 1] = inotify[k]
  <1> DEFINE t == Tail(inotify)
  <1>1. /\ Len(inotify) \in Nat \ {0} /\ Head(inotify) = inotify[1]
        /\ Len(t) = Len(inotify) - 1
        /\ \A k \in 1..Len(inotify) - 1 : t[k] = inotify[k + 1]
    BY ListTypes, Unqueue
  <1> HIDE DEF t
  <1>2. \A k \in 1..Len(t) : k + 1 \in 1..Len(inotify) /\ t[k] = inotify[k + 1]
    BY <1>1
  <1>3. ASSUME NEW k \in 1..Len(inotify), k # 1
        PROVE  k - 1 \in 1..Len(t) /\ t[k - 1] = inotify[k]
    <2>1. k - 1 \in 1..Len(t) /\ (k - 1) + 1 = k
      BY <1>1, <1>3
    <2>2. t[k - 1] = inotify[(k - 1) + 1]
      BY <1>2, <2>1
    <2> QED
      BY <2>1, <2>2
  <1> QED
    BY <1>1, <1>2, <1>3 DEF t

\* An event is handled: the device it tells of is looked for or forgotten.
LEMMA NotifyStep ==
  ASSUME TypeOK, ListInv, HandleNotify PROVE ListInv'
  <1> DEFINE d == inotify[1][2]
             N == mInputDevices'
  <1>1. /\ inotify # <<>> /\ inotify' = Tail(inotify) /\ pc = "select"
        /\ Head(inotify) = inotify[1] /\ 1 \in 1..Len(inotify)
        /\ UNCHANGED <<present, unscanned, pc>>
    <2>1. inotify # <<>>
      BY DEF HandleNotify
    <2>2. 1 \in 1..Len(inotify)
      BY <2>1, Rest
    <2> QED
      BY <2>1, <2>2, Rest DEF HandleNotify, kernel, worker
  <1>2. d \in Devices /\ inotify[1][1] \in {"CREATE", "DELETE"}
        /\ inotify[1] = <<inotify[1][1], d>>
    BY <1>1, ListTypes
  <1>3. N = IF inotify[1][1] = "CREATE" THEN Added(mInputDevices, d)
                                        ELSE Removed(mInputDevices, d)
    BY <1>1 DEF HandleNotify
  <1>4. OnceIn(mInputDevices) /\ mInputDevices \in Seq(Entries)
    BY ListTypes DEF ListInv, ListedOnce, OnceIn
  <1> HIDE DEF N, d
  <1> DEFINE A == Added(mInputDevices, d)
             R == Removed(mInputDevices, d)
  <1>5. /\ OnceIn(A)
        /\ \A i \in 1..Len(mInputDevices) :
             i \in 1..Len(A) /\ A[i] = mInputDevices[i]
        /\ \A i \in 1..Len(A) :
             i \in 1..Len(mInputDevices) \/ A[i] = <<d, present[d]>>
        /\ present[d] # 0 => \E i \in 1..Len(A) : A[i][1] = d
    BY <1>2, <1>4, AddedList
  <1>6. /\ OnceIn(R)
        /\ \A i \in 1..Len(R) :
             /\ R[i][1] # d
             /\ \E j \in 1..Len(mInputDevices) : R[i] = mInputDevices[j]
        /\ \A j \in 1..Len(mInputDevices) : mInputDevices[j][1] # d =>
             \E i \in 1..Len(R) : R[i] = mInputDevices[j]
    BY <1>2, <1>4, RemovedList
  <1>7. N = IF inotify[1][1] = "CREATE" THEN A ELSE R
    BY <1>3
  <1> HIDE DEF A, R
  <1>8. OnceIn(N)
    BY <1>5, <1>6, <1>7
  \* An entry that was old, or is none of the list's, tells of the list before.
  <1>9. ASSUME NEW i \in 1..Len(N), N[i][2] # present[N[i][1]]
        PROVE  /\ \E j \in 1..Len(mInputDevices) : N[i] = mInputDevices[j]
               /\ inotify[1] # <<"DELETE", N[i][1]>>
    <2>1. CASE inotify[1][1] = "CREATE"
      <3>1. N = A
        BY <1>7, <2>1
      <3>2. i \in 1..Len(A) /\ A[i][2] # present[A[i][1]]
        BY <1>9, <3>1
      <3>3. i \in 1..Len(mInputDevices)
        <4>1. i \in 1..Len(mInputDevices) \/ A[i] = <<d, present[d]>>
          BY <1>5, <3>2
        <4> QED
          BY <3>2, <4>1
      <3>4. N[i] = mInputDevices[i]
        BY <1>5, <3>1, <3>3
      <3> QED
        BY <2>1, <3>3, <3>4
    <2>2. CASE inotify[1][1] = "DELETE"
      <3>1. N = R
        BY <1>7, <2>2
      <3>2. N[i][1] # d /\ \E j \in 1..Len(mInputDevices) : N[i] = mInputDevices[j]
        BY <1>6, <3>1
      <3> QED
        BY <1>2, <3>2
    <2> QED
      BY <1>2, <2>1, <2>2
  \* The other devices stay in the list.
  <1>10. ASSUME NEW e \in Devices, e # d, Listed(e)
        PROVE  \E i \in 1..Len(N) : N[i][1] = e
    <2>1. PICK j \in 1..Len(mInputDevices) : mInputDevices[j][1] = e
      BY <1>10 DEF Listed
    <2>2. CASE inotify[1][1] = "CREATE"
      <3>1. N = A
        BY <1>7, <2>2
      <3>2. j \in 1..Len(N) /\ N[j] = mInputDevices[j]
        BY <1>5, <2>1, <3>1
      <3> QED
        BY <2>1, <3>2
    <2>3. CASE inotify[1][1] = "DELETE"
      <3>1. N = R
        BY <1>7, <2>3
      <3>2. mInputDevices[j][1] # d
        BY <1>10, <2>1
      <3>3. PICK i \in 1..Len(R) : R[i] = mInputDevices[j]
        BY <1>6, <3>2
      <3>4. R[i][1] = e
        BY <2>1, <3>3
      <3> QED
        BY <3>1, <3>4
    <2> QED
      BY <1>2, <2>2, <2>3
  <1>11. Scanning' /\ ListedOnce'
    <2>1. ListedOnce'
      BY <1>8 DEF N, ListedOnce, OnceIn
    <2> QED
      BY <1>1, <2>1 DEF ListInv, Scanning
  <1>12. OldIsReported'
    <2> SUFFICES ASSUME NEW i \in 1..Len(N), N[i][2] # present[N[i][1]]
                 PROVE  \E k \in 1..Len(inotify') : inotify'[k] = <<"DELETE", N[i][1]>>
      BY <1>1 DEF N, OldIsReported
    <2>1. PICK j \in 1..Len(mInputDevices) : N[i] = mInputDevices[j]
      BY <1>9
    <2>2. inotify[1] # <<"DELETE", N[i][1]>>
      BY <1>9
    <2>3. PICK k \in 1..Len(inotify) : inotify[k] = <<"DELETE", N[i][1]>>
      BY <2>1 DEF ListInv, OldIsReported
    <2>4. k # 1
      BY <2>2, <2>3
    <2>5. k - 1 \in 1..Len(Tail(inotify)) /\ Tail(inotify)[k - 1] = inotify[k]
      BY <1>1, <2>4, Rest
    <2> QED
      BY <1>1, <2>3, <2>5
  <1>13. LastReportIsTrue'
    <2> DEFINE t == Tail(inotify)
    <2> SUFFICES ASSUME NEW k \in 1..Len(t), \A j \in k+1..Len(t) : t[j][2] # t[k][2]
                 PROVE  t[k][1] = "CREATE" <=> present[t[k][2]] # 0
      BY <1>1 DEF LastReportIsTrue
    <2>1. k + 1 \in 1..Len(inotify) /\ t[k] = inotify[k + 1]
      BY <1>1, Rest
    <2>2. \A j \in (k+1)+1..Len(inotify) : inotify[j][2] # inotify[k + 1][2]
      <3> SUFFICES ASSUME NEW j \in (k+1)+1..Len(inotify)
                   PROVE  inotify[j][2] # inotify[k + 1][2]
        OBVIOUS
      <3>1. /\ Len(inotify) \in Nat /\ Len(t) = Len(inotify) - 1
            /\ \A m \in 1..Len(inotify) : m # 1 => t[m - 1] = inotify[m]
        BY <1>1, Rest
      <3>2. j - 1 \in k+1..Len(t) /\ j \in 1..Len(inotify) /\ j # 1
        BY <3>1
      <3>3. t[j - 1] = inotify[j]
        BY <3>1, <3>2
      <3> QED
        BY <2>1, <3>2, <3>3
    <2> QED
      BY <2>1, <2>2 DEF ListInv, LastReportIsTrue
  <1>14. Found'
    <2> SUFFICES ASSUME NEW e \in Devices \ unscanned, present[e] # 0,
                        \A k \in 1..Len(Tail(inotify)) : Tail(inotify)[k][2] # e
                 PROVE  \E i \in 1..Len(N) : N[i][1] = e
      BY <1>1 DEF N, Found, Listed, Reported
    <2>1. ASSUME NEW k \in 1..Len(inotify), k # 1 PROVE inotify[k][2] # e
      <3>1. k - 1 \in 1..Len(Tail(inotify)) /\ Tail(inotify)[k - 1] = inotify[k]
        BY <1>1, <2>1, Rest
      <3> QED
        BY <3>1
    <2>2. CASE e # d
      <3>1. ~Reported(e)
        BY <2>1, <2>2 DEF Reported, d
      <3>2. Listed(e)
        BY <1>1, <3>1 DEF ListInv, Found
      <3> QED
        BY <1>10, <2>2, <3>2
    <2>3. CASE e = d
      <3>1. \A j \in 1+1..Len(inotify) : j \in 1..Len(inotify) /\ j # 1
        OBVIOUS
      <3>2. \A j \in 1+1..Len(inotify) : inotify[j][2] # inotify[1][2]
        BY <2>1, <2>3, <3>1 DEF d
      <3>3. inotify[1][1] = "CREATE" <=> present[d] # 0
        BY <1>1, <3>2 DEF ListInv, LastReportIsTrue, d
      <3>4. present[d] # 0
        BY <2>3
      <3>5. N = A
        BY <1>7, <3>3, <3>4
      <3>6. PICK i \in 1..Len(A) : A[i][1] = d
        BY <1>5, <3>4
      <3> QED
        BY <2>3, <3>5, <3>6
    <2> QED
      BY <2>2, <2>3
  <1> QED
    BY <1>11, <1>12, <1>13, <1>14 DEF ListInv

\* The list is kept by every step.
LEMMA ListStep ==
  ASSUME TypeOK, ListInv, Next PROVE ListInv'
  <1> USE DEF kernel, worker, others
  <1>1. CASE Kernel
    <2>1. ASSUME NEW d \in Devices, PlugIn(d) PROVE ListInv'
      <3>1. plugs' + 1 # 0
        BY <2>1, InputAssumption DEF PlugIn, TypeOK
      <3>2. /\ present' = [present EXCEPT ![d] = plugs' + 1]
            /\ Notify("CREATE", d) /\ present[d] = 0
            /\ UNCHANGED <<mInputDevices, unscanned, pc>>
        BY <2>1 DEF PlugIn
      <3> QED
        BY <3>1, <3>2, PlugStep
    <2>2. ASSUME NEW d \in Devices, PlugOut(d) PROVE ListInv'
      <3>1. /\ present' = [present EXCEPT ![d] = 0] /\ Notify("DELETE", d)
            /\ UNCHANGED <<mInputDevices, unscanned, pc>>
        BY <2>2 DEF PlugOut
      <3> QED
        BY <3>1, PlugStep
    <2>3. ASSUME NEW d \in Devices, NEW k \in Codes, NEW s \in States,
                 KeyEvent(d, k, s)
          PROVE  ListInv'
      BY <2>3, ListUnchanged DEF KeyEvent
    <2> QED
      BY <1>1, <2>1, <2>2, <2>3 DEF Kernel
  <1>2. CASE WorkerStep
    <2>1. CASE AddWatch
      <3>1. /\ inotify' = <<>> /\ mInputDevices' = <<>> /\ unscanned' = Devices
            /\ pc' = "scan"
        BY <2>1 DEF AddWatch, ListInv, Scanning
      <3>2. Len(inotify') = 0 /\ Len(mInputDevices') = 0 /\ 1..0 = {}
        BY <3>1
      <3> QED
        BY <3>1, <3>2 DEF ListInv, Scanning, ListedOnce, OldIsReported,
                          LastReportIsTrue, Found
    <2>2. CASE Scanned
      <3>1. /\ pc = "scan" /\ pc' = "select" /\ unscanned = {}
            /\ UNCHANGED <<present, inotify, mInputDevices, unscanned>>
        BY <2>2 DEF Scanned
      <3>2. Scanning' /\ ListedOnce' /\ LastReportIsTrue'
        BY <3>1 DEF ListInv, Scanning, ListedOnce, LastReportIsTrue
      <3>3. OldIsReported'
        BY <3>1 DEF ListInv, OldIsReported
      <3>4. Found'
        BY <3>1 DEF ListInv, Found, Reported, Listed
      <3> QED
        BY <3>2, <3>3, <3>4 DEF ListInv
    <2>3. CASE HandleNotify
      BY <2>3, NotifyStep
    <2>4. ASSUME NEW d \in Devices, Scan(d) PROVE ListInv'
      BY <2>4, ScanStep
    <2>5. CASE \/ SelectDevices \/ EndOfWalk \/ SetRepeat \/ StartTimer
               \/ AssignKey \/ ClearKey \/ WriteKey
               \/ \E d \in Devices : SkipDevice(d) \/ TakeEvent(d)
      <3>1. /\ UNCHANGED <<present, inotify, mInputDevices, unscanned>>
            /\ \/ pc' = pc
               \/ pc \notin {"watch", "scan"} /\ pc' \notin {"watch", "scan"}
        <4>1. CASE \/ SelectDevices \/ EndOfWalk \/ SetRepeat \/ StartTimer
                   \/ AssignKey \/ ClearKey \/ WriteKey
          BY <4>1 DEF SelectDevices, EndOfWalk, SetRepeat, StartTimer, AssignKey,
                      ClearKey, WriteKey
        <4>2. ASSUME NEW d \in Devices, SkipDevice(d) \/ TakeEvent(d)
              PROVE  /\ UNCHANGED <<present, inotify, mInputDevices, unscanned>>
                     /\ \/ pc' = pc
                        \/ /\ pc \notin {"watch", "scan"}
                           /\ pc' \notin {"watch", "scan"}
          BY <4>2 DEF SkipDevice, TakeEvent, AtDevice
        <4> QED
          BY <2>5, <4>1, <4>2
      <3> QED
        BY <3>1, ListUnchanged
    <2> QED
      BY <1>2, <2>1, <2>2, <2>3, <2>4, <2>5 DEF WorkerStep
  <1>3. CASE StopTimer \/ TimerExpires \/ TimerStep \/ Dispatch
    <2>1. UNCHANGED <<present, inotify, mInputDevices, unscanned, pc>>
      BY <1>3 DEF StopTimer, TimerExpires, TimerStep, NoKeyToRepeat, CheckKey,
                  ReadKey, RepeatKey, Dispatch
    <2> QED
      BY <2>1, ListUnchanged
  <1> QED
    BY <1>1, <1>2, <1>3 DEF Next

\* What the list owes its truth to makes it true when nothing is to come.
LEMMA InSync == ASSUME TypeOK, ListInv PROVE DevicesInSync
  <1> SUFFICES ASSUME pc = "select", inotify = <<>>
               PROVE  /\ \A d \in Devices : Listed(d) <=> present[d] # 0
                      /\ \A i, j \in 1..Len(mInputDevices) :
                           /\ mInputDevices[i][2] = present[mInputDevices[i][1]]
                           /\ mInputDevices[i][1] = mInputDevices[j][1] => i = j
    BY DEF DevicesInSync
  <1>1. Len(inotify) = 0 /\ 1..0 = {}
    OBVIOUS
  <1>2. \A i \in 1..Len(mInputDevices) :
          mInputDevices[i][2] = present[mInputDevices[i][1]]
    BY <1>1 DEF ListInv, OldIsReported
  <1>3. \A d \in Devices : Listed(d) => present[d] # 0
    BY <1>2, ListTypes DEF Listed
  <1>4. \A d \in Devices : present[d] # 0 => Listed(d)
    BY <1>1 DEF ListInv, Scanning, Found, Reported
  <1> QED
    BY <1>2, <1>3, <1>4 DEF ListInv, ListedOnce

----------------------------------------------------------------------------
(* The theorems *)

\* Whatever is plugged in and out and whatever keys are pressed: once inotify's
\* events are handled the list holds the devices there are, and the repeat
\* timer is off from the end of a release to the next press.
THEOREM InputInvariant == Spec => []InputInv
  <1>1. Init => InputInv
    <2> SUFFICES ASSUME Init PROVE InputInv
      OBVIOUS
    <2>1. TypeOK
      <3>1. 0 \in 0..MaxPlugs /\ {0, 1} \subseteq 0..MaxPlugs + 1
        BY InputAssumption
      <3>2. present \in [Devices -> 0..MaxPlugs + 1]
        BY <3>1 DEF Init
      <3>3. [d \in Devices |-> {}] \in [Devices -> SUBSET Codes]
            /\ [d \in Devices |-> <<>>] \in [Devices -> Seq(Messages)]
        OBVIOUS
      <3>4. inotify \in Seq({"CREATE", "DELETE"} \X Devices)
            /\ mInputDevices \in Seq(Devices \X (1..MaxPlugs + 1))
            /\ pipe \in Seq(Messages)
        BY DEF Init
      <3>5. held \in [Devices -> SUBSET Codes] /\ events \in [Devices -> Seq(Messages)]
        BY <3>3 DEF Init
      <3> QED
        BY <3>1, <3>2, <3>4, <3>5 DEF Init, TypeOK, Codes
    <2>2. Len(inotify) = 0 /\ Len(mInputDevices) = 0 /\ 1..0 = {}
      BY DEF Init
    <2>3. ListInv
      BY <2>2 DEF Init, ListInv, Scanning, ListedOnce, OldIsReported,
                  LastReportIsTrue, Found
    <2>4. InHand /\ Repeating
      BY DEF Init, InHand, Repeating, RepeatsOnlyPressedKeys
    <2> QED
      BY <2>1, <2>3, <2>4, InSync DEF InputInv, ListInv
  <1>2. InputInv /\ [Next]_vars => InputInv'
    <2> SUFFICES ASSUME InputInv, [Next]_vars PROVE InputInv'
      OBVIOUS
    <2>1. TypeOK /\ ListInv /\ InHand /\ Repeating /\ ListedOnce
      BY DEF InputInv, ListInv
    <2>2. CASE Next
      <3>1. TypeOK' /\ ListInv' /\ InHand' /\ Repeating'
        BY <2>1, <2>2, TypeStep, ListStep, RepeatStep
      <3>2. DevicesInSync'
        BY <3>1, InSync, PTL
      <3> QED
        BY <3>1, <3>2 DEF InputInv, ListInv
    <2>3. CASE UNCHANGED vars
      <3>1. InHand' /\ Repeating'
        BY <2>1, <2>3 DEF vars, kernel, worker, keys, repeatTimer, expired, InHand,
                          Repeating, RepeatsOnlyPressedKeys
      <3>2. ListInv'
        BY <2>1, <2>3, ListUnchanged DEF vars, kernel, worker
      <3>3. TypeOK' /\ DevicesInSync'
        BY <2>3 DEF vars, kernel, worker, keys, repeatTimer, expired, InputInv,
                          TypeOK, DevicesInSync, Listed
      <3> QED
        BY <3>1, <3>2, <3>3 DEF InputInv, ListInv
    <2> QED
      BY <2>2, <2>3
  <1> QED
    BY <1>1, <1>2, PTL DEF Spec

\* Nothing is repeated but a key pressed since the last release, however long
\* ago the handler read its code.
THEOREM RepeatsPressedKeys == Spec => []RepeatsOnlyPressedKeys
  <1>1. InputInv => RepeatsOnlyPressedKeys
    BY DEF InputInv, Repeating
  <1> QED
    BY <1>1, InputInvariant, PTL

\* No REPEATED is written after the RELEASED.
THEOREM NoLateRepeat == Spec => NoRepeatAfterRelease
  <1>1. InputInv /\ [Next]_vars
          => [RepeatKey => event[2] = "PRESSED" \/ pc = "stop"]_vars
    BY DEF InputInv, InHand, Repeating, RepeatKey
  <1> QED
    BY <1>1, InputInvariant, PTL DEF Spec, NoRepeatAfterRelease

\* A release waits for a handler that is between its two reads of mLastKeyCode.
THEOREM ReleaseWaits == Spec => ReleaseWaitsForHandler
  <1>1. InputInv /\ [Next]_vars
          => [handler = "read" /\ mLastKeyCode' # mLastKeyCode
                => event[2] = "PRESSED"]_vars
    <2> USE DEF keys
    <2> SUFFICES ASSUME InputInv, Next, handler = "read",
                        mLastKeyCode' # mLastKeyCode
                 PROVE  event[2] = "PRESSED"
      OBVIOUS
    <2>1. timer = "firing"
      BY DEF InputInv, Repeating
    <2>2. CASE AssignKey
      BY <2>2 DEF AssignKey, InputInv, InHand
    <2>3. CASE ClearKey
      BY <2>1, <2>3 DEF ClearKey, Repeat!StopReturns
    <2>4. CASE Kernel
      BY <2>4 DEF Kernel, PlugIn, PlugOut, KeyEvent
    <2>5. CASE WorkerStep
      BY <2>2, <2>3, <2>5
         DEF WorkerStep, AddWatch, Scanned, HandleNotify, SelectDevices, EndOfWalk,
             Scan, SkipDevice, TakeEvent, SetRepeat, StartTimer, WriteKey
    <2>6. CASE StopTimer \/ TimerExpires \/ TimerStep \/ Dispatch
      BY <2>6 DEF StopTimer, TimerExpires, TimerStep, NoKeyToRepeat, CheckKey,
                  ReadKey, RepeatKey, Dispatch, others
    <2> QED
      BY <2>4, <2>5, <2>6 DEF Next
  <1> QED
    BY <1>1, InputInvariant, PTL DEF Spec, ReleaseWaitsForHandler
=============================================================================
