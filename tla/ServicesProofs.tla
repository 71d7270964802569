-------------------------- MODULE ServicesProofs ---------------------------
(***************************************************************************)
(* The services' descriptors, for any set of numbers, any number of tries  *)
(* and of late answers, and whatever other threads open and close.         *)
(***************************************************************************)
EXTENDS Services, Integers, SequenceTheorems, TLAPS

Watchers == {"ssdp", "web", "wifi"}

\* A watcher is watched once.
Once(s) == \A i, j \in 1..Len(s) : s[i] = s[j] => i = j

\* addFdWatcher() of one that is not watched.
LEMMA AddOnce ==
  ASSUME NEW D, NEW s \in Seq(D), NEW w \in D, w \notin ToSet(s), Once(s)
  PROVE  /\ Append(s, w) \in Seq(D) /\ Once(Append(s, w))
         /\ ToSet(Append(s, w)) = ToSet(s) \cup {w}
  <1> DEFINE t == Append(s, w)
  <1>1. /\ t \in Seq(D) /\ Len(t) = Len(s) + 1 /\ Len(s) \in Nat
        /\ \A i \in 1..Len(s) : t[i] = s[i]
        /\ t[Len(s) + 1] = w
    BY AppendProperties, LenProperties
  <1>2. DOMAIN t = 1..Len(t) /\ DOMAIN s = 1..Len(s)
    BY <1>1, LenProperties
  <1>3. \A i \in 1..Len(s) : s[i] # w
    BY <1>2 DEF ToSet
  <1> HIDE DEF t
  <1>4. Once(t)
    BY <1>1, <1>3 DEF Once
  <1>5. ToSet(t) = ToSet(s) \cup {w}
    BY <1>1, <1>2 DEF ToSet
  <1> QED
    BY <1>1, <1>4, <1>5 DEF t

\* removeFdWatcher(), of one that is watched or not.
LEMMA RemoveOnce ==
  ASSUME NEW D, NEW s \in Seq(D), NEW w, Once(s)
  PROVE  /\ RemoveFirst(s, w) \in Seq(D) /\ Once(RemoveFirst(s, w))
         /\ ToSet(RemoveFirst(s, w)) = ToSet(s) \ {w}
  <1>1. Len(s) \in Nat /\ DOMAIN s = 1..Len(s) /\ \A i \in 1..Len(s) : s[i] \in D
    BY LenProperties, ElementOfSeq
  <1>2. CASE \A i \in 1..Len(s) : s[i] # w
    <2>1. RemoveFirst(s, w) = s
      BY <1>2 DEF RemoveFirst
    <2>2. ToSet(s) = ToSet(s) \ {w}
      BY <1>1, <1>2 DEF ToSet
    <2> QED
      BY <2>1, <2>2
  <1>3. CASE \E i \in 1..Len(s) : s[i] = w
    <2>1. PICK k \in 1..Len(s) : s[k] = w
      BY <1>3
    <2>2. {i \in 1..Len(s) : s[i] = w} = {k}
      BY <2>1 DEF Once
    <2>3. SelectInSeq(s, LAMBDA v : v = w) = k
      <3>1. Min({k}) = k
        BY <2>1, <1>1 DEF Min
      <3> QED
        BY <2>2, <3>1 DEF SelectInSeq
    <2> DEFINE front == SubSeq(s, 1, k - 1)
               back == SubSeq(s, k + 1, Len(s))
               t == front \o back
    <2>4. RemoveFirst(s, w) = t
      BY <1>3, <2>3 DEF RemoveFirst, RemoveAt
    <2>5. /\ front \in Seq(D) /\ Len(front) = k - 1
          /\ \A i \in 1..k - 1 : front[i] = s[i]
      BY <1>1, SubSeqProperties
    <2>6. /\ back \in Seq(D) /\ Len(back) = Len(s) - k
          /\ \A i \in 1..Len(s) - k : back[i] = s[k + i]
      <3>1. \A i \in k + 1..Len(s) : s[i] \in D
        BY <1>1
      <3>2. k + 1 \in Int /\ Len(s) \in Int
        BY <1>1
      <3>3. /\ back \in Seq(D)
            /\ Len(back) = IF k + 1 <= Len(s) THEN Len(s) - (k + 1) + 1 ELSE 0
            /\ \A i \in 1..Len(s) - (k + 1) + 1 : back[i] = s[k + 1 + i - 1]
        BY <3>1, <3>2, SubSeqProperties
      <3>4. Len(s) - (k + 1) + 1 = Len(s) - k
        BY <1>1
      <3>5. \A i \in 1..Len(s) - k : k + 1 + i - 1 = k + i
        BY <1>1
      <3> HIDE DEF back, t
      <3>6. Len(back) = Len(s) - k
        <4>1. k \in Nat /\ Len(s) \in Nat /\ k <= Len(s)
          BY <1>1
        <4>4. k + 1 <= Len(s) \/ k = Len(s)
          BY <4>1
        <4>2. k + 1 <= Len(s) => Len(back) = Len(s) - (k + 1) + 1
          BY <3>3
        <4>3. k = Len(s) => Len(back) = 0 /\ Len(s) - k = 0
          BY <1>1, <3>3
        <4> QED
          BY <3>4, <4>4, <4>2, <4>3
      <3>7. ASSUME NEW i \in 1..Len(s) - k PROVE back[i] = s[k + i]
        BY <3>3, <3>4, <3>5
      <3> QED
        BY <3>3, <3>6, <3>7
    <2> HIDE DEF front, back
    <2>7. /\ t \in Seq(D) /\ Len(t) = Len(s) - 1 /\ DOMAIN t = 1..Len(t)
          /\ \A i \in 1..Len(t) : t[i] = IF i < k THEN s[i] ELSE s[i + 1]
      <3>1. /\ t \in Seq(D) /\ Len(t) = Len(front) + Len(back)
            /\ \A i \in 1..Len(front) + Len(back) :
                 t[i] = IF i <= Len(front) THEN front[i] ELSE back[i - Len(front)]
        BY <2>5, <2>6, ConcatProperties
      <3>2. Len(t) = Len(s) - 1 /\ DOMAIN t = 1..Len(t)
        BY <1>1, <2>5, <2>6, <3>1, LenProperties
      <3> HIDE DEF t
      <3>3. ASSUME NEW i \in 1..Len(t), i < k PROVE t[i] = s[i]
        <4>1. i \in 1..k - 1 /\ i <= Len(front)
          BY <1>1, <2>5, <3>2, <3>3
        <4>2. i \in 1..Len(front) + Len(back)
          BY <3>1, <3>2, <2>5, <2>6, <4>1
        <4>3. t[i] = front[i]
          BY <3>1, <4>1, <4>2
        <4> QED
          BY <2>5, <4>1, <4>3
      <3>4. ASSUME NEW i \in 1..Len(t), ~(i < k) PROVE t[i] = s[i + 1]
        <4>1. /\ i - (k - 1) \in 1..Len(s) - k
              /\ k + (i - (k - 1)) = i + 1 /\ ~(i <= k - 1)
          BY <1>1, <3>2, <3>4
        <4>2. t[i] = back[i - (k - 1)]
          BY <1>1, <2>5, <2>6, <3>1, <3>2, <4>1
        <4>3. back[i - (k - 1)] = s[k + (i - (k - 1))]
          BY <2>6, <4>1
        <4> QED
          BY <4>1, <4>2, <4>3
      <3> QED
        BY <3>1, <3>2, <3>3, <3>4
    <2> HIDE DEF t
    <2>8. Once(t)
      BY <1>1, <2>7 DEF Once
    <2>9. ToSet(t) = ToSet(s) \ {w}
      <3>1. ASSUME NEW v \in ToSet(t) PROVE v \in ToSet(s) \ {w}
        <4>1. PICK i \in 1..Len(t) : v = t[i]
          BY <2>7 DEF ToSet
        <4>2. PICK j \in 1..Len(s) : v = s[j] /\ j # k
          BY <1>1, <2>7, <4>1
        <4> QED
          BY <1>1, <2>1, <4>2 DEF ToSet, Once
      <3>2. ASSUME NEW v \in ToSet(s) \ {w} PROVE v \in ToSet(t)
        <4>1. PICK j \in 1..Len(s) : v = s[j] /\ j # k
          BY <1>1, <2>1, <3>2 DEF ToSet
        <4>2. \E i \in 1..Len(t) : t[i] = s[j]
          <5>1. CASE j < k
            BY <1>1, <2>7, <5>1
          <5>2. CASE j > k
            <6>1. j - 1 \in 1..Len(t) /\ ~(j - 1 < k) /\ (j - 1) + 1 = j
              BY <1>1, <2>7, <5>2
            <6>2. t[j - 1] = s[j]
              BY <2>7, <6>1
            <6> QED
              BY <6>1, <6>2
          <5> QED
            BY <4>1, <5>1, <5>2
        <4> QED
          BY <2>7, <4>1, <4>2 DEF ToSet
      <3> QED
        BY <3>1, <3>2
    <2> QED
      BY <2>4, <2>7, <2>8, <2>9
  <1> QED
    BY <1>2, <1>3


----------------------------------------------------------------------------
(* The invariant, in parts *)

\* What ServicesInv says while no close() has gone wrong, without what follows
\* from the rest.
Core ==
  /\ TypeOK /\ Once(watchers)
  /\ Holding /\ Watching /\ InStep
  /\ misled => owed # <<>>

\* The rest.
LEMMA CoreSuffices ==
  ASSUME Core PROVE WatchedIsOwn /\ NothingLeftBehind /\ CommandsAreHonest
  <1>1. ToSet(watchers) \subseteq Watchers
    <2>1. watchers \in Seq(Watchers)
      BY DEF Core, TypeOK, Watchers
    <2>2. DOMAIN watchers = 1..Len(watchers)
          /\ \A i \in 1..Len(watchers) : watchers[i] \in Watchers
      BY <2>1, LenProperties, ElementOfSeq
    <2> QED
      BY <2>2 DEF ToSet
  <1>2. "ssdp" \in ToSet(watchers) => mSock # None /\ table[mSock] = "ssdp"
    BY DEF Core, TypeOK, Holding, Watching, SsdpOpen
  <1>3. "web" \in ToSet(watchers) => webSock # None /\ table[webSock] = "web"
    BY DEF Core, TypeOK, Holding, Watching, WebOpen
  <1>4. "wifi" \in ToSet(watchers)
          => mMonitorConn # None /\ table[mMonitorConn] = "monitor"
    BY DEF Core, Holding, Watching, InStep
  <1>5. WatchedIsOwn
    <2>1. \A i, j \in 1..Len(watchers) : watchers[i] = watchers[j] => i = j
      BY DEF Core, Once
    <2>2. ASSUME NEW w \in ToSet(watchers)
          PROVE  FD(w) # None /\ table[FD(w)] = Holder(w)
      <3>1. CASE w = "ssdp"
        BY <1>2, <2>2, <3>1 DEF FD, Holder
      <3>2. CASE w = "web"
        BY <1>3, <2>2, <3>2 DEF FD, Holder
      <3>3. CASE w = "wifi"
        BY <1>4, <2>2, <3>3 DEF FD, Holder
      <3> QED
        BY <1>1, <3>1, <3>2, <3>3 DEF Watchers
    <2> QED
      BY <2>1, <2>2 DEF WatchedIsOwn
  <1>6. NothingLeftBehind
    <2> SUFFICES ASSUME at = "loop", ~started
                 PROVE  /\ \A n \in Numbers : table[n] \notin {"ssdp", "web", "client"}
                        /\ ToSet(watchers) \subseteq {"wifi"}
                        /\ ~mTimer
                        /\ sent \in {"nothing", "byebye"}
      BY DEF NothingLeftBehind
    <2>1. ~SsdpOpen /\ ~WebServes /\ ~WebOpen
      BY DEF SsdpOpen, WebServes, WebOpen
    <2>2. clntSock = None
      BY DEF Core, Holding
    <2>3. \A n \in Numbers : table[n] \notin {"ssdp", "web", "client"}
      BY <2>1, <2>2, ServicesAssumption DEF Core, Holding
    <2>4. "ssdp" \notin ToSet(watchers) /\ "web" \notin ToSet(watchers)
      BY <2>1 DEF Core, Watching
    <2>5. ~mTimer /\ sent \in {"nothing", "byebye"}
      BY DEF Core, InStep
    <2> QED
      BY <1>1, <2>3, <2>4, <2>5 DEF Watchers
  <1>7. CommandsAreHonest
    BY DEF Core, Holding, CommandsAreHonest
  <1> QED
    BY <1>5, <1>6, <1>7

\* Nothing is open, watched or announced yet.
LEMMA InitCore == Init => Core /\ ~stray
  <1> SUFFICES ASSUME Init PROVE Core /\ ~stray
    OBVIOUS
  <1>1. ToSet(watchers) = {} /\ Once(watchers)
    BY DEF Init, ToSet, Once
  <1>2. TypeOK
    <2>1. <<>> \in Seq(BOOLEAN) /\ Len(<<>>) <= MaxOwed
          /\ <<>> \in Seq({"ssdp", "web", "wifi"}) /\ 0 \in 0..MaxTries
      BY ServicesAssumption
    <2>2. [n \in Numbers |-> "free"] \in [Numbers -> Holders]
      BY DEF Holders
    <2> QED
      BY <2>1, <2>2 DEF Init, TypeOK, Labels
  <1>3. ~SsdpOpen /\ ~WebServes /\ ~WebOpen
    BY DEF Init, SsdpOpen, WebServes, WebOpen
  <1>4. Holding
    BY <1>3, ServicesAssumption DEF Init, Holding
  <1>5. Watching
    BY <1>1, <1>3 DEF Init, Watching
  <1>6. InStep
    BY DEF Init, InStep
  <1> QED
    BY <1>1, <1>2, <1>4, <1>5, <1>6 DEF Core, Init

----------------------------------------------------------------------------
(* Commands and their answers *)

\* Whatever the outcome of a command, the answers that are owed stay within
\* their bound.
LEMMA CommandTypes ==
  ASSUME TypeOK, Command
  PROVE  owed' \in Seq(BOOLEAN) /\ Len(owed') <= MaxOwed /\ misled' \in BOOLEAN
  <1>1. owed \in Seq(BOOLEAN) /\ Len(owed) \in Nat /\ Len(owed) <= MaxOwed
        /\ MaxOwed \in Nat
    BY ServicesAssumption, LenProperties DEF TypeOK
  <1>2. CASE CommandAnswered
    <2>1. PICK accepted \in BOOLEAN : Returns(accepted)
      BY <1>2 DEF CommandAnswered
    <2> DEFINE answers == Append(owed, accepted)
    <2>2. /\ answers \in Seq(BOOLEAN) /\ Len(answers) = Len(owed) + 1
          /\ answers # <<>>
      BY <1>1, AppendProperties
    <2>3. Tail(answers) \in Seq(BOOLEAN) /\ Len(Tail(answers)) = Len(owed)
      BY <1>1, <2>2, HeadTailProperties
    <2> QED
      BY <1>1, <2>1, <2>3 DEF Returns
  <1>3. CASE CommandTimesOut
    <2>1. PICK accepted \in BOOLEAN : owed' = Append(owed, accepted)
      BY <1>3 DEF CommandTimesOut
    <2>2. Append(owed, accepted) \in Seq(BOOLEAN)
          /\ Len(Append(owed, accepted)) = Len(owed) + 1
      BY <1>1, AppendProperties
    <2>3. Len(owed) < MaxOwed /\ misled' = FALSE
      BY <1>3 DEF CommandTimesOut
    <2>4. Len(owed) + 1 <= MaxOwed
      BY <1>1, <2>3
    <2> QED
      BY <2>1, <2>2, <2>3, <2>4
  <1>4. CASE CommandFails
    BY <1>1, <1>4 DEF CommandFails
  <1>5. CASE SetWfdInfo
    <2>1. PICK first \in BOOLEAN, second \in BOOLEAN :
            LET answers == owed \o <<first, second>>
            IN  /\ owed' = SubSeq(answers, 3, Len(answers))
                /\ misled' = (answers[2] /\ ~second)
      BY <1>5 DEF SetWfdInfo
    <2> DEFINE answers == owed \o <<first, second>>
    <2>2. answers \in Seq(BOOLEAN) /\ Len(answers) = Len(owed) + 2
      BY <1>1, ConcatProperties
    <2> HIDE DEF answers
    <2>3. \A i \in 3..Len(answers) : answers[i] \in BOOLEAN
      BY <1>1, <2>2, ElementOfSeq
    <2>4. /\ SubSeq(answers, 3, Len(answers)) \in Seq(BOOLEAN)
          /\ Len(SubSeq(answers, 3, Len(answers))) =
               IF 3 <= Len(answers) THEN Len(answers) - 3 + 1 ELSE 0
      BY <1>1, <2>2, <2>3, SubSeqProperties
    <2>5. Len(SubSeq(answers, 3, Len(answers))) = Len(owed)
      BY <1>1, <2>2, <2>4
    <2>6. misled' \in BOOLEAN
      BY <2>1
    <2>7. owed' = SubSeq(answers, 3, Len(answers))
      BY <2>1 DEF answers
    <2> QED
      BY <1>1, <2>4, <2>5, <2>6, <2>7
  <1> QED
    BY <1>2, <1>3, <1>4, <1>5 DEF Command

\* A command misled its caller by an answer that was owed before it, and as
\* many are owed after it.
LEMMA CommandHonest ==
  ASSUME TypeOK, Command PROVE misled' => owed' # <<>>
  <1>1. owed \in Seq(BOOLEAN) /\ Len(owed) \in Nat
    BY LenProperties DEF TypeOK
  <1>2. CASE CommandAnswered
    <2>1. PICK accepted \in BOOLEAN : Returns(accepted)
      BY <1>2 DEF CommandAnswered
    <2>2. CASE owed = <<>>
      <3>1. Head(Append(owed, accepted)) = accepted
        BY <2>2
      <3> QED
        BY <2>1, <3>1 DEF Returns
    <2>3. CASE owed # <<>>
      <3>1. Append(owed, accepted) \in Seq(BOOLEAN)
            /\ Len(Append(owed, accepted)) = Len(owed) + 1
            /\ Append(owed, accepted) # <<>> /\ Len(owed) > 0
        BY <1>1, <2>3, AppendProperties, EmptySeq
      <3>2. Len(Tail(Append(owed, accepted))) = Len(owed)
        BY <1>1, <3>1, HeadTailProperties
      <3>3. owed' = Tail(Append(owed, accepted))
        BY <2>1 DEF Returns
      <3>4. Len(owed') # 0
        BY <3>1, <3>2, <3>3
      <3> QED
        BY <3>4
    <2> QED
      BY <2>2, <2>3
  <1>3. CASE CommandTimesOut \/ CommandFails
    BY <1>3 DEF CommandTimesOut, CommandFails
  <1>4. CASE SetWfdInfo
    <2>1. PICK first \in BOOLEAN, second \in BOOLEAN :
            LET answers == owed \o <<first, second>>
            IN  /\ owed' = SubSeq(answers, 3, Len(answers))
                /\ misled' = (answers[2] /\ ~second)
      BY <1>4 DEF SetWfdInfo
    <2>2. CASE owed = <<>>
      <3>1. (owed \o <<first, second>>)[2] = second
        BY <2>2
      <3> QED
        BY <2>1, <3>1
    <2>3. CASE owed # <<>>
      <3> DEFINE answers == owed \o <<first, second>>
      <3>1. answers \in Seq(BOOLEAN) /\ Len(answers) = Len(owed) + 2
        BY <1>1, ConcatProperties
      <3>2. Len(owed) > 0
        BY <1>1, <2>3, EmptySeq
      <3> HIDE DEF answers
      <3>3. \A i \in 3..Len(answers) : answers[i] \in BOOLEAN
        BY <1>1, <3>1, ElementOfSeq
      <3>4. Len(SubSeq(answers, 3, Len(answers))) =
              IF 3 <= Len(answers) THEN Len(answers) - 3 + 1 ELSE 0
        BY <1>1, <3>1, <3>3, SubSeqProperties
      <3>5. Len(SubSeq(answers, 3, Len(answers))) > 0
        BY <1>1, <3>1, <3>2, <3>4
      <3>6. owed' = SubSeq(answers, 3, Len(answers))
        BY <2>1 DEF answers
      <3>7. Len(owed') # 0
        BY <3>5, <3>6
      <3> QED
        BY <3>7
    <2> QED
      BY <2>2, <2>3
  <1> QED
    BY <1>2, <1>3, <1>4 DEF Command

----------------------------------------------------------------------------
(* Types *)

\* open() types the table.
LEMMA OpensType ==
  ASSUME TypeOK, NEW n \in Numbers, NEW h \in Holders, Opens(n, h)
  PROVE  table' \in [Numbers -> Holders]
  BY DEF TypeOK, Opens

\* close() does.
LEMMA ClosesType ==
  ASSUME TypeOK, NEW n \in Numbers \cup {None}, NEW h \in Holders, Closes(n, h)
  PROVE  table' \in [Numbers -> Holders] /\ stray' \in BOOLEAN
  <1>1. CASE n = None
    BY <1>1 DEF TypeOK, Closes
  <1>2. CASE n # None
    BY <1>2 DEF TypeOK, Closes, Holders
  <1> QED
    BY <1>1, <1>2

\* addFdWatcher() types the watchers.
LEMMA WatchedType ==
  ASSUME TypeOK, NEW w \in {"ssdp", "web", "wifi"}, addFdWatcher(w)
  PROVE  watchers' \in Seq({"ssdp", "web", "wifi"})
  BY AppendProperties DEF TypeOK, addFdWatcher

\* removeFdWatcher() does.
LEMMA UnwatchedType ==
  ASSUME TypeOK, Once(watchers), NEW w, removeFdWatcher(w)
  PROVE  watchers' \in Seq({"ssdp", "web", "wifi"})
  BY RemoveOnce DEF TypeOK, removeFdWatcher

\* What an operation does to one variable is of its type.
LEMMA TypeStep ==
  ASSUME TypeOK, Once(watchers), InStep, Next PROVE TypeOK'
  <1> USE DEF From, Labels
  <1>0. \A h \in {"ssdp", "web", "client", "ctrl", "monitor", "other"} : h \in Holders
    BY DEF Holders
  <1>1. CASE Start
    <2>1. CASE SocketFails \/ WebSocketFails \/ Announce
      BY <2>1 DEF SocketFails, WebSocketFails, Announce, TypeOK,
                  ssdp, web, wifi, commands
    <2>6. CASE Configured \/ WebListens
      <3>1. watchers' \in Seq({"ssdp", "web", "wifi"})
        BY <2>6, WatchedType DEF Configured, WebListens
      <3> QED
        BY <2>6, <3>1 DEF Configured, WebListens, TypeOK, ssdp, web, wifi, commands
    <2>2. CASE SocketOpens
      <3>1. PICK n \in Numbers : Opens(n, "ssdp") /\ mSock' = n
        BY <2>2 DEF SocketOpens
      <3>2. table' \in [Numbers -> Holders]
        BY <1>0, <3>1, OpensType
      <3> QED
        BY <2>2, <3>1, <3>2 DEF SocketOpens, TypeOK, web, wifi, commands
    <2>3. CASE ConfigureFails
      <3>1. table' \in [Numbers -> Holders] /\ stray' \in BOOLEAN
        BY <1>0, <2>3, ClosesType DEF ConfigureFails, TypeOK
      <3> QED
        BY <2>3, <3>1 DEF ConfigureFails, TypeOK, ssdp, web, wifi, commands
    <2>4. CASE WebSocketOpens
      <3>1. PICK n \in Numbers : Opens(n, "web") /\ webSock' = n
        BY <2>4 DEF WebSocketOpens
      <3>2. table' \in [Numbers -> Holders]
        BY <1>0, <3>1, OpensType
      <3> QED
        BY <2>4, <3>1, <3>2 DEF WebSocketOpens, TypeOK, ssdp, wifi, commands
    <2>5. CASE WebBindFails
      <3>1. table' \in [Numbers -> Holders] /\ stray' \in BOOLEAN
        BY <1>0, <2>5, ClosesType DEF WebBindFails, TypeOK
      <3> QED
        BY <2>5, <3>1 DEF WebBindFails, TypeOK, ssdp, wifi, commands
    <2> QED
      BY <1>1, <2>1, <2>2, <2>3, <2>4, <2>5, <2>6 DEF Start
  <1>2. CASE Stop
    <2>1. CASE StopTimer \/ SayGoodbye
      BY <2>1 DEF StopTimer, SayGoodbye, TypeOK, ssdp, web, wifi, commands
    <2>2. CASE WebUnwatched \/ SsdpUnwatched
      <3>1. watchers' \in Seq({"ssdp", "web", "wifi"})
        BY <2>2, UnwatchedType DEF WebUnwatched, SsdpUnwatched
      <3> QED
        BY <2>2, <3>1 DEF WebUnwatched, SsdpUnwatched, TypeOK, ssdp, web, wifi, commands
    <2>3. CASE WebCloses \/ SsdpCloses
      <3>1. table' \in [Numbers -> Holders] /\ stray' \in BOOLEAN
        BY <1>0, <2>3, ClosesType DEF WebCloses, SsdpCloses, TypeOK
      <3> QED
        BY <2>3, <3>1 DEF WebCloses, SsdpCloses, TypeOK, ssdp, web, wifi, commands
    <2> QED
      BY <1>2, <2>1, <2>2, <2>3 DEF Stop
  <1>3. CASE TimerExpires \/ AnswersSearch
    BY <1>3 DEF TimerExpires, AnswersSearch, TypeOK, ssdp, web, wifi, commands
  <1>4. CASE Accepts
    <2>1. PICK n \in Numbers : Opens(n, "client") /\ clntSock' = n
      BY <1>4 DEF Accepts
    <2>2. table' \in [Numbers -> Holders]
      BY <1>0, <2>1, OpensType
    <2> QED
      BY <1>4, <2>1, <2>2 DEF Accepts, TypeOK, ssdp, wifi, commands
  <1>5. CASE ClosesClient
    <2>1. table' \in [Numbers -> Holders] /\ stray' \in BOOLEAN
      BY <1>0, <1>5, ClosesType DEF ClosesClient, TypeOK
    <2> QED
      BY <1>5, <2>1 DEF ClosesClient, TypeOK, ssdp, wifi, commands
  <1>6. CASE Wifi
    <2>1. CASE Enable
      <3>1. MaxTries \in 0..MaxTries
        BY ServicesAssumption
      <3> QED
        BY <2>1, <3>1 DEF Enable, TypeOK, ssdp, web
    <2>10. CASE Attached
      <3>1. watchers' \in Seq({"ssdp", "web", "wifi"})
        BY <2>10, WatchedType DEF Attached
      <3> QED
        BY <2>10, <3>1 DEF Attached, TypeOK, ssdp, web, commands
    <2>2. at \in {"ctrl", "monitor", "attach"} => tries - 1 \in 0..MaxTries
      BY ServicesAssumption DEF InStep, TypeOK
    <2>3. <<>> \in Seq(BOOLEAN) /\ Len(<<>>) <= MaxOwed
      BY ServicesAssumption
    <2>4. CASE CtrlFails
      BY <2>2, <2>3, <2>4 DEF CtrlFails, NextTry, TypeOK, ssdp, web
    <2>11. CASE MonitorFails
      BY <2>2, <2>11 DEF MonitorFails, NextTry, TypeOK, ssdp, web
    <2>5. CASE CtrlOpens
      <3>1. PICK n \in Numbers : Opens(n, "ctrl") /\ mCtrlConn' = n
        BY <2>5 DEF CtrlOpens
      <3>2. table' \in [Numbers -> Holders]
        BY <1>0, <3>1, OpensType
      <3> QED
        BY <2>3, <2>5, <3>1, <3>2 DEF CtrlOpens, TypeOK, ssdp, web
    <2>6. CASE MonitorOpens
      <3>1. PICK n \in Numbers : Opens(n, "monitor") /\ mMonitorConn' = n
        BY <2>6 DEF MonitorOpens
      <3>2. table' \in [Numbers -> Holders]
        BY <1>0, <3>1, OpensType
      <3> QED
        BY <2>6, <3>1, <3>2 DEF MonitorOpens, TypeOK, ssdp, web, commands
    <2>7. CASE AttachFails
      <3>1. table' \in [Numbers -> Holders] /\ stray' \in BOOLEAN
        BY <2>7 DEF AttachFails, TypeOK, Holders
      <3> QED
        BY <2>2, <2>3, <2>7, <3>1 DEF AttachFails, NextTry, TypeOK, ssdp, web
    <2>8. CASE Configures
      <3>1. PICK late \in 0..MaxOwed : owed' \in [1..late -> BOOLEAN]
        BY <2>8 DEF Configures
      <3>2. owed' \in Seq(BOOLEAN) /\ Len(owed') <= MaxOwed
        BY <3>1, ServicesAssumption
      <3> QED
        BY <2>8, <3>2 DEF Configures, TypeOK, ssdp, web, wifi
    <2>9. CASE Disable
      <3>1. watchers' \in Seq({"ssdp", "web", "wifi"})
        BY <2>9, UnwatchedType DEF Disable
      <3> QED
        BY <2>9, <3>1 DEF Disable, TypeOK, ssdp, web, commands
    <2> QED
      BY <1>6, <2>1, <2>4, <2>5, <2>6, <2>7, <2>8, <2>9, <2>10, <2>11 DEF Wifi
  <1>7. CASE Command
    <2>1. owed' \in Seq(BOOLEAN) /\ Len(owed') <= MaxOwed /\ misled' \in BOOLEAN
      BY <1>7, CommandTypes
    <2>2. UNCHANGED <<table, watchers, ssdp, web, wifi, at, stray>>
      BY <1>7 DEF Command, CommandAnswered, CommandTimesOut, CommandFails,
                  SetWfdInfo, CommandStep
    <2> QED
      BY <2>1, <2>2 DEF TypeOK, ssdp, web, wifi
  <1>8. CASE OtherOpens
    <2>1. PICK n \in Numbers : Opens(n, "other")
      BY <1>8 DEF OtherOpens
    <2>2. table' \in [Numbers -> Holders]
      BY <1>0, <2>1, OpensType
    <2> QED
      BY <1>8, <2>2 DEF OtherOpens, TypeOK, ssdp, web, wifi, commands
  <1>9. CASE OtherCloses
    <2>1. table' \in [Numbers -> Holders]
      BY <1>9 DEF OtherCloses, TypeOK, Holders
    <2> QED
      BY <1>9, <2>1 DEF OtherCloses, TypeOK, ssdp, web, wifi, commands
  <1> QED
    BY <1>1, <1>2, <1>3, <1>4, <1>5, <1>6, <1>7, <1>8, <1>9 DEF Next

----------------------------------------------------------------------------
(* How far the operations have come *)

\* No operation begins while another one runs.
LEMMA InStepStep == ASSUME TypeOK, Watching, InStep, Next PROVE InStep'
  <1> USE DEF From
  <1>1. CASE Start
    <2>1. CASE SocketFails
      BY <2>1 DEF SocketFails, InStep, ssdp, web, wifi, commands
    <2>2. CASE SocketOpens
      BY <2>2 DEF SocketOpens, InStep, ssdp, web, wifi, commands
    <2>3. CASE ConfigureFails
      BY <2>3 DEF ConfigureFails, InStep, ssdp, web, wifi, commands
    <2>4. CASE Configured
      BY <2>4 DEF Configured, InStep, ssdp, web, wifi, commands
    <2>5. CASE WebSocketFails
      BY <2>5 DEF WebSocketFails, InStep, ssdp, web, wifi, commands
    <2>6. CASE WebSocketOpens
      BY <2>6 DEF WebSocketOpens, InStep, ssdp, web, wifi, commands
    <2>7. CASE WebBindFails
      BY <2>7 DEF WebBindFails, InStep, ssdp, web, wifi, commands
    <2>8. CASE WebListens
      BY <2>8 DEF WebListens, InStep, ssdp, web, wifi, commands
    <2>9. CASE Announce
      BY <2>9 DEF Announce, InStep, ssdp, web, wifi, commands
    <2> QED
      BY <1>1, <2>1, <2>2, <2>3, <2>4, <2>5, <2>6, <2>7, <2>8, <2>9 DEF Start
  <1>2. CASE Stop
    <2>1. CASE StopTimer
      BY <2>1 DEF StopTimer, InStep, ssdp, web, wifi, commands
    <2>2. CASE WebUnwatched
      BY <2>2 DEF WebUnwatched, InStep, ssdp, web, wifi, commands
    <2>3. CASE WebCloses
      BY <2>3 DEF WebCloses, InStep, ssdp, web, wifi, commands
    <2>4. CASE SsdpUnwatched
      BY <2>4 DEF SsdpUnwatched, InStep, ssdp, web, wifi, commands
    <2>5. CASE SayGoodbye
      BY <2>5 DEF SayGoodbye, InStep, ssdp, web, wifi, commands
    <2>6. CASE SsdpCloses
      BY <2>6 DEF SsdpCloses, InStep, ssdp, web, wifi, commands
    <2> QED
      BY <1>2, <2>1, <2>2, <2>3, <2>4, <2>5, <2>6 DEF Stop
  <1>3. CASE TimerExpires \/ AnswersSearch \/ Accepts \/ ClosesClient
    <2>1. CASE TimerExpires
      BY <2>1 DEF TimerExpires, InStep, ssdp, web, wifi, commands
    <2>2. CASE AnswersSearch
      BY <2>2 DEF AnswersSearch, Watching, InStep, ssdp, web, wifi, commands
    <2>3. CASE Accepts
      BY <2>3 DEF Accepts, InStep, ssdp, web, wifi, commands
    <2>4. CASE ClosesClient
      BY <2>4 DEF ClosesClient, InStep, ssdp, web, wifi, commands
    <2> QED
      BY <1>3, <2>1, <2>2, <2>3, <2>4
  <1>4. CASE Wifi
    <2>1. CASE Enable
      BY <2>1, ServicesAssumption DEF Enable, InStep, ssdp, web
    <2>2. CASE CtrlFails \/ MonitorFails \/ AttachFails
      BY <2>2 DEF CtrlFails, MonitorFails, AttachFails, NextTry, InStep, TypeOK,
                  ssdp, web
    <2>3. CASE CtrlOpens \/ MonitorOpens
      BY <2>3, ServicesAssumption
         DEF CtrlOpens, MonitorOpens, InStep, ssdp, web, commands
    <2>4. CASE Attached \/ Configures \/ Disable
      BY <2>4 DEF Attached, Configures, Disable, InStep, ssdp, web, wifi, commands
    <2> QED
      BY <1>4, <2>1, <2>2, <2>3, <2>4 DEF Wifi
  <1>5. CASE Command
    <2>1. at = "loop" /\ UNCHANGED <<table, watchers, ssdp, web, wifi, at, stray>>
      BY <1>5 DEF Command, CommandAnswered, CommandTimesOut, CommandFails,
                  SetWfdInfo, CommandStep
    <2> QED
      BY <2>1 DEF InStep, ssdp, web, wifi
  <1>6. CASE OtherOpens \/ OtherCloses
    BY <1>6 DEF OtherOpens, OtherCloses, InStep, ssdp, web, wifi, commands
  <1> QED
    BY <1>1, <1>2, <1>3, <1>4, <1>5, <1>6 DEF Next

----------------------------------------------------------------------------
(* Who is watched *)

\* addFdWatcher() of a watcher that is not watched.
LEMMA Watched ==
  ASSUME TypeOK, Once(watchers), NEW w \in {"ssdp", "web", "wifi"},
         w \notin ToSet(watchers), addFdWatcher(w)
  PROVE  Once(watchers)' /\ ToSet(watchers)' = ToSet(watchers) \cup {w}
  BY AddOnce DEF TypeOK, addFdWatcher

\* removeFdWatcher() of any.
LEMMA Unwatched ==
  ASSUME TypeOK, Once(watchers), NEW w \in {"ssdp", "web", "wifi"},
         removeFdWatcher(w)
  PROVE  Once(watchers)' /\ ToSet(watchers)' = ToSet(watchers) \ {w}
  BY RemoveOnce DEF TypeOK, removeFdWatcher

\* Watchers come and go with what they watch.
LEMMA WatchingStep ==
  ASSUME TypeOK, Once(watchers), Holding, Watching, InStep, Next
  PROVE  Once(watchers)' /\ Watching'
  <1> USE DEF From
  <1>0. ASSUME UNCHANGED watchers
        PROVE  Once(watchers)' /\ ToSet(watchers)' = ToSet(watchers)
    BY <1>0
  <1>1. CASE Start
    <2>1. CASE \/ SocketFails \/ SocketOpens \/ ConfigureFails \/ WebSocketFails
               \/ WebSocketOpens \/ WebBindFails \/ Announce
      <3>1. UNCHANGED watchers
        BY <2>1 DEF SocketFails, SocketOpens, ConfigureFails, WebSocketFails,
                    WebSocketOpens, WebBindFails, Announce
      <3>2. Watching'
        BY <1>0, <2>1, <3>1
           DEF SocketFails, SocketOpens, ConfigureFails, WebSocketFails,
               WebSocketOpens, WebBindFails, Announce, Watching, WebServes,
               InStep, ssdp, web, wifi
      <3> QED
        BY <1>0, <3>1, <3>2
    <2>2. CASE Configured
      <3>1. "ssdp" \notin ToSet(watchers)
        BY <2>2 DEF Configured, Watching, InStep
      <3>2. Once(watchers)' /\ ToSet(watchers)' = ToSet(watchers) \cup {"ssdp"}
        BY <2>2, <3>1, Watched DEF Configured
      <3> QED
        BY <2>2, <3>2 DEF Configured, Watching, WebServes, InStep, ssdp, web, wifi
    <2>3. CASE WebListens
      <3>1. "web" \notin ToSet(watchers)
        BY <2>3 DEF WebListens, Watching, WebServes, InStep
      <3>2. Once(watchers)' /\ ToSet(watchers)' = ToSet(watchers) \cup {"web"}
        BY <2>3, <3>1, Watched DEF WebListens
      <3>3. webSock # None /\ ~bindFailed
        BY <2>3 DEF WebListens, Holding, WebOpen, InStep
      <3> QED
        BY <2>3, <3>2, <3>3
           DEF WebListens, Watching, WebServes, InStep, ssdp, web, wifi
    <2> QED
      BY <1>1, <2>1, <2>2, <2>3 DEF Start
  <1>2. CASE Stop
    <2>1. CASE StopTimer \/ WebCloses \/ SayGoodbye \/ SsdpCloses
      <3>1. UNCHANGED watchers
        BY <2>1 DEF StopTimer, WebCloses, SayGoodbye, SsdpCloses
      <3>2. Watching'
        BY <1>0, <2>1, <3>1
           DEF StopTimer, WebCloses, SayGoodbye, SsdpCloses, Watching, WebServes,
               InStep, ssdp, web, wifi
      <3> QED
        BY <1>0, <3>1, <3>2
    <2>2. CASE WebUnwatched
      <3>1. Once(watchers)' /\ ToSet(watchers)' = ToSet(watchers) \ {"web"}
        BY <2>2, Unwatched DEF WebUnwatched
      <3> QED
        BY <2>2, <3>1 DEF WebUnwatched, Watching, WebServes, InStep, ssdp, web, wifi
    <2>3. CASE SsdpUnwatched
      <3>1. Once(watchers)' /\ ToSet(watchers)' = ToSet(watchers) \ {"ssdp"}
        BY <2>3, Unwatched DEF SsdpUnwatched
      <3> QED
        BY <2>3, <3>1 DEF SsdpUnwatched, Watching, WebServes, InStep, ssdp, web, wifi
    <2> QED
      BY <1>2, <2>1, <2>2, <2>3 DEF Stop
  <1>3. CASE TimerExpires \/ AnswersSearch \/ Accepts \/ ClosesClient
    <2>1. UNCHANGED watchers
      BY <1>3 DEF TimerExpires, AnswersSearch, Accepts, ClosesClient
    <2>2. Watching'
      BY <1>0, <1>3, <2>1
         DEF TimerExpires, AnswersSearch, Accepts, ClosesClient, Watching,
             WebServes, InStep, ssdp, web, wifi
    <2> QED
      BY <1>0, <2>1, <2>2
  <1>4. CASE Wifi
    <2>1. CASE Enable \/ CtrlOpens \/ MonitorOpens \/ Configures
      <3>1. UNCHANGED watchers
        BY <2>1 DEF Enable, CtrlOpens, MonitorOpens, Configures
      <3>2. Watching'
        BY <1>0, <2>1, <3>1
           DEF Enable, CtrlOpens, MonitorOpens, Configures, Watching, WebServes,
               ssdp, web, wifi
      <3> QED
        BY <1>0, <3>1, <3>2
    <2>2. CASE CtrlFails \/ MonitorFails \/ AttachFails
      <3>1. UNCHANGED watchers
        BY <2>2 DEF CtrlFails, MonitorFails, AttachFails, NextTry
      <3>2. Watching'
        BY <1>0, <2>2, <3>1
           DEF CtrlFails, MonitorFails, AttachFails, NextTry, Watching, WebServes,
               ssdp, web
      <3> QED
        BY <1>0, <3>1, <3>2
    <2>3. CASE Attached
      <3>1. "wifi" \notin ToSet(watchers)
        BY <2>3 DEF Attached, Watching, InStep
      <3>2. Once(watchers)' /\ ToSet(watchers)' = ToSet(watchers) \cup {"wifi"}
        BY <2>3, <3>1, Watched DEF Attached
      <3> QED
        BY <2>3, <3>2 DEF Attached, Watching, WebServes, ssdp, web
    <2>4. CASE Disable
      <3>1. Once(watchers)' /\ ToSet(watchers)' = ToSet(watchers) \ {"wifi"}
        BY <2>4, Unwatched DEF Disable
      <3> QED
        BY <2>4, <3>1 DEF Disable, Watching, WebServes, ssdp, web
    <2> QED
      BY <1>4, <2>1, <2>2, <2>3, <2>4 DEF Wifi
  <1>5. CASE Command \/ OtherOpens \/ OtherCloses
    <2>1. UNCHANGED <<watchers, ssdp, web, wifi, at>>
      BY <1>5 DEF Command, CommandAnswered, CommandTimesOut, CommandFails,
                  SetWfdInfo, CommandStep, OtherOpens, OtherCloses
    <2> QED
      BY <1>0, <2>1 DEF Watching, WebServes, ssdp, web, wifi
  <1> QED
    BY <1>1, <1>2, <1>3, <1>4, <1>5 DEF Next

----------------------------------------------------------------------------
(* Whose descriptors are open *)

\* open() takes a free number.
LEMMA OpensTable ==
  ASSUME TypeOK, NEW n \in Numbers, NEW h \in Holders, Opens(n, h)
  PROVE  /\ n # None /\ table[n] = "free"
         /\ \A m \in Numbers : table'[m] = IF m = n THEN h ELSE table[m]
  BY ServicesAssumption DEF TypeOK, Opens, Lowest

\* close() that is not astray frees the holder's own number, if any.
LEMMA ClosesTable ==
  ASSUME TypeOK, NEW c \in Numbers \cup {None}, NEW h, Closes(c, h), ~stray'
  PROVE  /\ c # None => table[c] \in {"free", h}
         /\ \A m \in Numbers : table'[m] = IF m = c THEN "free" ELSE table[m]
  <1>1. CASE c = None
    BY <1>1, ServicesAssumption DEF Closes
  <1>2. CASE c # None
    BY <1>2 DEF TypeOK, Closes
  <1> QED
    BY <1>1, <1>2

\* Every open() and close() is accounted for.
LEMMA HoldingStep ==
  ASSUME TypeOK, Holding, Watching, InStep, Next, ~stray'
  PROVE  Holding'
  <1> USE DEF From
  <1>0. /\ {mSock, webSock, clntSock, mCtrlConn, mMonitorConn}
             \subseteq Numbers \cup {None}
        /\ None \notin Numbers
        /\ \A h \in {"ssdp", "web", "client", "ctrl", "monitor", "other"} : h \in Holders
    BY ServicesAssumption DEF TypeOK, Holders
  <1>1. CASE Start
    <2>1. CASE SocketFails
      BY <2>1
         DEF SocketFails, Holding, SsdpOpen, WebOpen, WebServes, InStep, ssdp, web,
             wifi, commands
    <2>2. CASE SocketOpens
      <3>1. PICK n \in Numbers : Opens(n, "ssdp") /\ mSock' = n
        BY <2>2 DEF SocketOpens
      <3>2. /\ n # None /\ table[n] = "free"
            /\ \A m \in Numbers : table'[m] = IF m = n THEN "ssdp" ELSE table[m]
        BY <1>0, <3>1, OpensTable
      <3> QED
        BY <1>0, <2>2, <3>1, <3>2
           DEF SocketOpens, Holding, SsdpOpen, WebOpen, WebServes, InStep, ssdp,
               web, wifi, commands
    <2>3. CASE ConfigureFails
      <3>1. /\ mSock # None => table[mSock] \in {"free", "ssdp"}
            /\ \A m \in Numbers : table'[m] = IF m = mSock THEN "free" ELSE table[m]
        BY <2>3, ClosesTable DEF ConfigureFails, TypeOK
      <3> QED
        BY <1>0, <2>3, <3>1
           DEF ConfigureFails, Holding, SsdpOpen, WebOpen, WebServes, InStep, ssdp,
               web, wifi, commands
    <2>4. CASE Configured
      BY <2>4
         DEF Configured, Holding, SsdpOpen, WebOpen, WebServes, InStep, ssdp, web,
             wifi, commands
    <2>5. CASE WebSocketFails
      BY <2>5
         DEF WebSocketFails, Holding, SsdpOpen, WebOpen, WebServes, InStep, ssdp,
             web, wifi, commands
    <2>6. CASE WebSocketOpens
      <3>1. PICK n \in Numbers : Opens(n, "web") /\ webSock' = n
        BY <2>6 DEF WebSocketOpens
      <3>2. /\ n # None /\ table[n] = "free"
            /\ \A m \in Numbers : table'[m] = IF m = n THEN "web" ELSE table[m]
        BY <1>0, <3>1, OpensTable
      <3> QED
        BY <1>0, <2>6, <3>1, <3>2
           DEF WebSocketOpens, Holding, SsdpOpen, WebOpen, WebServes, InStep, ssdp,
               web, wifi, commands
    <2>7. CASE WebBindFails
      <3>1. /\ webSock # None => table[webSock] \in {"free", "web"}
            /\ \A m \in Numbers : table'[m] = IF m = webSock THEN "free" ELSE table[m]
        BY <2>7, ClosesTable DEF WebBindFails, TypeOK
      <3> QED
        BY <1>0, <2>7, <3>1
           DEF WebBindFails, Holding, SsdpOpen, WebOpen, WebServes, InStep, ssdp,
               web, wifi, commands
    <2>8. CASE WebListens
      BY <2>8
         DEF WebListens, Holding, SsdpOpen, WebOpen, WebServes, InStep, ssdp, web,
             wifi, commands
    <2>9. CASE Announce
      BY <2>9
         DEF Announce, Holding, SsdpOpen, WebOpen, WebServes, InStep, ssdp, web,
             wifi, commands
    <2> QED
      BY <1>1, <2>1, <2>2, <2>3, <2>4, <2>5, <2>6, <2>7, <2>8, <2>9 DEF Start
  <1>2. CASE Stop
    <2>1. CASE StopTimer
      BY <2>1
         DEF StopTimer, Holding, SsdpOpen, WebOpen, WebServes, InStep, ssdp, web,
             wifi, commands
    <2>2. CASE WebUnwatched
      BY <2>2
         DEF WebUnwatched, Holding, SsdpOpen, WebOpen, WebServes, InStep, ssdp,
             web, wifi, commands
    <2>3. CASE WebCloses
      <3>1. /\ webSock # None => table[webSock] \in {"free", "web"}
            /\ \A m \in Numbers : table'[m] = IF m = webSock THEN "free" ELSE table[m]
        BY <2>3, ClosesTable DEF WebCloses, TypeOK
      <3> QED
        BY <1>0, <2>3, <3>1
           DEF WebCloses, Holding, SsdpOpen, WebOpen, WebServes, InStep, ssdp, web,
               wifi, commands
    <2>4. CASE SsdpUnwatched
      BY <2>4
         DEF SsdpUnwatched, Holding, SsdpOpen, WebOpen, WebServes, InStep, ssdp,
             web, wifi, commands
    <2>5. CASE SayGoodbye
      BY <2>5
         DEF SayGoodbye, Holding, SsdpOpen, WebOpen, WebServes, InStep, ssdp, web,
             wifi, commands
    <2>6. CASE SsdpCloses
      <3>1. /\ mSock # None => table[mSock] \in {"free", "ssdp"}
            /\ \A m \in Numbers : table'[m] = IF m = mSock THEN "free" ELSE table[m]
        BY <2>6, ClosesTable DEF SsdpCloses, TypeOK
      <3> QED
        BY <1>0, <2>6, <3>1
           DEF SsdpCloses, Holding, SsdpOpen, WebOpen, WebServes, InStep, ssdp,
               web, wifi, commands
    <2> QED
      BY <1>2, <2>1, <2>2, <2>3, <2>4, <2>5, <2>6 DEF Stop
  <1>3. CASE TimerExpires
    BY <1>3
       DEF TimerExpires, Holding, SsdpOpen, WebOpen, WebServes, InStep, ssdp, web,
           wifi, commands
  <1>4. CASE AnswersSearch
    BY <1>4
       DEF AnswersSearch, Holding, SsdpOpen, WebOpen, WebServes, InStep, ssdp, web,
           wifi, commands
  <1>5. CASE Accepts
    <2>1. PICK n \in Numbers : Opens(n, "client") /\ clntSock' = n
      BY <1>5 DEF Accepts
    <2>2. /\ n # None /\ table[n] = "free"
          /\ \A m \in Numbers : table'[m] = IF m = n THEN "client" ELSE table[m]
      BY <1>0, <2>1, OpensTable
    <2> QED
      BY <1>0, <1>5, <2>1, <2>2
         DEF Accepts, Holding, SsdpOpen, WebOpen, WebServes, InStep, ssdp, web,
             wifi, commands
  <1>6. CASE ClosesClient
    <2>1. /\ clntSock # None => table[clntSock] \in {"free", "client"}
          /\ \A m \in Numbers : table'[m] = IF m = clntSock THEN "free" ELSE table[m]
      BY <1>6, ClosesTable DEF ClosesClient, TypeOK
    <2> QED
      BY <1>0, <1>6, <2>1
         DEF ClosesClient, Holding, SsdpOpen, WebOpen, WebServes, InStep, ssdp,
             web, wifi, commands
  <1>7. CASE Wifi
    <2>1. CASE Enable
      BY <2>1
         DEF Enable, Holding, SsdpOpen, WebOpen, WebServes, InStep, ssdp, web,
             wifi, commands
    <2>2. CASE CtrlFails
      BY <2>2
         DEF CtrlFails, NextTry, Holding, SsdpOpen, WebOpen, WebServes, InStep,
             ssdp, web, wifi, commands
    <2>3. CASE CtrlOpens
      <3>1. PICK n \in Numbers : Opens(n, "ctrl") /\ mCtrlConn' = n
        BY <2>3 DEF CtrlOpens
      <3>2. /\ n # None /\ table[n] = "free"
            /\ \A m \in Numbers : table'[m] = IF m = n THEN "ctrl" ELSE table[m]
        BY <1>0, <3>1, OpensTable
      <3> QED
        BY <1>0, <2>3, <3>1, <3>2
           DEF CtrlOpens, Holding, SsdpOpen, WebOpen, WebServes, InStep, ssdp, web,
               wifi, commands
    <2>4. CASE MonitorFails
      BY <2>4
         DEF MonitorFails, NextTry, Holding, SsdpOpen, WebOpen, WebServes, InStep,
             ssdp, web, wifi, commands
    <2>5. CASE MonitorOpens
      <3>1. PICK n \in Numbers : Opens(n, "monitor") /\ mMonitorConn' = n
        BY <2>5 DEF MonitorOpens
      <3>2. /\ n # None /\ table[n] = "free"
            /\ \A m \in Numbers : table'[m] = IF m = n THEN "monitor" ELSE table[m]
        BY <1>0, <3>1, OpensTable
      <3> QED
        BY <1>0, <2>5, <3>1, <3>2
           DEF MonitorOpens, Holding, SsdpOpen, WebOpen, WebServes, InStep, ssdp,
               web, wifi, commands
    <2>6. CASE AttachFails
      <3>1. /\ mCtrlConn \in Numbers /\ table[mCtrlConn] = "ctrl"
            /\ mMonitorConn \in Numbers /\ table[mMonitorConn] = "monitor"
        BY <1>0, <2>6 DEF AttachFails, Holding, InStep
      <3>2. \A m \in Numbers :
              table'[m] = IF m \in {mMonitorConn, mCtrlConn} THEN "free" ELSE table[m]
        BY <2>6, <3>1 DEF AttachFails, TypeOK
      <3>3. /\ at = "attach" /\ at' \in {"ctrl", "loop"}
            /\ UNCHANGED <<mSock, webSock, clntSock, started, bindFailed>>
            /\ mCtrlConn' = None /\ mMonitorConn' = None
        BY <2>6 DEF AttachFails, NextTry, ssdp, web
      <3>4. SsdpOpen' = SsdpOpen /\ WebServes' = WebServes /\ WebOpen' = WebOpen
        BY <3>3 DEF SsdpOpen, WebOpen, WebServes
      <3>5. \A m \in Numbers : \A h \in {"ssdp", "web", "client"} :
              table'[m] = h <=> table[m] = h
        BY <3>1, <3>2
      <3> QED
        BY <3>3, <3>4, <3>5 DEF Holding
    <2>7. CASE Attached
      BY <2>7
         DEF Attached, Holding, SsdpOpen, WebOpen, WebServes, InStep, ssdp, web,
             wifi, commands
    <2>8. CASE Configures
      BY <2>8
         DEF Configures, Holding, SsdpOpen, WebOpen, WebServes, InStep, ssdp, web,
             wifi, commands
    <2>9. CASE Disable
      BY <2>9
         DEF Disable, Holding, SsdpOpen, WebOpen, WebServes, InStep, ssdp, web,
             wifi, commands
    <2> QED
      BY <1>7, <2>1, <2>2, <2>3, <2>4, <2>5, <2>6, <2>7, <2>8, <2>9 DEF Wifi
  <1>8. CASE Command
    <2>1. UNCHANGED <<table, watchers, ssdp, web, wifi, at, stray>>
      BY <1>8 DEF Command, CommandAnswered, CommandTimesOut, CommandFails,
                  SetWfdInfo, CommandStep
    <2> QED
      BY <2>1 DEF Holding, SsdpOpen, WebOpen, WebServes, ssdp, web, wifi
  <1>9. CASE OtherOpens
    <2>1. PICK n \in Numbers : Opens(n, "other")
      BY <1>9 DEF OtherOpens
    <2>2. /\ n # None /\ table[n] = "free"
          /\ \A m \in Numbers : table'[m] = IF m = n THEN "other" ELSE table[m]
      BY <1>0, <2>1, OpensTable
    <2> QED
      BY <1>0, <1>9, <2>2
         DEF OtherOpens, Holding, SsdpOpen, WebOpen, WebServes, ssdp, web, wifi
  <1>10. CASE OtherCloses
    <2>1. PICK n \in Numbers : table[n] = "other"
                               /\ table' = [table EXCEPT ![n] = "free"]
      BY <1>10 DEF OtherCloses
    <2>2. \A m \in Numbers : table'[m] = IF m = n THEN "free" ELSE table[m]
      BY <2>1 DEF TypeOK
    <2> QED
      BY <1>0, <1>10, <2>1, <2>2
         DEF OtherCloses, Holding, SsdpOpen, WebOpen, WebServes, ssdp, web, wifi
  <1> QED
    BY <1>1, <1>2, <1>3, <1>4, <1>5, <1>6, <1>7, <1>8, <1>9, <1>10 DEF Next

----------------------------------------------------------------------------
(* The theorems *)

\* What a command may be misled by is still owed when the next one is sent.
LEMMA HonestStep ==
  ASSUME TypeOK, InStep, misled => owed # <<>>, Next
  PROVE  misled' => owed' # <<>>
  <1>1. CASE Command
    BY <1>1, CommandHonest
  <1>2. CASE Start \/ Stop \/ TimerExpires \/ AnswersSearch \/ Accepts
             \/ ClosesClient \/ OtherOpens \/ OtherCloses
    <2>1. UNCHANGED commands
      BY <1>2 DEF Start, SocketFails, SocketOpens, ConfigureFails, Configured,
                  WebSocketFails, WebSocketOpens, WebBindFails, WebListens,
                  Announce, Stop, StopTimer, WebUnwatched, WebCloses,
                  SsdpUnwatched, SayGoodbye, SsdpCloses, TimerExpires,
                  AnswersSearch, Accepts, ClosesClient, OtherOpens, OtherCloses
    <2> QED
      BY <2>1 DEF commands
  <1>3. CASE Wifi
    <2>1. CASE Enable \/ Configures
      BY <2>1 DEF Enable, Configures
    <2>2. CASE CtrlFails \/ CtrlOpens \/ MonitorFails \/ AttachFails
      <3>1. ~misled /\ misled' = misled
        BY <2>2 DEF CtrlFails, CtrlOpens, MonitorFails, AttachFails, NextTry,
                    InStep, From
      <3> QED
        BY <3>1
    <2>3. CASE MonitorOpens \/ Attached \/ Disable
      BY <2>3 DEF MonitorOpens, Attached, Disable, commands
    <2> QED
      BY <1>3, <2>1, <2>2, <2>3 DEF Wifi
  <1> QED
    BY <1>1, <1>2, <1>3 DEF Next

\* The inductive step: until a close() goes wrong, everything is accounted for.
LEMMA CoreStep == ASSUME Core, Next, ~stray' PROVE Core'
  <1>1. TypeOK' /\ InStep' /\ Holding'
    BY TypeStep, InStepStep, HoldingStep DEF Core
  <1>2. Once(watchers)' /\ Watching'
    BY WatchingStep DEF Core
  <1>3. misled' => owed' # <<>>
    BY HonestStep DEF Core
  <1> QED
    BY <1>1, <1>2, <1>3 DEF Core

\* The parts of the invariant hold of every state, the accounts until a close()
\* goes wrong.
LEMMA CoreInvariant == Spec => [](TypeOK /\ (~stray => Core))
  <1>1. Init => TypeOK /\ (~stray => Core)
    BY InitCore DEF Core
  <1>2. TypeOK /\ (~stray => Core) /\ [Next]_vars
          => (TypeOK /\ (~stray => Core))'
    <2> SUFFICES ASSUME TypeOK, ~stray => Core, [Next]_vars
                 PROVE  TypeOK' /\ (~stray' => Core')
      OBVIOUS
    <2>1. CASE Next
      <3>1. Core
        BY <2>1 DEF Next
      <3> QED
        BY <2>1, <3>1, CoreStep, TypeStep DEF Core
    <2>2. CASE UNCHANGED vars
      BY <2>2 DEF vars, ssdp, web, wifi, commands, Core, TypeOK, Holding, Watching,
                  InStep, SsdpOpen, WebServes, WebOpen, Once
    <2> QED
      BY <2>1, <2>2
  <1> QED
    BY <1>1, <1>2, PTL DEF Spec

\* Whatever fails half-way in start(), stop(), enable() and disable(), and
\* whatever other threads open and close: SSDP, its web server and the wifi
\* manager watch only what is open and theirs, a stopped SSDP leaves nothing
\* behind, and a command is misled only by an answer that was owed.
THEOREM ServicesInvariant == Spec => []ServicesInv
  <1>1. TypeOK /\ (~stray => Core) => ServicesInv
    BY CoreSuffices DEF Core, ServicesInv
  <1> QED
    BY <1>1, CoreInvariant, PTL

\* Only the stop() after a web server that could not bind or listen closes a
\* descriptor that may be somebody else's.
THEOREM OnlyAfterBindFailed == Spec => []StrayOnlyAfterBindFailed
  <1>1. Init => StrayOnlyAfterBindFailed
    BY DEF Init, StrayOnlyAfterBindFailed
  <1>2. /\ TypeOK /\ (~stray => Core)
        /\ StrayOnlyAfterBindFailed /\ [Next]_vars
        => StrayOnlyAfterBindFailed'
    <2> SUFFICES ASSUME TypeOK, ~stray => Core, StrayOnlyAfterBindFailed,
                        [Next]_vars, stray'
                 PROVE  bindFailed'
      BY DEF StrayOnlyAfterBindFailed
    <2>1. CASE UNCHANGED vars
      BY <2>1 DEF vars, web, StrayOnlyAfterBindFailed
    <2>2. CASE Next
      <3> USE DEF From
      <3>1. ~stray /\ TypeOK /\ Holding /\ InStep
        BY <2>2 DEF Next, Core
      <3>2. CASE ConfigureFails \/ SsdpCloses
        <4>1. mSock # None /\ table[mSock] = "ssdp" /\ Closes(mSock, "ssdp")
          BY <3>1, <3>2 DEF ConfigureFails, SsdpCloses, Holding, SsdpOpen, TypeOK
        <4> QED
          BY <3>1, <4>1 DEF Closes
      <3>3. CASE WebBindFails
        BY <3>3 DEF WebBindFails
      <3>4. CASE WebCloses
        <4>1. Closes(webSock, "web") /\ bindFailed' = bindFailed /\ webSock # None
          BY <3>1, <3>4 DEF WebCloses, Closes, web
        <4>2. ~bindFailed => table[webSock] = "web"
          BY <3>1, <3>4, <4>1 DEF WebCloses, Holding, WebOpen, WebServes, TypeOK
        <4>3. CASE bindFailed
          BY <4>1, <4>3
        <4>4. CASE ~bindFailed
          BY <3>1, <4>1, <4>2, <4>4 DEF Closes
        <4> QED
          BY <4>3, <4>4
      <3>5. CASE ClosesClient
        <4>1. clntSock # None /\ table[clntSock] = "client"
              /\ Closes(clntSock, "client")
          BY <3>1, <3>5 DEF ClosesClient, Holding, TypeOK
        <4> QED
          BY <3>1, <4>1 DEF Closes
      <3>6. CASE AttachFails
        <4>1. /\ mCtrlConn # None /\ table[mCtrlConn] = "ctrl"
              /\ mMonitorConn # None /\ table[mMonitorConn] = "monitor"
          BY <3>1, <3>6 DEF AttachFails, Holding, InStep
        <4> QED
          BY <3>1, <3>6, <4>1 DEF AttachFails
      <3>7. CASE \/ SocketFails \/ SocketOpens \/ Configured \/ WebSocketFails
                 \/ WebSocketOpens \/ WebListens \/ Announce \/ StopTimer
                 \/ WebUnwatched \/ SsdpUnwatched \/ SayGoodbye \/ TimerExpires
                 \/ AnswersSearch \/ Accepts \/ OtherOpens \/ OtherCloses
        BY <3>1, <3>7
           DEF SocketFails, SocketOpens, Configured, WebSocketFails,
               WebSocketOpens, WebListens, Announce, StopTimer, WebUnwatched,
               SsdpUnwatched, SayGoodbye, TimerExpires, AnswersSearch, Accepts,
               OtherOpens, OtherCloses
      <3>8. CASE \/ Enable \/ CtrlFails \/ CtrlOpens \/ MonitorFails
                 \/ MonitorOpens \/ Attached \/ Configures \/ Disable \/ Command
        BY <3>1, <3>8
           DEF Enable, CtrlFails, CtrlOpens, MonitorFails, MonitorOpens, Attached,
               Configures, Disable, Command, CommandAnswered, CommandTimesOut,
               CommandFails, SetWfdInfo, CommandStep
      <3> QED
        BY <2>2, <3>2, <3>3, <3>4, <3>5, <3>6, <3>7, <3>8
           DEF Next, Start, Stop, Wifi
    <2> QED
      BY <2>1, <2>2
  <1> QED
    BY <1>1, <1>2, CoreInvariant, PTL DEF Spec
=============================================================================
