-------------------------- MODULE ContainerProofs --------------------------
(***************************************************************************)
(* What the requests of any number of containers, of any messages and      *)
(* widgets, keep of the pipe, the screen and the listeners' callbacks.     *)
(***************************************************************************)
EXTENDS Container, Integers, SequenceTheorems, WellFoundedInduction, TLAPS

----------------------------------------------------------------------------
(* Induction, and sequences of sequences *)

\* The order of the natural numbers is well founded.
LEMMA LessThan ==
  \E R : IsWellFoundedOn(R, Nat) /\ \A k, m \in Nat : k < m => <<k, m>> \in R
  <1>1. IsWellFoundedOn(OpToRel(<, Nat), Nat)
    BY NatLessThanWellFounded
  <1>2. \A k, m \in Nat : k < m => <<k, m>> \in OpToRel(<, Nat)
    BY DEF OpToRel
  <1> QED
    BY <1>1, <1>2

\* A set of natural numbers that is not empty has a least element.
LEMMA LeastElement ==
  ASSUME NEW T \in SUBSET Nat, T # {}
  PROVE  \E m \in T : \A k \in T : m <= k
  <1>1. PICK R : /\ IsWellFoundedOn(R, Nat)
                 /\ \A k, m \in Nat : k < m => <<k, m>> \in R
    BY LessThan
  <1>2. T \subseteq Nat
    OBVIOUS
  <1>6. IsWellFoundedOn(R, Nat)
    BY <1>1
  <1>3. PICK m \in T : \A k \in T : ~(<<k, m>> \in R)
    BY <1>6, <1>2, WFMin, Zenon
  <1>4. \A k \in T : ~(k < m)
    BY <1>1, <1>2, <1>3, Zenon
  <1>5. \A k \in T : m <= k
    BY <1>2, <1>4
  <1> QED
    BY <1>5

\* Induction, for a set instead of a predicate.
LEMMA Induction ==
  ASSUME NEW P \in SUBSET Nat, 0 \in P, \A n \in P : n + 1 \in P
  PROVE  P = Nat
  <1> SUFFICES ASSUME Nat \ P # {} PROVE FALSE
    OBVIOUS
  <1>1. PICK m \in Nat \ P : \A k \in Nat \ P : m <= k
    BY LeastElement
  <1>2. m # 0 /\ m - 1 \in P
    BY <1>1
  <1> QED
    BY <1>1, <1>2

\* The prefixes of a sequence of sequences can be laid end to end one after
\* the other.
LEMMA PrefixExists ==
  ASSUME NEW D, NEW ss \in Seq(Seq(D)), NEW N \in Nat, N <= Len(ss)
  PROVE  \E f \in [1..N -> Seq(D)] :
           /\ N > 0 => f[1] = ss[1]
           /\ \A i \in 1..N : i + 1 <= N => f[i+1] = f[i] \o ss[i+1]
  <1> DEFINE Is(f, n) == /\ n > 0 => f[1] = ss[1]
                         /\ \A i \in 1..n : i + 1 <= n => f[i+1] = f[i] \o ss[i+1]
             P == {n \in Nat : n <= Len(ss) => \E f \in [1..n -> Seq(D)] : Is(f, n)}
  <1>1. 0 \in P
    <2> DEFINE f == [i \in 1..0 |-> <<>>]
    <2>1. f \in [1..0 -> Seq(D)] /\ Is(f, 0)
      OBVIOUS
    <2> QED
      BY <2>1
  <1>2. ASSUME NEW n \in P PROVE n + 1 \in P
    <2> SUFFICES ASSUME n + 1 <= Len(ss)
                 PROVE \E f \in [1..n+1 -> Seq(D)] : Is(f, n+1)
      <3> HIDE DEF Is
      <3> QED
        OBVIOUS
    <2>0. n \in Nat /\ n <= Len(ss)
      BY LenProperties
    <2>1. PICK f \in [1..n -> Seq(D)] : Is(f, n)
      BY <2>0
    <2>2. ss[n+1] \in Seq(D)
      BY <2>0, ElementOfSeq
    <2> DEFINE g == [i \in 1..n+1 |-> IF i <= n THEN f[i]
                                      ELSE IF n = 0 THEN ss[1] ELSE f[n] \o ss[n+1]]
    <2>3. g \in [1..n+1 -> Seq(D)]
      BY <2>2, <2>0, ConcatProperties
    <2>4. n + 1 > 0 => g[1] = ss[1]
      BY <2>1, <2>0
    <2>5. ASSUME NEW i \in 1..n+1, i + 1 <= n + 1 PROVE g[i+1] = g[i] \o ss[i+1]
      <3>0. i \in 1..n /\ g[i] = f[i] /\ i + 1 \in 1..n+1
        BY <2>5, <2>0
      <3>1. CASE i = n
        BY <3>0, <3>1, <2>0
      <3>2. CASE i # n
        <4>1. i + 1 <= n /\ g[i+1] = f[i+1]
          BY <3>0, <3>2, <2>0
        <4> QED
          BY <3>0, <4>1, <2>1
      <3> QED
        BY <3>1, <3>2
    <2> QED
      BY <2>3, <2>4, <2>5
  <1>3. P = Nat
    <2> HIDE DEF P
    <2>1. P \in SUBSET Nat
      BY DEF P
    <2> QED
      BY <1>1, <1>2, <2>1, Induction
  <1> QED
    BY <1>3

\* FlattenSeq() is the last of them.
LEMMA FlattenIs ==
  ASSUME NEW D, NEW ss \in Seq(Seq(D)), ss # <<>>
  PROVE  \E f \in [1..Len(ss) -> Seq(D)] :
           /\ FlattenSeq(ss) = f[Len(ss)]
           /\ f[1] = ss[1]
           /\ \A i \in 1..Len(ss) : i + 1 <= Len(ss) => f[i+1] = f[i] \o ss[i+1]
  <1> DEFINE N == Len(ss)
             Flat(f) == f = [i \in 1..N |-> IF i = 1 THEN ss[i] ELSE f[i-1] \o ss[i]]
             h == CHOOSE f : Flat(f)
  <1>1. N \in Nat /\ N # 0
    BY EmptySeq
  <1>2. PICK g \in [1..N -> Seq(D)] :
           /\ N > 0 => g[1] = ss[1]
           /\ \A i \in 1..N : i + 1 <= N => g[i+1] = g[i] \o ss[i+1]
    <2>1. N \in Nat /\ N <= Len(ss)
      BY <1>1
    <2> QED
      BY <2>1, PrefixExists, Zenon
  <1>3. \A i \in 1..N : g[i] = IF i = 1 THEN ss[i] ELSE g[i-1] \o ss[i]
    <2> TAKE i \in 1..N
    <2>1. CASE i = 1
      BY <1>2, <2>1, <1>1
    <2>2. CASE i # 1
      <3>1. (i-1) \in 1..N /\ (i-1) + 1 = i /\ i <= N
        BY <2>2, <1>1
      <3> QED
        BY <1>2, <3>1, <2>2
    <2> QED
      BY <2>1, <2>2
  <1>4. Flat(g)
    BY <1>3
  <1>5. Flat(h)
    <2> HIDE DEF Flat
    <2> QED
      BY <1>4, Zenon
  <1>6. FlattenSeq(ss) = h[N]
    BY <1>1 DEF FlattenSeq
  <1> HIDE DEF h
  <1>7. \A i \in 1..N : h[i] = IF i = 1 THEN ss[i] ELSE h[i-1] \o ss[i]
    BY <1>5, Zenon
  <1> HIDE DEF N
  <1>8. h = g
    <2> DEFINE P == {n \in Nat : n \in 1..N => h[n] = g[n]}
    <2>1. 0 \in P
      OBVIOUS
    <2>2. ASSUME NEW n \in P PROVE n + 1 \in P
      <3> SUFFICES ASSUME n + 1 \in 1..N PROVE h[n+1] = g[n+1]
        OBVIOUS
      <3>1. CASE n = 0
        <4>1. 1 \in 1..N
          BY <1>1
        <4>2. h[1] = ss[1] /\ g[1] = ss[1]
          BY <4>1, <1>3, <1>7, Zenon
        <4> QED
          BY <3>1, <4>2
      <3>2. CASE n # 0
        <4>1. n \in 1..N /\ n + 1 # 1 /\ (n + 1) - 1 = n
          BY <3>2, <1>1
        <4>2. h[n+1] = h[n] \o ss[n+1] /\ g[n+1] = g[n] \o ss[n+1]
          BY <4>1, <1>3, <1>7, Zenon
        <4> QED
          BY <4>1, <4>2
      <3> QED
        BY <3>1, <3>2
    <2>3. P = Nat
      <3>1. P \in SUBSET Nat
        BY DEF P
      <3> HIDE DEF P
      <3> QED
        BY <2>1, <2>2, <3>1, Induction
    <2>4. h = [i \in 1..N |-> h[i]]
      BY <1>5
    <2>5. \A i \in 1..N : h[i] = g[i]
      BY <2>3
    <2> QED
      BY <2>4, <2>5
  <1> QED
    <2>1. g[1] = ss[1]
      BY <1>1, <1>2
    <2>2. FlattenSeq(ss) = g[N]
      BY <1>6, <1>8
    <2> QED
      BY <1>2, <2>1, <2>2, Zenon DEF N

\* One more sequence comes to lie at the end.
LEMMA FlattenAppend ==
  ASSUME NEW D, NEW ss \in Seq(Seq(D)), NEW x \in Seq(D)
  PROVE  /\ FlattenSeq(ss) \in Seq(D)
         /\ FlattenSeq(Append(ss, x)) = FlattenSeq(ss) \o x
  <1> DEFINE n == Len(ss)  tt == Append(ss, x)
  <1>1. /\ n \in Nat /\ tt \in Seq(Seq(D)) /\ tt # <<>> /\ Len(tt) = n + 1 /\ tt[n+1] = x
        /\ \A i \in 1..n : tt[i] = ss[i]
    BY AppendProperties, LenProperties
  <1>2. PICK g \in [1..Len(tt) -> Seq(D)] :
           /\ FlattenSeq(tt) = g[Len(tt)]
           /\ g[1] = tt[1]
           /\ \A i \in 1..Len(tt) : i + 1 <= Len(tt) => g[i+1] = g[i] \o tt[i+1]
    <2> HIDE DEF tt
    <2> QED
      BY <1>1, FlattenIs
  <1>3. CASE ss = <<>>
    <2>1. FlattenSeq(ss) = <<>> /\ n = 0
      BY <1>3 DEF FlattenSeq
    <2> QED
      BY <1>1, <1>2, <2>1, ConcatEmptySeq
  <1>4. CASE ss # <<>>
    <2>1. PICK f \in [1..n -> Seq(D)] :
           /\ FlattenSeq(ss) = f[n]
           /\ f[1] = ss[1]
           /\ \A i \in 1..n : i + 1 <= n => f[i+1] = f[i] \o ss[i+1]
      BY <1>4, FlattenIs
    <2> HIDE DEF tt, n
    <2>2. n > 0
      BY <1>4, EmptySeq DEF n
    <2>3. f[n] = g[n]
      <3> DEFINE P == {k \in Nat : k \in 1..n => f[k] = g[k]}
      <3>1. 0 \in P
        OBVIOUS
      <3>2. ASSUME NEW k \in P PROVE k + 1 \in P
        <4> SUFFICES ASSUME k + 1 \in 1..n PROVE f[k+1] = g[k+1]
          OBVIOUS
        <4>1. CASE k = 0
          BY <4>1, <1>1, <1>2, <2>1
        <4>2. CASE k # 0
          <5>1. k \in 1..n /\ k \in 1..Len(tt) /\ k + 1 <= n /\ k + 1 <= Len(tt)
            BY <4>2, <1>1
          <5>2. f[k+1] = f[k] \o ss[k+1]
            BY <5>1, <2>1, Zenon
          <5>3. g[k+1] = g[k] \o tt[k+1]
            BY <5>1, <1>2, Zenon
          <5> QED
            BY <5>1, <5>2, <5>3, <1>1
        <4> QED
          BY <4>1, <4>2
      <3>3. P = Nat
        <4>1. P \in SUBSET Nat
          BY DEF P
        <4> HIDE DEF P
        <4> QED
          BY <3>1, <3>2, <4>1, Induction
      <3>4. n \in Nat /\ n \in 1..n
        BY <2>2, <1>1
      <3>5. n \in P
        <4> HIDE DEF P
        <4> QED
          BY <3>3, <3>4
      <3> QED
        BY <3>4, <3>5
    <2>4. g[n+1] = g[n] \o tt[n+1]
      <3>1. n \in 1..Len(tt) /\ n + 1 <= Len(tt)
        BY <1>1, <2>2
      <3> QED
        BY <3>1, <1>2, Zenon
    <2>5. f[n] \in Seq(D)
      BY <2>1, <2>2, <1>1
    <2> QED
      BY <1>1, <1>2, <2>1, <2>3, <2>4, <2>5 DEF tt
  <1> QED
    BY <1>3, <1>4

\* The elements of the whole are those of its parts.
LEMMA FlattenType ==
  ASSUME NEW D, NEW ss \in Seq(Seq(D)) PROVE FlattenSeq(ss) \in Seq(D)
  <1>1. <<>> \in Seq(D)
    BY EmptySeq
  <1> QED
    BY <1>1, FlattenAppend

\* The order in which three sequences are put together does not matter.
LEMMA Associative ==
  ASSUME NEW D PROVE \A s, t, u \in Seq(D) : (s \o t) \o u = s \o (t \o u)
  <1> TAKE s, t, u \in Seq(D)
  <1>1. (s \o t) \o u \in Seq(D) /\ s \o (t \o u) \in Seq(D)
    BY ConcatProperties
  <1> QED
    BY ConcatAssociative

\* The first sequence lies at the beginning.
LEMMA FlattenHead ==
  ASSUME NEW D
  PROVE  \A ss \in Seq(Seq(D)) :
           ss # <<>> => FlattenSeq(ss) = Head(ss) \o FlattenSeq(Tail(ss))
  <1>0. \A s, t, u \in Seq(D) : (s \o t) \o u = s \o (t \o u)
    BY Associative
  <1> DEFINE P == {n \in Nat : \A s \in Seq(Seq(D)) :
                       Len(s) = n + 1 => FlattenSeq(s) = Head(s) \o FlattenSeq(Tail(s))}
  <1>1. 0 \in P
    <2> SUFFICES ASSUME NEW s \in Seq(Seq(D)), Len(s) = 1
                 PROVE  FlattenSeq(s) = Head(s) \o FlattenSeq(Tail(s))
      OBVIOUS
    <2>0. 0 # 1 /\ Len(<<>>) = 0
      BY EmptySeq
    <2>1. s # <<>>
      BY <2>0, Zenon
    <2>2. PICK t \in Seq(Seq(D)), x \in Seq(D) : s = Append(t, x)
      BY <2>1, SequenceEmptyOrAppend
    <2>3. t = <<>>
      BY <2>2, AppendProperties, EmptySeq
    <2>4. Head(s) = x /\ Tail(s) = <<>>
      BY <2>2, <2>3, HeadTailAppend
    <2>5. FlattenSeq(<<>>) = <<>>
      BY DEF FlattenSeq
    <2>6. FlattenSeq(s) = <<>> \o x
      BY <2>2, <2>3, <2>5, FlattenAppend, Zenon
    <2> QED
      BY <2>2, <2>4, <2>5, <2>6, ConcatEmptySeq
  <1>2. ASSUME NEW n \in P PROVE n + 1 \in P
    <2> SUFFICES ASSUME NEW s \in Seq(Seq(D)), Len(s) = n + 1 + 1
                 PROVE  FlattenSeq(s) = Head(s) \o FlattenSeq(Tail(s))
      OBVIOUS
    <2>1. s # <<>>
      BY EmptySeq
    <2>2. PICK t \in Seq(Seq(D)), x \in Seq(D) : s = Append(t, x)
      BY <2>1, SequenceEmptyOrAppend
    <2>3. Len(t) = n + 1 /\ t # <<>>
      BY <2>2, AppendProperties, EmptySeq, LenProperties
    <2>4. Head(s) = Head(t) /\ Tail(s) = Append(Tail(t), x)
      BY <2>2, <2>3, HeadTailAppend
    <2>5. Tail(t) \in Seq(Seq(D)) /\ Head(t) \in Seq(D)
      BY <2>3, HeadTailProperties
    <2>6. FlattenSeq(t) = Head(t) \o FlattenSeq(Tail(t))
      BY <2>3
    <2>7. /\ FlattenSeq(s) = FlattenSeq(t) \o x
          /\ FlattenSeq(Tail(s)) = FlattenSeq(Tail(t)) \o x
          /\ FlattenSeq(Tail(t)) \in Seq(D)
      BY <2>2, <2>4, <2>5, FlattenAppend, Zenon
    <2>8. (Head(t) \o FlattenSeq(Tail(t))) \o x = Head(t) \o (FlattenSeq(Tail(t)) \o x)
      BY <1>0, <2>5, <2>7
    <2> QED
      BY <2>4, <2>6, <2>7, <2>8, Zenon
  <1>3. P = Nat
    <2> HIDE DEF P
    <2>1. P \in SUBSET Nat
      BY DEF P
    <2> QED
      BY <1>1, <1>2, <2>1, Induction
  <1> SUFFICES ASSUME NEW ss \in Seq(Seq(D)), ss # <<>>
               PROVE  FlattenSeq(ss) = Head(ss) \o FlattenSeq(Tail(ss))
    OBVIOUS
  <1>4. Len(ss) - 1 \in Nat /\ Len(ss) = (Len(ss) - 1) + 1
    BY EmptySeq
  <1> QED
    BY <1>3, <1>4
----------------------------------------------------------------------------
(* Sequences *)

\* The first piece of one sequence becomes the last one of another.
LEMMA MovePiece ==
  ASSUME NEW D, NEW s \in Seq(D), NEW t \in Seq(D), t # <<>>
  PROVE  /\ Append(s, Head(t)) \in Seq(D) /\ Tail(t) \in Seq(D)
         /\ Append(s, Head(t)) \o Tail(t) = s \o t
  <1>1. /\ Head(t) \in D /\ Tail(t) \in Seq(D) /\ <<Head(t)>> \in Seq(D)
        /\ Len(t) \in Nat \ {0} /\ Len(t) = Len(Tail(t)) + 1
    BY EmptySeq, HeadTailProperties
  <1>2. Append(s, Head(t)) = s \o <<Head(t)>> /\ Append(s, Head(t)) \in Seq(D)
    BY <1>1, AppendIsConcat, AppendProperties
  <1>3. (s \o <<Head(t)>>) \o Tail(t) = s \o (<<Head(t)>> \o Tail(t))
    BY <1>1, ConcatAssociative
  <1>4. <<Head(t)>> \o Tail(t) = t
    <2>1. SubSeq(t, 1, Len(t)) = t /\ Tail(t) = SubSeq(t, 2, Len(t)) /\ Head(t) = t[1]
      BY SubSeqFull, TailIsSubSeq
    <2>2. SubSeq(t, 1, Len(t)) = <<t[1]>> \o SubSeq(t, 1 + 1, Len(t))
      BY <1>1, SubSeqRecursiveFirst
    <2> QED
      BY <2>1, <2>2
  <1> QED
    BY <1>1, <1>2, <1>3, <1>4

\* Two ways to cut a sequence at the same place are the same.
LEMMA SameCut ==
  ASSUME NEW D, NEW s \in Seq(D), NEW t \in Seq(D), NEW u \in Seq(D), NEW v \in Seq(D),
         s \o t = u \o v, Len(s) = Len(u)
  PROVE  s = u /\ t = v
  <1>1. ASSUME NEW i \in 1..Len(s) PROVE s[i] = u[i]
    <2>1. i \in 1..Len(s) + Len(t) /\ i <= Len(s) /\ i \in 1..Len(u) + Len(v)
      BY LenProperties
    <2>2. (s \o t)[i] = s[i] /\ (u \o v)[i] = u[i]
      BY <2>1, ConcatProperties
    <2> QED
      BY <2>2
  <1>2. s = u
    BY <1>1, SeqEqual
  <1>3. \A S : \A p, q, r \in Seq(S) : p \o q = p \o r => q = r
    BY ConcatSimplifications
  <1> QED
    BY <1>2, <1>3

\* RemoveFirst() takes elements away only.
LEMMA RemoveFirstType ==
  ASSUME NEW D, NEW s \in Seq(D), NEW e
  PROVE  RemoveFirst(s, e) \in Seq(D)
  <1> DEFINE T == {i \in 1..Len(s) : s[i] = e}
  <1>1. CASE T = {}
    BY <1>1 DEF RemoveFirst
  <1>2. CASE T # {}
    <2>1. Len(s) \in Nat /\ T \in SUBSET Nat
      BY LenProperties
    <2>2. PICK m \in T : \A k \in T : m <= k
      <3> HIDE DEF T
      <3> QED
        BY <1>2, <2>1, LeastElement
    <2> DEFINE first == SelectInSeq(s, LAMBDA v : v = e)
    <2>3. first \in 1..Len(s)
      BY <1>2, <2>2 DEF SelectInSeq, Min
    <2>4. RemoveFirst(s, e) = SubSeq(s, 1, first - 1) \o SubSeq(s, first + 1, Len(s))
      BY <1>2 DEF RemoveFirst, RemoveAt
    <2> HIDE DEF first
    <2>5. SubSeq(s, 1, first - 1) \in Seq(D) /\ SubSeq(s, first + 1, Len(s)) \in Seq(D)
      <3>1. \A i \in 1..Len(s) : s[i] \in D
        BY ElementOfSeq
      <3> QED
        BY <2>1, <2>3, <3>1, SubSeqProperties
    <2> QED
      BY <2>4, <2>5, ConcatProperties
  <1> QED
    BY <1>1, <1>2

\* The elements of a list are among those it may have.
LEMMA ToSetType ==
  ASSUME NEW D, NEW s \in Seq(D) PROVE ToSet(s) \subseteq D
  BY LenProperties DEF ToSet

----------------------------------------------------------------------------
(* The requests and their pieces *)

\* Needs says how many pieces a request has.
LEMMA RequestType ==
  ASSUME NEW r \in Requests
  PROVE  /\ r \in Seq(Pieces) /\ Len(r) = Needs(r[1])
         /\ r # <<>> /\ r[2] \in Containers
  <1>1. ASSUME NEW c \in Containers, NEW k \in {"SHOW", "HIDE", "FOCUS"}, r = <<k, c>>
        PROVE  r \in Seq(Pieces) /\ Len(r) = Needs(r[1]) /\ r # <<>> /\ r[2] \in Containers
    BY <1>1 DEF Pieces, Needs
  <1>2. ASSUME NEW c \in Containers, NEW m \in Messages, r = <<"MESSAGE", c, m, None>>
        PROVE  r \in Seq(Pieces) /\ Len(r) = Needs(r[1]) /\ r # <<>> /\ r[2] \in Containers
    BY <1>2 DEF Pieces, Needs
  <1> QED
    BY <1>1, <1>2 DEF Requests

\* So the pending ones can be laid end to end.
LEMMA PendingType == TypeOK => pending \in Seq(Seq(Pieces))
  <1>1. Requests \subseteq Seq(Pieces)
    BY RequestType
  <1> QED
    BY <1>1, SeqMonotonic DEF TypeOK

\* What onFdReadable() has read when it has read enough is the request that
\* was posted first; what is left of the pieces are the other requests.
LEMMA Understood ==
  ASSUME ContainerInv, NEW event, Complete(event)
  PROVE  /\ pending # <<>> /\ reading = pending[1] /\ reading[2] \in alive
         /\ pipe \o posting = FlattenSeq(Tail(pending))
  <1> DEFINE rest == pipe \o posting
             first == Head(pending)
             others == FlattenSeq(Tail(pending))
  <1>1. /\ reading \in Seq(Pieces) /\ reading # <<>> /\ Len(reading) = Needs(reading[1])
        /\ rest \in Seq(Pieces) /\ reading \o rest = FlattenSeq(pending)
    <2>1. reading # <<>>
      BY DEF Complete, ContainerInv, OneAtATime
    <2>2. reading \in Seq(Pieces) /\ pipe \in Seq(Pieces) /\ posting \in Seq(Pieces)
      BY DEF ContainerInv, TypeOK
    <2>3. reading \o rest = FlattenSeq(pending)
      <3>1. (reading \o pipe) \o posting = FlattenSeq(pending)
        BY DEF ContainerInv, Framed
      <3>2. (reading \o pipe) \o posting = reading \o (pipe \o posting)
        BY <2>2, ConcatAssociative
      <3> QED
        BY <3>1, <3>2
    <2>4. Len(reading) = Needs(reading[1])
      BY DEF Complete
    <2> QED
      BY <2>1, <2>2, <2>3, <2>4, ConcatProperties
  <1>2. pending # <<>>
    <2>1. ASSUME pending = <<>> PROVE FALSE
      <3>1. FlattenSeq(pending) = <<>>
        BY <2>1 DEF FlattenSeq
      <3> QED
        BY <1>1, <3>1, ConcatEqualIffEmpty
    <2> QED
      BY <2>1
  <1>3. /\ first \in Requests /\ first = pending[1]
        /\ Tail(pending) \in Seq(Seq(Pieces))
    BY <1>2, PendingType, HeadTailProperties DEF ContainerInv, TypeOK
  <1>4. /\ first \in Seq(Pieces) /\ Len(first) = Needs(first[1]) /\ Len(first) # 0
        /\ others \in Seq(Pieces)
    <2>1. first \in Seq(Pieces) /\ Len(first) = Needs(first[1])
      BY <1>3, RequestType
    <2>2. others \in Seq(Pieces)
      BY <1>3, FlattenType
    <2> QED
      BY <2>1, <2>2 DEF Needs
  <1>5. FlattenSeq(pending) = first \o others
    BY <1>2, PendingType, FlattenHead DEF ContainerInv
  <1>6. reading[1] = first[1]
    <2> HIDE DEF rest, first, others
    <2>1. Len(reading) \in Nat \ {0} /\ Len(first) \in Nat \ {0} /\ Len(rest) \in Nat
          /\ Len(others) \in Nat
      BY <1>1, <1>4, EmptySeq, LenProperties
    <2>2. (reading \o rest)[1] = reading[1]
      BY <1>1, <2>1, ConcatProperties
    <2>3. (first \o others)[1] = first[1]
      BY <1>4, <2>1, ConcatProperties
    <2> QED
      BY <1>1, <1>5, <2>2, <2>3
  <1>7. reading = first /\ rest = others
    <2>1. Len(reading) = Len(first)
      BY <1>1, <1>4, <1>6
    <2> HIDE DEF rest, first, others
    <2> QED
      BY <1>1, <1>4, <1>5, <2>1, SameCut
  <1>8. pending[1][2] \in alive
    BY <1>2, EmptySeq DEF ContainerInv, OneAtATime, TypeOK
  <1> QED
    BY <1>2, <1>3, <1>7, <1>8

\* The part of the invariant that is about the pieces.
InOrder ==
  /\ posting \in Seq(Pieces) /\ pipe \in Seq(Pieces) /\ reading \in Seq(Pieces)
  /\ pending \in Seq(Requests)
  /\ Framed
  /\ \A i \in 1..Len(pending) : pending[i][2] \in alive

\* A request that is posted is the last one, and all of it is still to be written.
LEMMA PostInOrder ==
  ASSUME ContainerInv, NEW r \in Requests, Post(r) PROVE InOrder'
  <1>1. /\ posting' = r /\ pending' = Append(pending, r) /\ posting = <<>>
        /\ UNCHANGED <<pipe, reading, alive>> /\ r[2] \in alive
    BY DEF Post, state
  <1>2. /\ posting \in Seq(Pieces) /\ pipe \in Seq(Pieces) /\ reading \in Seq(Pieces)
        /\ pending \in Seq(Requests) /\ r \in Seq(Pieces)
    BY RequestType DEF ContainerInv, TypeOK
  <1>3. /\ pending' \in Seq(Requests) /\ Len(pending') = Len(pending) + 1
        /\ \A i \in 1..Len(pending) : pending'[i] = pending[i]
        /\ pending'[Len(pending) + 1] = r /\ Len(pending) \in Nat
    BY <1>1, <1>2, AppendProperties, LenProperties
  <1>4. \A i \in 1..Len(pending') : pending'[i][2] \in alive'
    <2>1. \A i \in 1..Len(pending) : pending[i][2] \in alive
      BY DEF ContainerInv, OneAtATime
    <2> QED
      BY <1>1, <1>3, <2>1
  <1>5. reading \o pipe = FlattenSeq(pending)
    <2>1. (reading \o pipe) \o <<>> = FlattenSeq(pending)
      BY <1>1 DEF ContainerInv, Framed
    <2> QED
      BY <1>2, <2>1, ConcatProperties, ConcatEmptySeq
  <1>6. FlattenSeq(pending') = FlattenSeq(pending) \o r
    <2>1. pending \in Seq(Seq(Pieces))
      BY PendingType DEF ContainerInv
    <2> QED
      BY <1>1, <1>2, <2>1, FlattenAppend
  <1>7. Framed'
    BY <1>1, <1>5, <1>6 DEF Framed
  <1> QED
    BY <1>1, <1>2, <1>3, <1>4, <1>7 DEF InOrder

\* The piece that is written is the last one in the pipe.
LEMMA WritePieceInOrder == ASSUME ContainerInv, WritePiece PROVE InOrder'
  <1>1. /\ posting # <<>> /\ pipe' = Append(pipe, Head(posting)) /\ posting' = Tail(posting)
        /\ UNCHANGED <<reading, pending, alive>>
    BY DEF WritePiece, state
  <1>2. /\ posting \in Seq(Pieces) /\ pipe \in Seq(Pieces) /\ reading \in Seq(Pieces)
        /\ pending \in Seq(Requests) /\ \A i \in 1..Len(pending) : pending[i][2] \in alive
    BY DEF ContainerInv, TypeOK, OneAtATime
  <1>3. /\ pipe' \in Seq(Pieces) /\ posting' \in Seq(Pieces)
        /\ pipe' \o posting' = pipe \o posting
    <2>1. /\ Append(pipe, Head(posting)) \in Seq(Pieces) /\ Tail(posting) \in Seq(Pieces)
          /\ Append(pipe, Head(posting)) \o Tail(posting) = pipe \o posting
      BY <1>1, <1>2, MovePiece, Zenon
    <2> QED
      BY <1>1, <2>1, Zenon
  <1>4. reading \o pipe' \o posting' = reading \o pipe \o posting
    <2>1. \A p, q, r \in Seq(Pieces) : (p \o q) \o r = p \o (q \o r)
      BY Associative
    <2>2. (reading \o pipe) \o posting = reading \o (pipe \o posting)
      BY <1>2, <2>1, Zenon
    <2>3. (reading \o pipe') \o posting' = reading \o (pipe' \o posting')
      BY <1>2, <1>3, <2>1, Zenon
    <2> QED
      BY <1>3, <2>2, <2>3, Zenon
  <1>5. Framed'
    BY <1>1, <1>4, Zenon DEF ContainerInv, Framed
  <1> QED
    BY <1>1, <1>2, <1>3, <1>5 DEF InOrder

\* The piece that is read is the first one in the pipe.
LEMMA ReadPieceInOrder == ASSUME ContainerInv, ReadPiece PROVE InOrder'
  <1>1. /\ pipe # <<>> /\ reading' = Append(reading, Head(pipe)) /\ pipe' = Tail(pipe)
        /\ UNCHANGED <<posting, pending, alive>>
    BY DEF ReadPiece, state
  <1>2. /\ posting \in Seq(Pieces) /\ pipe \in Seq(Pieces) /\ reading \in Seq(Pieces)
        /\ pending \in Seq(Requests) /\ \A i \in 1..Len(pending) : pending[i][2] \in alive
    BY DEF ContainerInv, TypeOK, OneAtATime
  <1>3. /\ pipe' \in Seq(Pieces) /\ reading' \in Seq(Pieces)
        /\ reading' \o pipe' = reading \o pipe
    BY <1>1, <1>2, MovePiece
  <1>4. Framed'
    BY <1>1, <1>3 DEF ContainerInv, Framed
  <1> QED
    BY <1>1, <1>2, <1>3, <1>4 DEF InOrder

\* The request that is complete was the first one.
LEMMA CompleteInOrder ==
  ASSUME ContainerInv, NEW event, Complete(event), UNCHANGED alive PROVE InOrder'
  <1>1. reading' = <<>> /\ pending' = Tail(pending) /\ UNCHANGED <<posting, pipe>>
    BY DEF Complete
  <1>2. pending # <<>> /\ pipe \o posting = FlattenSeq(Tail(pending))
    BY Understood
  <1>3. /\ posting \in Seq(Pieces) /\ pipe \in Seq(Pieces) /\ pending \in Seq(Requests)
        /\ \A i \in 1..Len(pending) : pending[i][2] \in alive
    BY DEF ContainerInv, TypeOK, OneAtATime
  <1>4. /\ pending' \in Seq(Requests) /\ Len(pending') = Len(pending) - 1
        /\ \A i \in 1..Len(pending') : pending'[i] = pending[i + 1]
        /\ Len(pending) \in Nat
    BY <1>1, <1>2, <1>3, HeadTailProperties, LenProperties
  <1>5. \A i \in 1..Len(pending') : pending'[i][2] \in alive'
    BY <1>3, <1>4
  <1>6. Framed'
    <2>1. <<>> \o pipe = pipe
      BY <1>3, ConcatEmptySeq
    <2> QED
      BY <1>1, <1>2, <2>1 DEF Framed
  <1>7. reading' \in Seq(Pieces)
    BY <1>1, EmptySeq
  <1> QED
    BY <1>1, <1>3, <1>4, <1>5, <1>6, <1>7 DEF InOrder

\* A request that is not handled yet keeps its container alive.
LEMMA UnreadInOrder ==
  ASSUME ContainerInv, UNCHANGED io,
         \A i \in 1..Len(pending) : pending[i][2] \in alive'
  PROVE  InOrder'
  BY DEF ContainerInv, TypeOK, Framed, io, InOrder

----------------------------------------------------------------------------
(* The inductive invariant *)

\* A step that does not touch a container leaves it settled.
LEMMA StaysSettled ==
  ASSUME NEW c, Settled(c), mVisible'[c] = mVisible[c], mWindow'[c] = mWindow[c],
         heard'[c] = heard[c], c \in onScreen' <=> c \in onScreen,
         c \in alive => c \in alive'
  PROVE  Settled(c)'
  BY DEF Settled

\* No step of the poster, and no piece read, changes what is known of a
\* container.
LEMMA PiecesInv ==
  ASSUME ContainerInv, InOrder',
         WritePiece \/ ReadPiece \/ \E r \in Requests : Post(r)
  PROVE  ContainerInv'
  <1>1. /\ UNCHANGED <<current, alive, mVisible, mFocused, mWindow, mWidgetList, surface,
                       onScreen, left, heard>>
        /\ pc' = pc \/ (pc' = "read" /\ pc = "select")
    BY DEF WritePiece, ReadPiece, Post, state, drawn
  <1>2. TypeOK'
    BY <1>1 DEF ContainerInv, InOrder, TypeOK
  <1>3. current = None /\ pc \in {"select", "read"} => current' = None
    BY <1>1
  <1>4. OneAtATime'
    <2>1. CASE ReadPiece
      <3>1. /\ reading' = Append(reading, Head(pipe)) /\ pipe # <<>> /\ pc' = "read"
            /\ (pc = "select" \/ (pc = "read" /\ Len(reading) < Needs(reading[1])))
        BY <2>1 DEF ReadPiece
      <3>2. /\ reading \in Seq(Pieces) /\ pipe \in Seq(Pieces) /\ Head(pipe) \in Pieces
            /\ Len(reading) \in Nat
        BY <3>1, HeadTailProperties, LenProperties DEF ContainerInv, TypeOK
      <3>3. /\ reading' # <<>> /\ Len(reading') = Len(reading) + 1
            /\ \A i \in 1..Len(reading) : reading'[i] = reading[i]
        BY <3>1, <3>2, AppendProperties
      <3>4. Len(reading') <= Needs(reading'[1])
        <4>1. CASE pc = "select"
          <5>1. reading = <<>>
            BY <4>1 DEF ContainerInv, OneAtATime
          <5> QED
            BY <3>3, <5>1, EmptySeq DEF Needs
        <4>2. CASE pc = "read"
          <5>1. reading # <<>> /\ Len(reading) < Needs(reading[1])
            BY <3>1, <4>2 DEF ContainerInv, OneAtATime
          <5>2. reading'[1] = reading[1]
            BY <3>2, <3>3, <5>1, EmptySeq
          <5> QED
            BY <3>2, <3>3, <5>1, <5>2 DEF Needs
        <4> QED
          BY <3>1, <4>1, <4>2
      <3> QED
        BY <1>1, <3>1, <3>3, <3>4 DEF ContainerInv, InOrder, OneAtATime
    <2>2. CASE ~ReadPiece
      <3>1. UNCHANGED <<reading, pc>>
        BY <2>2 DEF WritePiece, Post
      <3> QED
        BY <1>1, <3>1 DEF ContainerInv, InOrder, OneAtATime
    <2> QED
      BY <2>1, <2>2
  <1>5. \A c \in Containers \ {current'} : Settled(c)'
    BY <1>1, StaysSettled DEF ContainerInv
  <1>6. current' # None => Drawing' /\ (Showing(current) \/ Hiding(current))'
    <2> SUFFICES ASSUME current # None
                 PROVE  Drawing' /\ (Showing(current) \/ Hiding(current))'
      BY <1>1
    <2>1. pc' = pc
      BY <1>1 DEF ContainerInv, OneAtATime
    <2> QED
      BY <1>1, <2>1 DEF ContainerInv, Drawing, Showing, Hiding
  <1> QED
    BY <1>1, <1>2, <1>4, <1>5, <1>6 DEF ContainerInv, InOrder

\* A request that changes nothing but the focus.
LEMMA AtOnceInv ==
  ASSUME ContainerInv, InOrder', pc = "read", pc' = "select", reading' = <<>>,
         mFocused' \in [Containers -> BOOLEAN],
         UNCHANGED <<current, alive, mVisible, mWindow, drawn, onScreen, left, heard>>
  PROVE  ContainerInv'
  <1>1. TypeOK'
    BY DEF ContainerInv, InOrder, TypeOK, drawn
  <1>2. current = None /\ current' = None
    BY DEF ContainerInv, OneAtATime
  <1>3. OneAtATime'
    BY <1>2 DEF OneAtATime, InOrder
  <1>4. \A c \in Containers \ {current'} : Settled(c)'
    BY StaysSettled DEF ContainerInv
  <1> QED
    BY <1>1, <1>2, <1>3, <1>4 DEF ContainerInv, InOrder

\* A request to show a visible container, or to hide a hidden one.
LEMMA SkipInv ==
  ASSUME ContainerInv, InOrder', NEW event, NEW visible, Skip(event, visible)
  PROVE  ContainerInv'
  BY AtOnceInv DEF Skip, Complete, ContainerInv, TypeOK, state

\* A request for the focus, or a message.
LEMMA HandleInv ==
  ASSUME ContainerInv, InOrder', HandleFocus \/ HandleMessage
  PROVE  ContainerInv'
  <1>1. CASE HandleFocus
    BY <1>1, AtOnceInv DEF HandleFocus, Complete, ContainerInv, TypeOK
  <1>2. CASE HandleMessage
    BY <1>2, AtOnceInv DEF HandleMessage, Complete, ContainerInv, TypeOK, state
  <1> QED
    BY <1>1, <1>2

\* The request of a settled container is begun.
LEMMA BeginsInv ==
  ASSUME ContainerInv, InOrder', ShowBegins \/ HideBegins
  PROVE  ContainerInv'
  <1>1. PICK c \in Containers : c = reading[2] /\ c \in alive
    BY Understood DEF ShowBegins, HideBegins, ContainerInv, TypeOK
  <1>2. /\ pc = "read" /\ reading' = <<>> /\ current' = c
        /\ UNCHANGED <<alive, mVisible, mFocused, mWindow, mWidgetList, surface, onScreen,
                       left, heard>>
        /\ \/ ~mVisible[c] /\ pc' = IF mWindow[c] = "null" THEN "create" ELSE "onShow"
           \/ mVisible[c] /\ pc' = "onHide"
    BY <1>1 DEF ShowBegins, HideBegins, Complete, state, drawn
  <1>3. TypeOK'
    BY <1>2 DEF ContainerInv, InOrder, TypeOK
  <1>4. c # None /\ current = None
    BY <1>2, ContainerAssumption DEF ContainerInv, OneAtATime
  <1>5. OneAtATime'
    BY <1>1, <1>2, <1>4 DEF InOrder, OneAtATime
  <1>6. \A d \in Containers : Settled(d)
    BY <1>4, ContainerAssumption DEF ContainerInv
  <1>7. \A d \in Containers \ {current'} : Settled(d)'
    BY <1>2, <1>6, StaysSettled
  <1>8. (Showing(current) \/ Hiding(current))'
    BY <1>2, <1>6 DEF Settled, Showing, Hiding
  <1>9. Drawing'
    BY <1>2, <1>6 DEF Settled, Drawing
  <1> QED
    BY <1>2, <1>3, <1>5, <1>7, <1>8, <1>9 DEF ContainerInv, InOrder

\* The steps of _show() and _hide() touch the container they are about only.
LEMMA StepInv ==
  ASSUME ContainerInv, InOrder', NEW c \in Containers, current = c,
         UNCHANGED <<alive, left>>, TypeOK', OneAtATime',
         \A d \in Containers \ {c} :
           /\ mVisible'[d] = mVisible[d] /\ mWindow'[d] = mWindow[d]
           /\ heard'[d] = heard[d] /\ (d \in onScreen' <=> d \in onScreen),
         \/ current' = c /\ Drawing' /\ (Showing(c) \/ Hiding(c))'
         \/ current' = None /\ Settled(c)'
  PROVE  ContainerInv'
  <1>1. \A d \in Containers \ {c} : Settled(d)'
    BY StaysSettled DEF ContainerInv
  <1>2. \A d \in Containers \ {current'} : Settled(d)'
    <2> SUFFICES ASSUME NEW d \in Containers, d # current' PROVE Settled(d)'
      OBVIOUS
    <2>1. CASE d = c
      BY <2>1
    <2>2. CASE d # c
      BY <1>1, <2>2
    <2> QED
      BY <2>1, <2>2
  <1>3. current' # None => Drawing' /\ (Showing(current) \/ Hiding(current))'
    BY DEF Showing, Hiding
  <1> QED
    BY <1>2, <1>3 DEF ContainerInv, InOrder

\* Creating the window, whether it succeeds or not.
LEMMA CreateWindowInv ==
  ASSUME ContainerInv, InOrder', NEW outcome \in {"good", "broken", "blank"},
         CreateWindow(outcome)
  PROVE  ContainerInv'
  <1>1. PICK c \in Containers : current = c
    BY DEF CreateWindow, ContainerInv, OneAtATime, TypeOK
  <1>2. /\ pc = "create" /\ c # None /\ c \in alive
        /\ mWindow' = [mWindow EXCEPT ![c] = outcome] /\ pc' = "onCreate"
        /\ heard' = IF outcome = "good" THEN [heard EXCEPT ![c] = "onCreate"] ELSE heard
        /\ UNCHANGED <<reading, current, alive, mVisible, mFocused, mWidgetList, onScreen,
                       left>>
    BY <1>1, ContainerAssumption DEF CreateWindow, Hear, io, ContainerInv, OneAtATime
  <1>3. /\ Showing(c)
        /\ surface' = [back |-> {"undefined"}, front |-> {"undefined"}]
    BY <1>1, <1>2 DEF CreateWindow, Draws, ContainerInv, Showing, Hiding
  <1>4. TypeOK'
    BY <1>1, <1>2, <1>3 DEF ContainerInv, InOrder, TypeOK
  <1>5. OneAtATime'
    BY <1>1, <1>2 DEF ContainerInv, InOrder, OneAtATime
  <1>6. Showing(c)' /\ Drawing'
    BY <1>1, <1>2, <1>3 DEF ContainerInv, TypeOK, Showing, Drawing
  <1>7. \A d \in Containers \ {c} :
          /\ mVisible'[d] = mVisible[d] /\ mWindow'[d] = mWindow[d]
          /\ heard'[d] = heard[d] /\ (d \in onScreen' <=> d \in onScreen)
    BY <1>2 DEF ContainerInv, TypeOK
  <1> QED
    BY <1>1, <1>2, <1>4, <1>5, <1>6, <1>7, StepInv

\* The steps of _show() up to update(), when the new window is filled.
LEMMA FillsInv ==
  ASSUME ContainerInv, InOrder', Created \/ PaintWidgets \/ Update
  PROVE  ContainerInv'
  <1>1. PICK c \in Containers : current = c
    BY DEF Created, PaintWidgets, Update, ContainerInv, OneAtATime, TypeOK
  <1>2. /\ c # None /\ c \in alive
        /\ UNCHANGED <<reading, current, alive, mVisible, mFocused, mWindow, mWidgetList,
                       onScreen, left>>
        /\ \/ pc = "onCreate" /\ pc' = "paint" /\ heard' = [heard EXCEPT ![c] = "onCreate"]
           \/ pc = "paint" /\ pc' = "update" /\ heard' = heard
           \/ pc = "update" /\ pc' = "onShow" /\ heard' = heard
    BY <1>1, ContainerAssumption
    DEF Created, PaintWidgets, Update, Hear, io, ContainerInv, OneAtATime
  <1>3. Showing(c) /\ Drawing /\ mWindow[c] # "null"
    BY <1>1, <1>2 DEF ContainerInv, Showing, Hiding
  <1> DEFINE picture == SUBSET (Widgets \cup {"undefined", "listener"})
             widgets == ToSet(mWidgetList[c])
             Drawn == [back : picture, front : picture]
  <1>4. surface \in Drawn /\ widgets \subseteq Widgets
    BY ToSetType DEF ContainerInv, TypeOK
  <1>5. /\ surface' \in Drawn
        /\ pc = "onCreate" /\ mWindow[c] = "good" => surface'.back = {"listener"}
        /\ pc = "paint" /\ mWindow[c] = "good" => surface'.back = surface.back \cup widgets
        /\ pc = "update" /\ mWindow[c] = "good" => surface'.front = surface.back
    <2> HIDE DEF widgets
    <2>1. CASE Created
      BY <1>1, <1>3, <1>4, <2>1 DEF Created, Draws, WindowDraws
    <2>2. CASE PaintWidgets
      BY <1>1, <1>3, <1>4, <2>2 DEF PaintWidgets, Draws, WindowDraws, widgets
    <2>3. CASE Update
      BY <1>1, <1>3, <1>4, <2>3 DEF Update
    <2> QED
      BY <2>1, <2>2, <2>3
  <1>6. TypeOK'
    <2>1. surface' \in Drawn
      BY <1>5
    <2>2. heard' \in [Containers -> {"onCreate", "onShow", "onHide", "onDestroy"}]
      BY <1>2 DEF ContainerInv, TypeOK
    <2>3. /\ pc' \in {"paint", "update", "onShow"}
          /\ current' \in Containers /\ alive' \subseteq Containers
          /\ onScreen' \subseteq Containers
          /\ mVisible' \in [Containers -> BOOLEAN] /\ mFocused' \in [Containers -> BOOLEAN]
          /\ mWindow' \in [Containers -> {"null", "good", "broken", "blank"}]
          /\ mWidgetList' \in [Containers -> Seq(Widgets)]
      BY <1>1, <1>2 DEF ContainerInv, TypeOK
    <2> QED
      BY <2>1, <2>2, <2>3 DEF InOrder, TypeOK
  <1>7. OneAtATime'
    BY <1>1, <1>2 DEF ContainerInv, InOrder, OneAtATime
  <1>8. Showing(c)'
    BY <1>1, <1>2, <1>3 DEF ContainerInv, TypeOK, Showing
  <1>9. Drawing'
    BY <1>1, <1>2, <1>3, <1>5 DEF Drawing
  <1>10. \A d \in Containers \ {c} :
          /\ mVisible'[d] = mVisible[d] /\ mWindow'[d] = mWindow[d]
          /\ heard'[d] = heard[d] /\ (d \in onScreen' <=> d \in onScreen)
    BY <1>2 DEF ContainerInv, TypeOK
  <1> QED
    BY <1>1, <1>2, <1>6, <1>7, <1>8, <1>9, <1>10, StepInv

\* The end of _show().
LEMMA AppearsInv ==
  ASSUME ContainerInv, InOrder', NotifyShow \/ ShowEnds
  PROVE  ContainerInv'
  <1>1. PICK c \in Containers : current = c
    BY DEF NotifyShow, ShowEnds, ContainerInv, OneAtATime, TypeOK
  <1>2. /\ c # None /\ c \in alive
        /\ UNCHANGED <<reading, alive, mFocused, mWindow, mWidgetList, left>>
        /\ \/ /\ pc = "onShow" /\ pc' = "show" /\ heard' = [heard EXCEPT ![c] = "onShow"]
              /\ UNCHANGED <<current, mVisible, surface, onScreen>>
           \/ /\ pc = "show" /\ pc' = "select" /\ heard' = heard /\ current' = None
              /\ mVisible' = [mVisible EXCEPT ![c] = TRUE] /\ surface' = NoSurface
              /\ onScreen' = IF mWindow[c] = "broken" THEN onScreen ELSE onScreen \cup {c}
    BY <1>1, ContainerAssumption
    DEF NotifyShow, ShowEnds, Hear, io, drawn, ContainerInv, OneAtATime
  <1>3. Showing(c) /\ Drawing
    BY <1>1, <1>2 DEF ContainerInv, Showing, Hiding
  <1>4. TypeOK'
    <2>1. /\ pc' \in {"show", "select"} /\ alive' \subseteq Containers
          /\ current' \in Containers \cup {None} /\ onScreen' \subseteq Containers
      BY <1>1, <1>2 DEF ContainerInv, TypeOK
    <2>2. /\ mVisible' \in [Containers -> BOOLEAN] /\ mFocused' \in [Containers -> BOOLEAN]
          /\ mWindow' \in [Containers -> {"null", "good", "broken", "blank"}]
          /\ mWidgetList' \in [Containers -> Seq(Widgets)]
          /\ heard' \in [Containers -> {"onCreate", "onShow", "onHide", "onDestroy"}]
      BY <1>2 DEF ContainerInv, TypeOK
    <2>3. LET picture == SUBSET (Widgets \cup {"undefined", "listener"})
          IN  surface' \in [back : picture, front : picture]
      BY <1>2 DEF ContainerInv, TypeOK, NoSurface
    <2> QED
      BY <2>1, <2>2, <2>3 DEF InOrder, TypeOK
  <1>5. OneAtATime'
    BY <1>1, <1>2 DEF ContainerInv, InOrder, OneAtATime
  <1>6. \/ current' = c /\ Drawing' /\ Showing(c)'
        \/ current' = None /\ Settled(c)'
    BY <1>1, <1>2, <1>3 DEF ContainerInv, TypeOK, Showing, Drawing, Settled
  <1>7. \A d \in Containers \ {c} :
          /\ mVisible'[d] = mVisible[d] /\ mWindow'[d] = mWindow[d]
          /\ heard'[d] = heard[d] /\ (d \in onScreen' <=> d \in onScreen)
    BY <1>2 DEF ContainerInv, TypeOK
  <1> QED
    BY <1>1, <1>2, <1>4, <1>5, <1>6, <1>7, StepInv

\* The steps of _hide().
LEMMA HidesInv ==
  ASSUME ContainerInv, InOrder', NotifyHide \/ HideKeepsWindow \/ HideEnds
  PROVE  ContainerInv'
  <1>1. PICK c \in Containers : current = c
    BY DEF NotifyHide, HideKeepsWindow, HideEnds, ContainerInv, OneAtATime, TypeOK
  <1>2. /\ c # None /\ c \in alive
        /\ UNCHANGED <<reading, alive, mFocused, mWidgetList, surface, left>>
        /\ \/ /\ pc = "onHide" /\ pc' = "hide" /\ heard' = [heard EXCEPT ![c] = "onHide"]
              /\ mVisible' = [mVisible EXCEPT ![c] = FALSE]
              /\ UNCHANGED <<current, mWindow, onScreen>>
           \/ /\ pc = "hide" /\ pc' = "select" /\ current' = None /\ c \notin onScreen
              /\ UNCHANGED <<mVisible, mWindow, onScreen, heard>>
           \/ /\ pc = "hide" /\ pc' = "select" /\ current' = None /\ c \in onScreen
              /\ mWindow' = [mWindow EXCEPT ![c] = "null"] /\ onScreen' = onScreen \ {c}
              /\ heard' = [heard EXCEPT ![c] = "onDestroy"] /\ mVisible' = mVisible
    BY <1>1, ContainerAssumption
    DEF NotifyHide, HideKeepsWindow, HideEnds, DeleteWindow, Hear, io, drawn, state,
        ContainerInv, OneAtATime
  <1>3. Hiding(c)
    BY <1>1, <1>2 DEF ContainerInv, Showing, Hiding
  <1>4. TypeOK'
    BY <1>1, <1>2 DEF ContainerInv, InOrder, TypeOK
  <1>5. OneAtATime'
    BY <1>1, <1>2 DEF ContainerInv, InOrder, OneAtATime
  <1>6. \/ current' = c /\ Drawing' /\ Hiding(c)'
        \/ current' = None /\ Settled(c)'
    BY <1>1, <1>2, <1>3 DEF ContainerInv, TypeOK, Hiding, Drawing, Settled
  <1>7. \A d \in Containers \ {c} :
          /\ mVisible'[d] = mVisible[d] /\ mWindow'[d] = mWindow[d]
          /\ heard'[d] = heard[d] /\ (d \in onScreen' <=> d \in onScreen)
    BY <1>2 DEF ContainerInv, TypeOK
  <1> QED
    BY <1>1, <1>2, <1>4, <1>5, <1>6, <1>7, StepInv

\* The application's calls between two requests.
LEMMA FocusInv ==
  ASSUME ContainerInv, InOrder', NEW c \in Containers, NEW focus \in BOOLEAN,
         SetFocus(c, focus)
  PROVE  ContainerInv'
  <1>1. /\ pc = "select" /\ mFocused' = [mFocused EXCEPT ![c] = focus]
        /\ UNCHANGED <<reading, pc, current, alive, mVisible, mWindow, mWidgetList, surface,
                       onScreen, left, heard>>
    BY DEF SetFocus, io, drawn
  <1>2. TypeOK'
    BY <1>1 DEF ContainerInv, InOrder, TypeOK
  <1>3. OneAtATime' /\ current' = None
    BY <1>1 DEF ContainerInv, InOrder, OneAtATime
  <1>4. \A d \in Containers \ {current'} : Settled(d)'
    BY <1>1, StaysSettled DEF ContainerInv
  <1> QED
    BY <1>1, <1>2, <1>3, <1>4 DEF ContainerInv, InOrder

\* The widgets change before they are painted.
LEMMA WidgetsInv ==
  ASSUME ContainerInv, InOrder', NEW c \in Containers, NEW w \in Widgets,
         AddWidget(c, w) \/ RemoveWidget(c, w)
  PROVE  ContainerInv'
  <1>1. /\ pc \in {"select", "onCreate", "paint"}
        /\ \/ mWidgetList' = [mWidgetList EXCEPT ![c] = Append(@, w)]
           \/ mWidgetList' = [mWidgetList EXCEPT ![c] = RemoveFirst(@, w)]
        /\ UNCHANGED <<reading, pc, current, alive, mVisible, mFocused, mWindow, surface,
                       onScreen, left, heard>>
    BY DEF AddWidget, RemoveWidget, MayChangeWidgets, io
  <1>2. mWidgetList' \in [Containers -> Seq(Widgets)]
    <2>1. mWidgetList \in [Containers -> Seq(Widgets)]
      BY DEF ContainerInv, TypeOK
    <2>2. /\ Append(mWidgetList[c], w) \in Seq(Widgets)
          /\ RemoveFirst(mWidgetList[c], w) \in Seq(Widgets)
      BY <2>1, AppendProperties, RemoveFirstType
    <2> QED
      BY <1>1, <2>1, <2>2
  <1>3. TypeOK'
    BY <1>1, <1>2 DEF ContainerInv, InOrder, TypeOK
  <1>4. OneAtATime'
    BY <1>1 DEF ContainerInv, InOrder, OneAtATime
  <1>5. \A d \in Containers \ {current'} : Settled(d)'
    BY <1>1, StaysSettled DEF ContainerInv
  <1>6. current' # None => Drawing' /\ (Showing(current) \/ Hiding(current))'
    BY <1>1 DEF ContainerInv, Drawing, Showing, Hiding
  <1> QED
    BY <1>1, <1>3, <1>4, <1>5, <1>6 DEF ContainerInv, InOrder

\* Hidden containers come and go.
LEMMA ComesAndGoesInv ==
  ASSUME ContainerInv, InOrder', NEW c \in Containers, Construct(c) \/ Destroy(c)
  PROVE  ContainerInv'
  <1>1. /\ pc = "select" /\ current = None /\ reading = <<>> /\ c # None
        /\ UNCHANGED <<reading, pc, current, mVisible, surface>>
    BY ContainerAssumption DEF Construct, Destroy, io, drawn, ContainerInv, OneAtATime
  <1>2. /\ \A d \in Containers : Settled(d)
        /\ onScreen \subseteq Containers /\ left = {}
    BY <1>1, ContainerAssumption DEF ContainerInv, TypeOK
  <1>3. \/ /\ alive' = alive \cup {c} /\ c \notin alive
           /\ UNCHANGED <<mFocused, mWindow, mWidgetList, onScreen, left, heard>>
        \/ /\ alive' = alive \ {c} /\ ~mVisible[c]
           /\ mFocused' = [mFocused EXCEPT ![c] = FALSE]
           /\ mWidgetList' = [mWidgetList EXCEPT ![c] = <<>>]
           /\ onScreen' = onScreen /\ left' = left
           /\ \/ mWindow[c] = "null" /\ UNCHANGED <<mWindow, heard>>
              \/ /\ mWindow' = [mWindow EXCEPT ![c] = "null"]
                 /\ heard' = [heard EXCEPT ![c] = "onDestroy"]
    <2>1. CASE Construct(c)
      BY <2>1 DEF Construct, drawn
    <2>2. CASE Destroy(c)
      <3>1. c \notin onScreen
        BY <1>2, <2>2 DEF Destroy, Settled
      <3>2. onScreen \ {c} = onScreen
        BY <3>1
      <3> QED
        BY <2>2, <3>1, <3>2 DEF Destroy, DeleteWindow
    <2> QED
      BY <2>1, <2>2
  <1>4. TypeOK'
    <2>1. <<>> \in Seq(Widgets)
      BY EmptySeq
    <2>2. alive' \subseteq Containers /\ onScreen' \subseteq Containers
      BY <1>3 DEF ContainerInv, TypeOK
    <2>3. mFocused' \in [Containers -> BOOLEAN]
      BY <1>3 DEF ContainerInv, TypeOK
    <2>4. mWidgetList' \in [Containers -> Seq(Widgets)]
      <3>1. mWidgetList \in [Containers -> Seq(Widgets)]
        BY DEF ContainerInv, TypeOK
      <3>2. mWidgetList' = mWidgetList \/ mWidgetList' = [mWidgetList EXCEPT ![c] = <<>>]
        BY <1>3
      <3> QED
        BY <2>1, <3>1, <3>2
    <2>5. mWindow' \in [Containers -> {"null", "good", "broken", "blank"}]
      <3>1. mWindow \in [Containers -> {"null", "good", "broken", "blank"}]
        BY DEF ContainerInv, TypeOK
      <3>2. mWindow' = mWindow \/ mWindow' = [mWindow EXCEPT ![c] = "null"]
        BY <1>3
      <3> QED
        BY <3>1, <3>2
    <2>6. heard' \in [Containers -> {"onCreate", "onShow", "onHide", "onDestroy"}]
      BY <1>3 DEF ContainerInv, TypeOK
    <2> QED
      BY <1>1, <2>2, <2>3, <2>4, <2>5, <2>6 DEF ContainerInv, InOrder, TypeOK
  <1>5. OneAtATime'
    BY <1>1, <1>3 DEF ContainerInv, InOrder, OneAtATime
  <1>6. ASSUME NEW d \in Containers PROVE Settled(d)'
    <2>1. CASE d # c
      <3>1. /\ mVisible'[d] = mVisible[d] /\ mWindow'[d] = mWindow[d] /\ heard'[d] = heard[d]
            /\ (d \in onScreen' <=> d \in onScreen) /\ (d \in alive => d \in alive')
        BY <1>1, <1>3, <2>1 DEF ContainerInv, TypeOK
      <3> QED
        BY <1>2, <3>1, StaysSettled
    <2>2. CASE d = c
      BY <1>1, <1>2, <1>3, <2>2 DEF ContainerInv, TypeOK, Settled
    <2> QED
      BY <2>1, <2>2
  <1> QED
    BY <1>1, <1>2, <1>3, <1>4, <1>5, <1>6 DEF ContainerInv, InOrder

\* Nothing is posted, and every container is hidden.
LEMMA InitInv == ASSUME Init PROVE ContainerInv
  <1>1. <<>> \in Seq(Pieces) /\ <<>> \in Seq(Requests) /\ <<>> \in Seq(Widgets)
    BY EmptySeq
  <1>2. TypeOK
    BY <1>1 DEF Init, TypeOK, NoSurface
  <1>3. Framed
    <2>1. <<>> \o <<>> = <<>>
      BY ConcatEmptySeq, EmptySeq
    <2>2. FlattenSeq(<<>>) = <<>>
      BY DEF FlattenSeq
    <2> QED
      BY <2>1, <2>2, Zenon DEF Init, Framed
  <1>4. OneAtATime
    BY DEF Init, OneAtATime
  <1>5. \A c \in Containers : Settled(c)
    BY DEF Init, Settled
  <1> QED
    BY <1>2, <1>3, <1>4, <1>5 DEF Init, ContainerInv

\* Every step, of whatever thread, keeps the invariant.
LEMMA NextInv == ASSUME ContainerInv, [Next]_vars PROVE ContainerInv'
  <1>1. ASSUME NEW r \in Requests, Post(r) PROVE ContainerInv'
    BY <1>1, PostInOrder, PiecesInv
  <1>2. CASE WritePiece
    BY <1>2, WritePieceInOrder, PiecesInv
  <1>3. CASE ReadPiece
    BY <1>3, ReadPieceInOrder, PiecesInv
  <1>4. ASSUME NEW event, NEW visible, Skip(event, visible) PROVE ContainerInv'
    BY <1>4, CompleteInOrder, SkipInv DEF Skip, state
  <1>5. CASE ShowBegins \/ HideBegins
    <2>1. InOrder'
      BY <1>5, CompleteInOrder DEF ShowBegins, HideBegins, state
    <2> QED
      BY <1>5, <2>1, BeginsInv
  <1>6. CASE HandleFocus \/ HandleMessage
    <2>1. InOrder'
      BY <1>6, CompleteInOrder DEF HandleFocus, HandleMessage, state
    <2> QED
      BY <1>6, <2>1, HandleInv
  <1>7. UNCHANGED <<io, alive>> => InOrder'
    BY UnreadInOrder DEF ContainerInv, OneAtATime
  <1>8. ASSUME NEW outcome \in {"good", "broken", "blank"}, CreateWindow(outcome)
        PROVE  ContainerInv'
    BY <1>7, <1>8, CreateWindowInv DEF CreateWindow
  <1>9. CASE Created \/ PaintWidgets \/ Update
    BY <1>7, <1>9, FillsInv DEF Created, PaintWidgets, Update
  <1>10. CASE NotifyShow \/ ShowEnds
    BY <1>7, <1>10, AppearsInv DEF NotifyShow, ShowEnds
  <1>11. CASE NotifyHide \/ HideKeepsWindow \/ HideEnds
    BY <1>7, <1>11, HidesInv DEF NotifyHide, HideKeepsWindow, HideEnds, state
  <1>12. ASSUME NEW c \in Containers, NEW focus \in BOOLEAN, SetFocus(c, focus)
         PROVE  ContainerInv'
    BY <1>7, <1>12, FocusInv DEF SetFocus
  <1>13. ASSUME NEW c \in Containers, NEW w \in Widgets,
                AddWidget(c, w) \/ RemoveWidget(c, w)
         PROVE  ContainerInv'
    BY <1>7, <1>13, WidgetsInv DEF AddWidget, RemoveWidget
  <1>14. ASSUME NEW c \in Containers, Construct(c) \/ Destroy(c) PROVE ContainerInv'
    <2>1. UNCHANGED io /\ \A i \in 1..Len(pending) : pending[i][2] \in alive'
      BY <1>14 DEF Construct, Destroy, ContainerInv, OneAtATime
    <2> QED
      BY <1>14, <2>1, UnreadInOrder, ComesAndGoesInv
  <1>15. CASE UNCHANGED vars
    <2>1. UNCHANGED <<posting, pipe, reading, pending, pc, current, alive, mVisible,
                      mFocused, mWindow, mWidgetList, surface, onScreen, left, heard>>
      BY <1>15 DEF vars, io, state, drawn
    <2> QED
      BY <2>1 DEF ContainerInv, TypeOK, Framed, OneAtATime, Settled, Drawing, Showing, Hiding
  <1> QED
    BY <1>1, <1>2, <1>3, <1>4, <1>5, <1>6, <1>8, <1>9, <1>10, <1>11, <1>12, <1>13, <1>14,
       <1>15
    DEF Next, Poster, Loop, Application

\* The requests arrive as they were posted and every container is where the
\* last one that was carried out has left it.
THEOREM ContainerInvariant == Spec => []ContainerInv
  BY InitInv, NextInv, PTL DEF Spec

\* Between two requests the screen shows the windows of the visible containers.
THEOREM ScreenSynchronized == Spec => []ScreenInSync
  <1>1. ContainerInv => ScreenInSync
    <2> SUFFICES ASSUME ContainerInv, pc = "select" PROVE ScreenInSync
      BY DEF ScreenInSync
    <2>1. \A c \in Containers : Settled(c)
      BY ContainerAssumption DEF ContainerInv, OneAtATime
    <2> QED
      BY <2>1 DEF ScreenInSync, ContainerInv, TypeOK, Settled
  <1> QED
    BY <1>1, ContainerInvariant, PTL

\* A window that appears has been cleared, and shows what onCreate() drew and the
\* widgets listed by then (the background is no part of it: one that was set
\* before is not drawn).
THEOREM Painted == Spec => []AppearsPainted
  <1>1. ContainerInv => AppearsPainted
    BY DEF ContainerInv, OneAtATime, AppearsPainted, Drawing
  <1> QED
    BY <1>1, ContainerInvariant, PTL

----------------------------------------------------------------------------
(* What a listener can count on *)

\* A step of the loop tells the listener of the container it is about what
\* comes next, or tells nobody anything.
LEMMA ListenerStep ==
  ASSUME ContainerInv, [Next]_vars PROVE [Listener!ListenerNext]_heard
  <1> USE DEF Listener!ListenerNext, Listener!OnCreate, Listener!OnShow, Listener!OnHide,
              Listener!OnDestroy, Listener!Hears
  <1>1. current \in Containers \/ current = None
    BY DEF ContainerInv, TypeOK
  <1>2. ASSUME NEW outcome \in {"good", "broken", "blank"}, CreateWindow(outcome)
        PROVE  [Listener!ListenerNext]_heard
    <2>1. heard[current] = "onDestroy" /\ current \in Containers
      BY <1>1, <1>2 DEF CreateWindow, ContainerInv, OneAtATime, Showing, Hiding
    <2>2. heard' = [heard EXCEPT ![current] = "onCreate"] \/ heard' = heard
      BY <1>2 DEF CreateWindow, Hear
    <2> QED
      BY <2>1, <2>2
  <1>3. CASE Created
    <2>1. heard[current] \in {"onDestroy", "onCreate"} /\ current \in Containers
      BY <1>1, <1>3 DEF Created, ContainerInv, OneAtATime, Showing, Hiding
    <2>2. heard' = [heard EXCEPT ![current] = "onCreate"]
      BY <1>3 DEF Created, Hear
    <2> QED
      BY <2>1, <2>2
  <1>4. CASE NotifyShow
    <2>1. heard[current] \in {"onCreate", "onHide"} /\ current \in Containers
      BY <1>1, <1>4 DEF NotifyShow, ContainerInv, OneAtATime, Showing, Hiding
    <2>2. heard' = [heard EXCEPT ![current] = "onShow"]
      BY <1>4 DEF NotifyShow, Hear
    <2> QED
      BY <2>1, <2>2
  <1>5. CASE NotifyHide
    <2>1. heard[current] = "onShow" /\ current \in Containers
      BY <1>1, <1>5 DEF NotifyHide, ContainerInv, OneAtATime, Showing, Hiding
    <2>2. heard' = [heard EXCEPT ![current] = "onHide"]
      BY <1>5 DEF NotifyHide, Hear
    <2> QED
      BY <2>1, <2>2
  <1>6. CASE HideEnds
    <2>1. heard[current] = "onHide" /\ current \in Containers
      BY <1>1, <1>6 DEF HideEnds, ContainerInv, OneAtATime, Showing, Hiding
    <2>2. heard' = [heard EXCEPT ![current] = "onDestroy"]
      BY <1>6 DEF HideEnds, DeleteWindow
    <2> QED
      BY <2>1, <2>2
  <1>7. ASSUME NEW c \in Containers, Destroy(c) PROVE [Listener!ListenerNext]_heard
    <2>1. mWindow[c] = "null" \/ heard[c] = "onHide"
      <3>1. pc = "select" /\ ~mVisible[c]
        BY <1>7 DEF Destroy
      <3>2. Settled(c)
        BY <3>1, ContainerAssumption DEF ContainerInv, OneAtATime
      <3> QED
        BY <3>1, <3>2 DEF Settled
    <2>2. \/ heard' = heard
          \/ mWindow[c] # "null" /\ heard' = [heard EXCEPT ![c] = "onDestroy"]
      BY <1>7 DEF Destroy, DeleteWindow
    <2> QED
      BY <2>1, <2>2
  <1>8. CASE UNCHANGED heard
    BY <1>8
  <1>9. ASSUME NEW r \in Requests, Post(r) PROVE UNCHANGED heard
    BY <1>9 DEF Post, state
  <1>10. CASE WritePiece \/ ReadPiece
    BY <1>8, <1>10 DEF WritePiece, ReadPiece, state
  <1>11. ASSUME NEW event, NEW visible, Skip(event, visible) PROVE UNCHANGED heard
    BY <1>11 DEF Skip, state
  <1>12. CASE ShowBegins \/ HideBegins \/ HandleFocus \/ HandleMessage
    BY <1>8, <1>12 DEF ShowBegins, HideBegins, HandleFocus, HandleMessage, state
  <1>13. CASE PaintWidgets \/ Update \/ ShowEnds \/ HideKeepsWindow
    BY <1>8, <1>13 DEF PaintWidgets, Update, ShowEnds, HideKeepsWindow, state
  <1>14. ASSUME NEW c \in Containers, NEW w \in Widgets,
                AddWidget(c, w) \/ RemoveWidget(c, w)
         PROVE  UNCHANGED heard
    BY <1>14 DEF AddWidget, RemoveWidget
  <1>15. ASSUME NEW c \in Containers, Construct(c) PROVE UNCHANGED heard
    BY <1>15 DEF Construct
  <1>16. ASSUME NEW c \in Containers, NEW focus \in BOOLEAN, SetFocus(c, focus)
         PROVE  UNCHANGED heard
    BY <1>16 DEF SetFocus
  <1>17. CASE UNCHANGED vars
    BY <1>8, <1>17 DEF vars, state
  <1> QED
    BY <1>2, <1>3, <1>4, <1>5, <1>6, <1>7, <1>8, <1>9, <1>10, <1>11, <1>12, <1>13, <1>14,
       <1>15, <1>16, <1>17
    DEF Next, Poster, Loop, Application

\* It never hears of the same thing twice in a row, onCreate() excepted.
LEMMA HearsSomethingNew ==
  ASSUME ContainerInv, NotifyShow \/ NotifyHide PROVE heard' # heard
  <1>1. /\ current \in Containers
        /\ \/ NotifyShow /\ heard[current] # "onShow"
           \/ NotifyHide /\ heard[current] # "onHide"
    BY DEF NotifyShow, NotifyHide, ContainerInv, TypeOK, OneAtATime, Showing, Hiding
  <1> QED
    BY <1>1 DEF NotifyShow, NotifyHide, Hear, ContainerInv, TypeOK

\* Whatever is requested and whatever fails, a listener hears its callbacks in
\* the order of AbstractContainer.
THEOREM ProtocolKept == Spec => KeepsProtocol
  <1>1. Init => Listener!ListenerInit
    BY DEF Init, Listener!ListenerInit
  <1>2. ContainerInv /\ [Next]_vars =>
          [Listener!ListenerNext]_heard /\ [NotifyShow \/ NotifyHide => heard' # heard]_vars
    BY ListenerStep, HearsSomethingNew
  <1> QED
    BY <1>1, <1>2, ContainerInvariant, PTL DEF Spec, KeepsProtocol, Listener!ListenerSpec

=============================================================================
