---------------------------- MODULE ParcelProofs ----------------------------
(***************************************************************************)
(* For any fields, any sizes of messages and pipe and any pieces in which  *)
(* the pipe takes and gives them: a parcel keeps its fields, and they are  *)
(* received as they were written.                                          *)
(***************************************************************************)
EXTENDS Parcel, Integers, SequenceTheorems, WellFoundedInduction, TLAPS

\* What is in a block or in the pipe.
Cells == Nat \cup Byte \cup {Junk}

----------------------------------------------------------------------------
(* Induction, and sequences of sequences *)

\* The order of the natural numbers is well founded.
LEMMA LessThan ==
  \E R : IsWellFoundedOn(R, Nat) /\ \A k, m \in Nat : k < m => <<k, m>> \in R
  <1>1. IsWellFoundedOn(OpToRel(<, Nat), Nat)
    BY NatLessThanWellFounded
  <1>2. \A k, m \in Nat : k < m => <<k, m>> \in OpToRel(<, Nat)
    BY DEF OpToRel
  <1> QED
    BY <1>1, <1>2

\* A set of natural numbers that is not empty has a least element.
LEMMA LeastElement ==
  ASSUME NEW T \in SUBSET Nat, T # {}
  PROVE  \E m \in T : \A k \in T : m <= k
  <1>1. PICK R : /\ IsWellFoundedOn(R, Nat)
                 /\ \A k, m \in Nat : k < m => <<k, m>> \in R
    BY LessThan
  <1>2. T \subseteq Nat
    OBVIOUS
  <1>3. IsWellFoundedOn(R, Nat)
    BY <1>1
  <1>4. PICK m \in T : \A k \in T : ~(<<k, m>> \in R)
    BY <1>3, <1>2, WFMin, Zenon
  <1>5. \A k \in T : ~(k < m)
    BY <1>1, <1>2, <1>4, Zenon
  <1>6. \A k \in T : m <= k
    BY <1>2, <1>5
  <1> QED
    BY <1>6

\* Induction, for a set instead of a predicate.
LEMMA Induction ==
  ASSUME NEW P \in SUBSET Nat, 0 \in P, \A n \in P : n + 1 \in P
  PROVE  P = Nat
  <1> SUFFICES ASSUME Nat \ P # {} PROVE FALSE
    OBVIOUS
  <1>1. PICK m \in Nat \ P : \A k \in Nat \ P : m <= k
    BY LeastElement
  <1>2. m # 0 /\ m - 1 \in P
    BY <1>1
  <1> QED
    BY <1>1, <1>2

\* The prefixes of a sequence of sequences can be laid end to end one after
\* the other.
LEMMA PrefixExists ==
  ASSUME NEW D, NEW ss \in Seq(Seq(D)), NEW N \in Nat, N <= Len(ss)
  PROVE  \E f \in [1..N -> Seq(D)] :
           /\ N > 0 => f[1] = ss[1]
           /\ \A i \in 1..N : i + 1 <= N => f[i+1] = f[i] \o ss[i+1]
  <1> DEFINE Is(f, n) == /\ n > 0 => f[1] = ss[1]
                         /\ \A i \in 1..n : i + 1 <= n => f[i+1] = f[i] \o ss[i+1]
             P == {n \in Nat : n <= Len(ss) => \E f \in [1..n -> Seq(D)] : Is(f, n)}
  <1>1. 0 \in P
    <2> DEFINE f == [i \in 1..0 |-> <<>>]
    <2>1. f \in [1..0 -> Seq(D)] /\ Is(f, 0)
      OBVIOUS
    <2> QED
      BY <2>1
  <1>2. ASSUME NEW n \in P PROVE n + 1 \in P
    <2> SUFFICES ASSUME n + 1 <= Len(ss)
                 PROVE \E f \in [1..n+1 -> Seq(D)] : Is(f, n+1)
      <3> HIDE DEF Is
      <3> QED
        OBVIOUS
    <2>1. n \in Nat /\ n <= Len(ss)
      BY LenProperties
    <2>2. PICK f \in [1..n -> Seq(D)] : Is(f, n)
      BY <2>1
    <2>3. ss[n+1] \in Seq(D)
      BY <2>1, ElementOfSeq
    <2> DEFINE g == [i \in 1..n+1 |-> IF i <= n THEN f[i]
                                      ELSE IF n = 0 THEN ss[1] ELSE f[n] \o ss[n+1]]
    <2>4. g \in [1..n+1 -> Seq(D)]
      BY <2>3, <2>1, ConcatProperties
    <2>5. n + 1 > 0 => g[1] = ss[1]
      BY <2>2, <2>1
    <2>6. ASSUME NEW i \in 1..n+1, i + 1 <= n + 1 PROVE g[i+1] = g[i] \o ss[i+1]
      <3>1. i \in 1..n /\ g[i] = f[i] /\ i + 1 \in 1..n+1
        BY <2>6, <2>1
      <3>2. CASE i = n
        BY <3>1, <3>2, <2>1
      <3>3. CASE i # n
        <4>1. i + 1 <= n /\ g[i+1] = f[i+1]
          BY <3>1, <3>3, <2>1
        <4> QED
          BY <3>1, <4>1, <2>2
      <3> QED
        BY <3>2, <3>3
    <2> QED
      BY <2>4, <2>5, <2>6
  <1>3. P = Nat
    <2> HIDE DEF P
    <2>1. P \in SUBSET Nat
      BY DEF P
    <2> QED
      BY <1>1, <1>2, <2>1, Induction
  <1> QED
    BY <1>3

\* FlattenSeq() is the last of them.
LEMMA FlattenIs ==
  ASSUME NEW D, NEW ss \in Seq(Seq(D)), ss # <<>>
  PROVE  \E f \in [1..Len(ss) -> Seq(D)] :
           /\ FlattenSeq(ss) = f[Len(ss)]
           /\ f[1] = ss[1]
           /\ \A i \in 1..Len(ss) : i + 1 <= Len(ss) => f[i+1] = f[i] \o ss[i+1]
  <1> DEFINE N == Len(ss)
             Flat(f) == f = [i \in 1..N |-> IF i = 1 THEN ss[i] ELSE f[i-1] \o ss[i]]
             h == CHOOSE f : Flat(f)
  <1>1. N \in Nat /\ N # 0
    BY EmptySeq
  <1>2. PICK g \in [1..N -> Seq(D)] :
           /\ N > 0 => g[1] = ss[1]
           /\ \A i \in 1..N : i + 1 <= N => g[i+1] = g[i] \o ss[i+1]
    <2>1. N \in Nat /\ N <= Len(ss)
      BY <1>1
    <2> QED
      BY <2>1, PrefixExists, Zenon
  <1>3. \A i \in 1..N : g[i] = IF i = 1 THEN ss[i] ELSE g[i-1] \o ss[i]
    <2> TAKE i \in 1..N
    <2>1. CASE i = 1
      BY <1>2, <2>1, <1>1
    <2>2. CASE i # 1
      <3>1. (i-1) \in 1..N /\ (i-1) + 1 = i /\ i <= N
        BY <2>2, <1>1
      <3> QED
        BY <1>2, <3>1, <2>2
    <2> QED
      BY <2>1, <2>2
  <1>4. Flat(g)
    BY <1>3
  <1>5. Flat(h)
    <2> HIDE DEF Flat
    <2> QED
      BY <1>4, Zenon
  <1>6. FlattenSeq(ss) = h[N]
    BY <1>1 DEF FlattenSeq
  <1> HIDE DEF h
  <1>7. \A i \in 1..N : h[i] = IF i = 1 THEN ss[i] ELSE h[i-1] \o ss[i]
    BY <1>5, Zenon
  <1> HIDE DEF N
  <1>8. h = g
    <2> DEFINE P == {n \in Nat : n \in 1..N => h[n] = g[n]}
    <2>1. 0 \in P
      OBVIOUS
    <2>2. ASSUME NEW n \in P PROVE n + 1 \in P
      <3> SUFFICES ASSUME n + 1 \in 1..N PROVE h[n+1] = g[n+1]
        OBVIOUS
      <3>1. CASE n = 0
        <4>1. 1 \in 1..N
          BY <1>1
        <4>2. h[1] = ss[1] /\ g[1] = ss[1]
          BY <4>1, <1>3, <1>7, Zenon
        <4> QED
          BY <3>1, <4>2
      <3>2. CASE n # 0
        <4>1. n \in 1..N /\ n + 1 # 1 /\ (n + 1) - 1 = n
          BY <3>2, <1>1
        <4>2. h[n+1] = h[n] \o ss[n+1] /\ g[n+1] = g[n] \o ss[n+1]
          BY <4>1, <1>3, <1>7, Zenon
        <4> QED
          BY <4>1, <4>2
      <3> QED
        BY <3>1, <3>2
    <2>3. P = Nat
      <3>1. P \in SUBSET Nat
        BY DEF P
      <3> HIDE DEF P
      <3> QED
        BY <2>1, <2>2, <3>1, Induction
    <2>4. h = [i \in 1..N |-> h[i]]
      BY <1>5
    <2>5. \A i \in 1..N : h[i] = g[i]
      BY <2>3
    <2> QED
      BY <2>4, <2>5
  <1> QED
    <2>1. g[1] = ss[1]
      BY <1>1, <1>2
    <2>2. FlattenSeq(ss) = g[N]
      BY <1>6, <1>8
    <2> QED
      BY <1>2, <2>1, <2>2, Zenon DEF N

\* One more sequence comes to lie at the end.
LEMMA FlattenAppend ==
  ASSUME NEW D, NEW ss \in Seq(Seq(D)), NEW x \in Seq(D)
  PROVE  /\ FlattenSeq(ss) \in Seq(D)
         /\ FlattenSeq(Append(ss, x)) = FlattenSeq(ss) \o x
  <1> DEFINE n == Len(ss)  tt == Append(ss, x)
  <1>1. /\ n \in Nat /\ tt \in Seq(Seq(D)) /\ tt # <<>> /\ Len(tt) = n + 1 /\ tt[n+1] = x
        /\ \A i \in 1..n : tt[i] = ss[i]
    BY AppendProperties, LenProperties
  <1>2. PICK g \in [1..Len(tt) -> Seq(D)] :
           /\ FlattenSeq(tt) = g[Len(tt)]
           /\ g[1] = tt[1]
           /\ \A i \in 1..Len(tt) : i + 1 <= Len(tt) => g[i+1] = g[i] \o tt[i+1]
    <2> HIDE DEF tt
    <2> QED
      BY <1>1, FlattenIs
  <1>3. CASE ss = <<>>
    <2>1. FlattenSeq(ss) = <<>> /\ n = 0
      BY <1>3 DEF FlattenSeq
    <2> QED
      BY <1>1, <1>2, <2>1, ConcatEmptySeq
  <1>4. CASE ss # <<>>
    <2>1. PICK f \in [1..n -> Seq(D)] :
           /\ FlattenSeq(ss) = f[n]
           /\ f[1] = ss[1]
           /\ \A i \in 1..n : i + 1 <= n => f[i+1] = f[i] \o ss[i+1]
      BY <1>4, FlattenIs
    <2> HIDE DEF tt, n
    <2>2. n > 0
      BY <1>4, EmptySeq DEF n
    <2>3. f[n] = g[n]
      <3> DEFINE P == {k \in Nat : k \in 1..n => f[k] = g[k]}
      <3>1. 0 \in P
        OBVIOUS
      <3>2. ASSUME NEW k \in P PROVE k + 1 \in P
        <4> SUFFICES ASSUME k + 1 \in 1..n PROVE f[k+1] = g[k+1]
          OBVIOUS
        <4>1. CASE k = 0
          BY <4>1, <1>1, <1>2, <2>1
        <4>2. CASE k # 0
          <5>1. k \in 1..n /\ k \in 1..Len(tt) /\ k + 1 <= n /\ k + 1 <= Len(tt)
            BY <4>2, <1>1
          <5>2. f[k+1] = f[k] \o ss[k+1]
            BY <5>1, <2>1, Zenon
          <5>3. g[k+1] = g[k] \o tt[k+1]
            BY <5>1, <1>2, Zenon
          <5> QED
            BY <5>1, <5>2, <5>3, <1>1
        <4> QED
          BY <4>1, <4>2
      <3>3. P = Nat
        <4>1. P \in SUBSET Nat
          BY DEF P
        <4> HIDE DEF P
        <4> QED
          BY <3>1, <3>2, <4>1, Induction
      <3>4. n \in Nat /\ n \in 1..n
        BY <2>2, <1>1
      <3>5. n \in P
        <4> HIDE DEF P
        <4> QED
          BY <3>3, <3>4
      <3> QED
        BY <3>4, <3>5
    <2>4. g[n+1] = g[n] \o tt[n+1]
      <3>1. n \in 1..Len(tt) /\ n + 1 <= Len(tt)
        BY <1>1, <2>2
      <3> QED
        BY <3>1, <1>2, Zenon
    <2>5. f[n] \in Seq(D)
      BY <2>1, <2>2, <1>1
    <2> QED
      BY <1>1, <1>2, <2>1, <2>3, <2>4, <2>5 DEF tt
  <1> QED
    BY <1>3, <1>4

\* The elements of the whole are those of its parts.
LEMMA FlattenType ==
  ASSUME NEW D, NEW ss \in Seq(Seq(D)) PROVE FlattenSeq(ss) \in Seq(D)
  <1>1. <<>> \in Seq(D)
    BY EmptySeq
  <1> QED
    BY <1>1, FlattenAppend

\* The order in which three sequences are put together does not matter.
LEMMA Associative ==
  ASSUME NEW D PROVE \A s, t, u \in Seq(D) : (s \o t) \o u = s \o (t \o u)
  <1> TAKE s, t, u \in Seq(D)
  <1>1. (s \o t) \o u \in Seq(D) /\ s \o (t \o u) \in Seq(D)
    BY ConcatProperties
  <1> QED
    BY ConcatAssociative

LEMMA CellsAssociate == \A x, y, z \in Seq(Cells) : (x \o y) \o z = x \o (y \o z)
  BY Associative

LEMMA BytesAssociate == \A x, y, z \in Seq(Byte) : (x \o y) \o z = x \o (y \o z)
  BY Associative

LEMMA NumbersAssociate == \A x, y, z \in Seq(Nat) : (x \o y) \o z = x \o (y \o z)
  <1> DEFINE D == Nat
  <1> HIDE DEF D
  <1>1. \A x, y, z \in Seq(D) : (x \o y) \o z = x \o (y \o z)
    BY Associative
  <1> QED
    BY <1>1 DEF D

\* The first sequence lies at the beginning.
LEMMA FlattenHead ==
  ASSUME NEW D
  PROVE  \A ss \in Seq(Seq(D)) :
           ss # <<>> => FlattenSeq(ss) = Head(ss) \o FlattenSeq(Tail(ss))
  <1>1. \A s, t, u \in Seq(D) : (s \o t) \o u = s \o (t \o u)
    BY Associative
  <1> DEFINE P == {n \in Nat : \A s \in Seq(Seq(D)) :
                       Len(s) = n + 1 => FlattenSeq(s) = Head(s) \o FlattenSeq(Tail(s))}
  <1>2. 0 \in P
    <2> SUFFICES ASSUME NEW s \in Seq(Seq(D)), Len(s) = 1
                 PROVE  FlattenSeq(s) = Head(s) \o FlattenSeq(Tail(s))
      OBVIOUS
    <2>1. 0 # 1 /\ Len(<<>>) = 0
      BY EmptySeq
    <2>2. s # <<>>
      BY <2>1, Zenon
    <2>3. PICK t \in Seq(Seq(D)), x \in Seq(D) : s = Append(t, x)
      BY <2>2, SequenceEmptyOrAppend
    <2>4. t = <<>>
      BY <2>3, AppendProperties, EmptySeq
    <2>5. Head(s) = x /\ Tail(s) = <<>>
      BY <2>3, <2>4, HeadTailAppend
    <2>6. FlattenSeq(<<>>) = <<>>
      BY DEF FlattenSeq
    <2>7. FlattenSeq(s) = <<>> \o x
      BY <2>3, <2>4, <2>6, FlattenAppend, Zenon
    <2> QED
      BY <2>3, <2>5, <2>6, <2>7, ConcatEmptySeq
  <1>3. ASSUME NEW n \in P PROVE n + 1 \in P
    <2> SUFFICES ASSUME NEW s \in Seq(Seq(D)), Len(s) = n + 1 + 1
                 PROVE  FlattenSeq(s) = Head(s) \o FlattenSeq(Tail(s))
      OBVIOUS
    <2>1. s # <<>>
      BY EmptySeq
    <2>2. PICK t \in Seq(Seq(D)), x \in Seq(D) : s = Append(t, x)
      BY <2>1, SequenceEmptyOrAppend
    <2>3. Len(t) = n + 1 /\ t # <<>>
      BY <2>2, AppendProperties, EmptySeq, LenProperties
    <2>4. Head(s) = Head(t) /\ Tail(s) = Append(Tail(t), x)
      BY <2>2, <2>3, HeadTailAppend
    <2>5. Tail(t) \in Seq(Seq(D)) /\ Head(t) \in Seq(D)
      BY <2>3, HeadTailProperties
    <2>6. FlattenSeq(t) = Head(t) \o FlattenSeq(Tail(t))
      BY <2>3
    <2>7. /\ FlattenSeq(s) = FlattenSeq(t) \o x
          /\ FlattenSeq(Tail(s)) = FlattenSeq(Tail(t)) \o x
          /\ FlattenSeq(Tail(t)) \in Seq(D)
      BY <2>2, <2>4, <2>5, FlattenAppend, Zenon
    <2>8. (Head(t) \o FlattenSeq(Tail(t))) \o x = Head(t) \o (FlattenSeq(Tail(t)) \o x)
      BY <1>1, <2>5, <2>7
    <2> QED
      BY <2>4, <2>6, <2>7, <2>8, Zenon
  <1>4. P = Nat
    <2> HIDE DEF P
    <2>1. P \in SUBSET Nat
      BY DEF P
    <2> QED
      BY <1>2, <1>3, <2>1, Induction
  <1> SUFFICES ASSUME NEW ss \in Seq(Seq(D)), ss # <<>>
               PROVE  FlattenSeq(ss) = Head(ss) \o FlattenSeq(Tail(ss))
    OBVIOUS
  <1>5. Len(ss) - 1 \in Nat /\ Len(ss) = (Len(ss) - 1) + 1
    BY EmptySeq
  <1> QED
    BY <1>4, <1>5
----------------------------------------------------------------------------
(* Parts of sequences *)

\* Two ways to cut a sequence at the same place are the same.
LEMMA SameCut ==
  ASSUME NEW D, NEW s \in Seq(D), NEW t \in Seq(D), NEW u \in Seq(D), NEW v \in Seq(D),
         s \o t = u \o v, Len(s) = Len(u)
  PROVE  s = u /\ t = v
  <1>1. ASSUME NEW i \in 1..Len(s) PROVE s[i] = u[i]
    <2>1. i \in 1..Len(s) + Len(t) /\ i <= Len(s) /\ i \in 1..Len(u) + Len(v)
      BY LenProperties
    <2>2. (s \o t)[i] = s[i] /\ (u \o v)[i] = u[i]
      BY <2>1, ConcatProperties
    <2> QED
      BY <2>2
  <1>2. s = u
    BY <1>1, SeqEqual
  <1>3. \A S : \A p, q, r \in Seq(S) : p \o q = p \o r => q = r
    BY ConcatSimplifications
  <1> QED
    BY <1>2, <1>3

\* A part of a sequence.
LEMMA Part ==
  ASSUME NEW D, NEW s \in Seq(D), NEW a \in Nat \ {0}, NEW b \in 0..Len(s)
  PROVE  /\ SubSeq(s, a, b) \in Seq(D)
         /\ Len(SubSeq(s, a, b)) = IF a <= b THEN b - a + 1 ELSE 0
         /\ \A i \in 1..(b - a + 1) : SubSeq(s, a, b)[i] = s[a + i - 1]
  <1>1. \A i \in a..b : s[i] \in D
    BY ElementOfSeq, LenProperties
  <1> QED
    BY <1>1, SubSeqProperties

\* A sequence is its beginning and the rest.
LEMMA Cut ==
  ASSUME NEW D, NEW s \in Seq(D), NEW n \in 0..Len(s)
  PROVE  /\ SubSeq(s, 1, n) \in Seq(D) /\ Len(SubSeq(s, 1, n)) = n
         /\ SubSeq(s, n + 1, Len(s)) \in Seq(D) /\ Len(SubSeq(s, n + 1, Len(s))) = Len(s) - n
         /\ SubSeq(s, 1, n) \o SubSeq(s, n + 1, Len(s)) = s
  <1>1. /\ Len(s) \in Nat /\ 1 \in Nat \ {0} /\ n + 1 \in Nat \ {0} /\ Len(s) \in 0..Len(s)
        /\ 1 \in 1..Len(s) + 1 /\ n \in 1 - 1..Len(s) /\ Len(s) \in n..Len(s)
    BY LenProperties
  <1>2. /\ SubSeq(s, 1, n) \in Seq(D)
        /\ Len(SubSeq(s, 1, n)) = IF 1 <= n THEN n - 1 + 1 ELSE 0
    BY <1>1, Part
  <1>3. /\ SubSeq(s, n + 1, Len(s)) \in Seq(D)
        /\ Len(SubSeq(s, n + 1, Len(s))) = IF n + 1 <= Len(s) THEN Len(s) - (n + 1) + 1 ELSE 0
    BY <1>1, Part
  <1>4. SubSeq(s, 1, n) \o SubSeq(s, n + 1, Len(s)) = SubSeq(s, 1, Len(s))
    BY <1>1, ConcatAdjacentSubSeq
  <1>5. SubSeq(s, 1, Len(s)) = s
    BY SubSeqFull
  <1>6. Len(SubSeq(s, 1, n)) = n
    BY <1>2
  <1>7. Len(SubSeq(s, n + 1, Len(s))) = Len(s) - n
    BY <1>1, <1>3
  <1> QED
    BY <1>2, <1>3, <1>4, <1>5, <1>6, <1>7, Zenon

\* The parts of what was put together.
LEMMA Halves ==
  ASSUME NEW D, NEW x \in Seq(D), NEW y \in Seq(D)
  PROVE  /\ x \o y \in Seq(D) /\ Len(x \o y) = Len(x) + Len(y)
         /\ SubSeq(x \o y, 1, Len(x)) = x
         /\ SubSeq(x \o y, Len(x) + 1, Len(x \o y)) = y
  <1> DEFINE s == x \o y
  <1>1. s \in Seq(D) /\ Len(s) = Len(x) + Len(y)
    BY ConcatProperties
  <1>2. Len(x) \in 0..Len(s)
    BY <1>1, LenProperties
  <1>3. x \o y = s
    OBVIOUS
  <1> HIDE DEF s
  <1>4. /\ SubSeq(s, 1, Len(x)) \in Seq(D) /\ Len(SubSeq(s, 1, Len(x))) = Len(x)
        /\ SubSeq(s, Len(x) + 1, Len(s)) \in Seq(D)
        /\ SubSeq(s, 1, Len(x)) \o SubSeq(s, Len(x) + 1, Len(s)) = s
    BY <1>1, <1>2, Cut
  <1>5. SubSeq(s, 1, Len(x)) = x /\ SubSeq(s, Len(x) + 1, Len(s)) = y
    BY <1>3, <1>4, SameCut
  <1> QED
    BY <1>1, <1>5 DEF s

\* The part in the middle.
LEMMA Middle ==
  ASSUME NEW D, NEW x \in Seq(D), NEW y \in Seq(D), NEW z \in Seq(D)
  PROVE  SubSeq(x \o (y \o z), Len(x) + 1, Len(x) + Len(y)) = y
  <1> DEFINE s == x \o (y \o z)
             m == SubSeq(s, Len(x) + 1, Len(x) + Len(y))
  <1>1. /\ y \o z \in Seq(D) /\ Len(y \o z) = Len(y) + Len(z)
        /\ \A i \in 1..Len(y) + Len(z) : (y \o z)[i] = IF i <= Len(y) THEN y[i] ELSE z[i - Len(y)]
    BY ConcatProperties
  <1>2. /\ s \in Seq(D) /\ Len(s) = Len(x) + Len(y \o z)
        /\ \A i \in 1..Len(x) + Len(y \o z) :
             s[i] = IF i <= Len(x) THEN x[i] ELSE (y \o z)[i - Len(x)]
    BY <1>1, ConcatProperties
  <1>3. Len(x) \in Nat /\ Len(y) \in Nat /\ Len(z) \in Nat
    BY LenProperties
  <1> HIDE DEF s
  <1>4. /\ m \in Seq(D) /\ Len(m) = Len(y)
        /\ \A i \in 1..Len(y) : m[i] = s[Len(x) + i]
    <2> DEFINE a == Len(x) + 1  b == Len(x) + Len(y)
    <2>1. a \in Nat \ {0} /\ b \in 0..Len(s) /\ b - a + 1 = Len(y) /\ (a <= b <=> Len(y) # 0)
      BY <1>1, <1>2, <1>3
    <2>2. \A i \in 1..Len(y) : a + i - 1 = Len(x) + i
      BY <1>3
    <2> HIDE DEF a, b
    <2>3. /\ SubSeq(s, a, b) \in Seq(D)
          /\ Len(SubSeq(s, a, b)) = IF a <= b THEN b - a + 1 ELSE 0
          /\ \A i \in 1..(b - a + 1) : SubSeq(s, a, b)[i] = s[a + i - 1]
      BY <1>2, <2>1, Part
    <2>4. m = SubSeq(s, a, b)
      BY DEF a, b
    <2> HIDE DEF m
    <2> QED
      BY <2>1, <2>2, <2>3, <2>4
  <1> HIDE DEF m
  <1>5. ASSUME NEW i \in 1..Len(m) PROVE m[i] = y[i]
    <2>1. /\ i \in 1..Len(y) /\ i \in 1..Len(y) + Len(z) /\ i <= Len(y)
          /\ Len(x) + i \in 1..Len(x) + Len(y \o z) /\ ~(Len(x) + i <= Len(x))
          /\ (Len(x) + i) - Len(x) = i
      BY <1>1, <1>3, <1>4
    <2>2. s[Len(x) + i] = (y \o z)[i]
      BY <1>2, <2>1
    <2> QED
      BY <1>1, <1>4, <2>1, <2>2
  <1>6. m = y
    BY <1>4, <1>5, SeqEqual
  <1> QED
    BY <1>6 DEF m, s

\* A part of the beginning is that part of the whole.
LEMMA PartOfFirst ==
  ASSUME NEW D, NEW s \in Seq(D), NEW n \in 0..Len(s), NEW a \in Nat, NEW b \in Nat, b <= n
  PROVE  SubSeq(s, a + 1, b) = SubSeq(SubSeq(s, 1, n), a + 1, b)
  <1> DEFINE t == SubSeq(s, 1, n)
  <1>1. /\ Len(s) \in Nat /\ 1 \in Nat \ {0} /\ a + 1 \in Nat \ {0} /\ b \in 0..Len(s)
        /\ b \in 0..n
    BY LenProperties
  <1>2. t \in Seq(D) /\ Len(t) = n /\ \A i \in 1..(n - 1 + 1) : t[i] = s[1 + i - 1]
    BY <1>1, Part, Cut
  <1> HIDE DEF t
  <1> DEFINE x == SubSeq(s, a + 1, b)  y == SubSeq(t, a + 1, b)
  <1>3. /\ x \in Seq(D) /\ Len(x) = IF a + 1 <= b THEN b - (a + 1) + 1 ELSE 0
        /\ \A i \in 1..(b - (a + 1) + 1) : x[i] = s[(a + 1) + i - 1]
    BY <1>1, Part
  <1>4. /\ y \in Seq(D) /\ Len(y) = IF a + 1 <= b THEN b - (a + 1) + 1 ELSE 0
        /\ \A i \in 1..(b - (a + 1) + 1) : y[i] = t[(a + 1) + i - 1]
    BY <1>1, <1>2, Part
  <1> HIDE DEF x, y
  <1>5. ASSUME NEW i \in 1..Len(x) PROVE x[i] = y[i]
    <2>1. i \in 1..(b - (a + 1) + 1)
      BY <1>1, <1>3
    <2>2. (a + 1) + i - 1 \in 1..(n - 1 + 1) /\ 1 + ((a + 1) + i - 1) - 1 = (a + 1) + i - 1
      BY <1>1, <2>1
    <2> QED
      BY <1>2, <1>3, <1>4, <2>1, <2>2
  <1>6. x = y
    BY <1>3, <1>4, <1>5, SeqEqual
  <1> QED
    BY <1>6 DEF x, y, t

----------------------------------------------------------------------------
(* The block *)

\* Bytes that are copied into a block come behind what they leave there.
LEMMA OverwrittenIs ==
  ASSUME NEW D, NEW data \in Seq(D), NEW bytes \in Seq(D), NEW pos \in Nat,
         pos + Len(bytes) <= Len(data)
  PROVE  /\ Overwritten(data, pos, bytes) \in Seq(D)
         /\ Len(Overwritten(data, pos, bytes)) = Len(data)
         /\ SubSeq(Overwritten(data, pos, bytes), 1, pos + Len(bytes))
              = SubSeq(data, 1, pos) \o bytes
  <1> DEFINE new == Overwritten(data, pos, bytes)
             n == pos + Len(bytes)
             x == SubSeq(new, 1, n)
             y == SubSeq(data, 1, pos)
  <1>1. /\ Len(data) \in Nat /\ Len(bytes) \in Nat /\ n \in 0..Len(data) /\ pos \in 0..Len(data)
        /\ \A i \in 1..Len(data) : data[i] \in D
        /\ \A i \in 1..Len(bytes) : bytes[i] \in D
    BY LenProperties, ElementOfSeq
  <1>2. ASSUME NEW i \in 1..Len(data)
        PROVE  (IF i \in pos + 1 .. pos + Len(bytes) THEN bytes[i - pos] ELSE data[i]) \in D
    <2>1. CASE i \in pos + 1 .. pos + Len(bytes)
      <3>1. i - pos \in 1..Len(bytes)
        BY <1>1, <2>1
      <3> QED
        BY <1>1, <2>1, <3>1
    <2> QED
      BY <1>1, <2>1
  <1>3. /\ new \in Seq(D) /\ Len(new) = Len(data)
        /\ \A i \in 1..Len(data) :
             new[i] = IF i \in pos + 1 .. pos + Len(bytes) THEN bytes[i - pos] ELSE data[i]
    BY <1>1, <1>2 DEF Overwritten
  <1> HIDE DEF new
  <1>4. /\ x \in Seq(D) /\ Len(x) = n
        /\ \A i \in 1..n : x[i] = new[i]
    <2>1. 1 \in Nat \ {0} /\ n \in 0..Len(new)
      BY <1>1, <1>3
    <2> HIDE DEF n
    <2>2. /\ x \in Seq(D) /\ Len(x) = IF 1 <= n THEN n - 1 + 1 ELSE 0
          /\ \A i \in 1..(n - 1 + 1) : x[i] = new[1 + i - 1]
      BY <1>3, <2>1, Part
    <2> QED
      BY <2>1, <2>2
  <1>5. /\ y \in Seq(D) /\ Len(y) = pos
        /\ \A i \in 1..pos : y[i] = data[i]
    <2>1. 1 \in Nat \ {0}
      OBVIOUS
    <2>2. /\ y \in Seq(D) /\ Len(y) = IF 1 <= pos THEN pos - 1 + 1 ELSE 0
          /\ \A i \in 1..(pos - 1 + 1) : y[i] = data[1 + i - 1]
      BY <1>1, <2>1, Part
    <2> QED
      BY <2>2
  <1> HIDE DEF y, x
  <1>6. /\ y \o bytes \in Seq(D) /\ Len(y \o bytes) = n
        /\ \A i \in 1..n : (y \o bytes)[i] = IF i <= pos THEN y[i] ELSE bytes[i - pos]
    BY <1>5, ConcatProperties
  <1>7. ASSUME NEW i \in 1..Len(x) PROVE x[i] = (y \o bytes)[i]
    <2>1. i \in 1..n /\ i \in 1..Len(data) /\ (i \in pos + 1 .. pos + Len(bytes) <=> ~(i <= pos))
      BY <1>1, <1>4
    <2>2. i <= pos => i \in 1..pos
      OBVIOUS
    <2> QED
      BY <1>3, <1>4, <1>5, <1>6, <2>1, <2>2
  <1>8. x = y \o bytes
    <2> HIDE DEF n
    <2> QED
      BY <1>4, <1>6, <1>7, SeqEqual
  <1> QED
    BY <1>3, <1>8 DEF new, x, y

\* A block that grows keeps its bytes.
LEMMA ResizedIs ==
  ASSUME NEW D, Junk \in D, NEW data \in Seq(D), NEW n \in Nat, Len(data) <= n,
         NEW k \in 0..Len(data)
  PROVE  /\ Resized(data, n) \in Seq(D) /\ Len(Resized(data, n)) = n
         /\ SubSeq(Resized(data, n), 1, k) = SubSeq(data, 1, k)
  <1> DEFINE new == Resized(data, n)  x == SubSeq(new, 1, k)  y == SubSeq(data, 1, k)
  <1>1. /\ Len(data) \in Nat /\ \A i \in 1..Len(data) : data[i] \in D
    BY LenProperties, ElementOfSeq
  <1>2. \A i \in 1..n : (IF i <= Len(data) THEN data[i] ELSE Junk) \in D
    BY <1>1
  <1>3. /\ new \in Seq(D) /\ Len(new) = n
        /\ \A i \in 1..n : new[i] = IF i <= Len(data) THEN data[i] ELSE Junk
    BY <1>2 DEF Resized
  <1> HIDE DEF new
  <1>4. 1 \in Nat \ {0} /\ k \in 0..Len(new) /\ k \in 0..Len(data)
    BY <1>1, <1>3
  <1>5. /\ x \in Seq(D) /\ Len(x) = IF 1 <= k THEN k - 1 + 1 ELSE 0
        /\ \A i \in 1..(k - 1 + 1) : x[i] = new[1 + i - 1]
    BY <1>3, <1>4, Part
  <1>6. /\ y \in Seq(D) /\ Len(y) = IF 1 <= k THEN k - 1 + 1 ELSE 0
        /\ \A i \in 1..(k - 1 + 1) : y[i] = data[1 + i - 1]
    BY <1>4, Part
  <1> HIDE DEF x, y
  <1>7. ASSUME NEW i \in 1..Len(x) PROVE x[i] = y[i]
    <2>1. i \in 1..(k - 1 + 1) /\ 1 + i - 1 = i /\ i \in 1..n /\ i <= Len(data)
      BY <1>1, <1>4, <1>5
    <2> QED
      BY <1>3, <1>5, <1>6, <2>1
  <1>8. x = y
    BY <1>5, <1>6, <1>7, SeqEqual
  <1> QED
    BY <1>3, <1>8 DEF new, x, y

\* The sizes of blocks are natural numbers, below 2^31.
LEMMA Sizes ==
  /\ MaxData \in Nat /\ DefaultSize \in Nat
  /\ \A n \in Nat : n <= (MaxData * 3) \div 2 \/ n <= DefaultSize => n \div 16777216 \in Byte
  <1>1. MaxData \in Nat /\ DefaultSize \in Nat
    BY WidthAssumption, SMT
  <1>2. (MaxData * 3) \div 2 <= 1073741823 /\ DefaultSize <= 1073741823
    BY WidthAssumption, SMT
  <1>3. \A n \in Nat : n <= 1073741823 => n \div 16777216 \in 0..255
    BY SMT
  <1> QED
    BY <1>1, <1>2, <1>3, SMT DEF Byte

\* The block that a write grows has room for what comes.
LEMMA NewSizeIs ==
  ASSUME NEW capacity \in Nat, NEW len \in Nat
  PROVE  /\ NewSize(capacity, len) \in Nat /\ NewSize(capacity, len) >= capacity + len
         /\ NewSize(capacity, len) = ((capacity + len) * 3) \div 2
              \/ NewSize(capacity, len) = DefaultSize
         /\ NewSize(capacity, len) >= ((capacity + len) * 3) \div 2
         /\ NewSize(capacity, len) >= DefaultSize
  <1> DEFINE a == ((capacity + len) * 3) \div 2
  <1>1. a \in Nat /\ a >= capacity + len
    OBVIOUS
  <1>2. DefaultSize \in Nat
    BY Sizes
  <1> HIDE DEF a
  <1>3. \E m \in {a, DefaultSize} : \A y \in {a, DefaultSize} : m >= y
    BY <1>2, <1>1
  <1>4. /\ Max({a, DefaultSize}) \in {a, DefaultSize}
        /\ \A y \in {a, DefaultSize} : Max({a, DefaultSize}) >= y
    BY <1>3 DEF Max
  <1>5. NewSize(capacity, len) = Max({a, DefaultSize})
    BY DEF NewSize, a
  <1>6. /\ NewSize(capacity, len) \in Nat /\ NewSize(capacity, len) >= capacity + len
        /\ NewSize(capacity, len) = a \/ NewSize(capacity, len) = DefaultSize
        /\ NewSize(capacity, len) >= a /\ NewSize(capacity, len) >= DefaultSize
    BY <1>2, <1>1, <1>4, <1>5
  <1> QED
    BY <1>6 DEF a

\* It stays below the largest one.
LEMMA LargestSize ==
  ASSUME NEW capacity \in Nat, NEW len \in Nat, capacity + len <= MaxData
  PROVE  NewSize(capacity, len) <= NewSize(MaxData, 0) /\ NewSize(MaxData, 0) \in Nat
  <1> DEFINE a == ((capacity + len) * 3) \div 2  b == ((MaxData + 0) * 3) \div 2
  <1>1. MaxData \in Nat /\ 0 \in Nat
    BY Sizes
  <1>2. a <= b /\ b = (MaxData * 3) \div 2 /\ a \in Nat /\ b \in Nat
    BY <1>1
  <1>3. /\ NewSize(capacity, len) \in Nat
        /\ NewSize(capacity, len) = a \/ NewSize(capacity, len) = DefaultSize
    BY NewSizeIs
  <1>4. /\ NewSize(MaxData, 0) \in Nat
        /\ NewSize(MaxData, 0) = b \/ NewSize(MaxData, 0) = DefaultSize
        /\ NewSize(MaxData, 0) >= b /\ NewSize(MaxData, 0) >= DefaultSize
    BY <1>1, NewSizeIs
  <1> HIDE DEF a, b
  <1>5. DefaultSize \in Nat /\ NewSize(capacity, len) <= NewSize(MaxData, 0)
    BY <1>2, <1>3, <1>4, Sizes
  <1> QED
    BY <1>2, <1>4, <1>5, Sizes

\* The size that recv() decodes is the one that send() encodes.
LEMMA SizeArrives ==
  ASSUME NEW n \in Nat
  PROVE  /\ Value(Header(n)) = n /\ Header(n) \in Seq(Nat) /\ Len(Header(n)) = 4
         /\ n <= NewSize(MaxData, 0) => Header(n) \in Seq(Byte)
  <1>1. (n % 256) + 256 * ((n \div 256) % 256) + 65536 * ((n \div 65536) % 256)
          + 16777216 * (n \div 16777216) = n
    BY SMT
  <1>2. /\ n % 256 \in 0..255 /\ (n \div 256) % 256 \in 0..255 /\ (n \div 65536) % 256 \in 0..255
        /\ n \div 16777216 \in Nat
    BY SMT
  <1>3. n <= NewSize(MaxData, 0) => n \div 16777216 \in Byte
    <2>1. MaxData \in Nat /\ 0 \in Nat /\ MaxData + 0 = MaxData
      BY Sizes
    <2>2. NewSize(MaxData, 0) = (MaxData * 3) \div 2 \/ NewSize(MaxData, 0) = DefaultSize
      BY <2>1, NewSizeIs
    <2> QED
      BY <2>2, Sizes
  <1> QED
    BY <1>1, <1>2, <1>3, SMT DEF Value, Header, Byte

----------------------------------------------------------------------------
(* The bytes of fields *)

\* No field is without bytes, and a value has those of its width.
LEMMA FieldIs ==
  ASSUME NEW f \in Fields
  PROVE  /\ f.bytes \in Seq(Byte) /\ Len(f.bytes) \in Nat \ {0}
         /\ f.kind \in DOMAIN Width => Len(f.bytes) = Width[f.kind]
         /\ f.kind = "string" => \A i \in 1..Len(f.bytes) : f.bytes[i] = 0 <=> i = Len(f.bytes)
  <1>1. f.bytes \in Seq(Byte) /\ IsField(f)
    BY ParcelAssumption
  <1>2. /\ DOMAIN Width = {"u8", "u16", "u32", "u64"}
        /\ \A k \in DOMAIN Width : Width[k] \in Nat \ {0}
    BY DEF Width
  <1>3. DOMAIN f.bytes = 1..Len(f.bytes) /\ (f.bytes # <<>> => Len(f.bytes) \in Nat \ {0})
    BY <1>1, EmptySeq, LenProperties
  <1>4. f.kind \in DOMAIN Width => f.kind # "string" /\ f.kind # "bytes"
    BY <1>2
  <1> QED
    BY <1>1, <1>2, <1>3, <1>4 DEF IsField

\* The bytes of a field come behind those of the fields before it.
LEMMA BytesAppend ==
  ASSUME NEW s \in Seq(Fields), NEW f \in Fields
  PROVE  /\ Bytes(s) \in Seq(Byte)
         /\ Bytes(Append(s, f)) = Bytes(s) \o f.bytes
  <1> DEFINE ss == [i \in 1..Len(s) |-> s[i].bytes]
             tt == [i \in 1..Len(Append(s, f)) |-> Append(s, f)[i].bytes]
  <1>1. /\ Len(s) \in Nat /\ \A i \in 1..Len(s) : s[i] \in Fields
        /\ \A g \in Fields : g.bytes \in Seq(Byte)
    BY LenProperties, ElementOfSeq, FieldIs
  <1>2. ss \in Seq(Seq(Byte)) /\ Len(ss) = Len(s) /\ \A i \in 1..Len(s) : ss[i] = s[i].bytes
    BY <1>1
  <1>3. tt = Append(ss, f.bytes)
    <2>1. /\ Len(Append(s, f)) = Len(s) + 1 /\ Append(s, f)[Len(s) + 1] = f
          /\ \A i \in 1..Len(s) : Append(s, f)[i] = s[i]
      BY AppendProperties
    <2>2. /\ tt \in Seq(Seq(Byte)) /\ Len(tt) = Len(s) + 1 /\ tt[Len(s) + 1] = f.bytes
          /\ \A i \in 1..Len(s) : tt[i] = s[i].bytes
      BY <1>1, <2>1
    <2> HIDE DEF ss, tt
    <2>3. /\ Append(ss, f.bytes) \in Seq(Seq(Byte)) /\ Len(Append(ss, f.bytes)) = Len(s) + 1
          /\ Append(ss, f.bytes)[Len(s) + 1] = f.bytes
          /\ \A i \in 1..Len(s) : Append(ss, f.bytes)[i] = ss[i]
      BY <1>1, <1>2, AppendProperties
    <2>4. ASSUME NEW i \in 1..Len(tt) PROVE tt[i] = Append(ss, f.bytes)[i]
      <3>1. i \in 1..Len(s) \/ i = Len(s) + 1
        BY <1>1, <2>2
      <3> QED
        BY <1>2, <2>2, <2>3, <3>1
    <2> QED
      BY <2>2, <2>3, <2>4, SeqEqual
  <1>4. Bytes(s) = FlattenSeq(ss) /\ Bytes(Append(s, f)) = FlattenSeq(tt)
    BY DEF Bytes
  <1>5. f.bytes \in Seq(Byte)
    BY FieldIs
  <1> HIDE DEF ss, tt
  <1> QED
    BY <1>2, <1>3, <1>4, <1>5, FlattenAppend

LEMMA NoBytes == Bytes(<<>>) = <<>>
  <1>1. [i \in 1..Len(<<>>) |-> <<>>[i].bytes] = <<>>
    BY EmptySeq
  <1>2. FlattenSeq(<<>>) = <<>>
    BY DEF FlattenSeq
  <1> QED
    BY <1>1, <1>2 DEF Bytes

LEMMA BytesType ==
  ASSUME NEW s \in Seq(Fields) PROVE Bytes(s) \in Seq(Byte) /\ Len(Bytes(s)) \in Nat
  <1>1. \A f \in Fields : Bytes(s) \in Seq(Byte)
    BY BytesAppend
  <1>2. CASE s = <<>>
    BY <1>2, NoBytes, EmptySeq
  <1>3. CASE s # <<>>
    BY <1>1, <1>3, HeadTailProperties, LenProperties
  <1> QED
    BY <1>2, <1>3

\* The first k fields and the one behind them.
LEMMA NextPrefix ==
  ASSUME NEW s \in Seq(Fields), NEW k \in Nat, k < Len(s)
  PROVE  /\ SubSeq(s, 1, k) \in Seq(Fields) /\ s[k + 1] \in Fields
         /\ Bytes(SubSeq(s, 1, k + 1)) = Bytes(SubSeq(s, 1, k)) \o s[k + 1].bytes
  <1>1. k \in 0..Len(s) /\ k + 1 \in 1..Len(s) /\ 1 \in 1..Len(s) /\ (k + 1) - 1 = k
    BY LenProperties
  <1>2. SubSeq(s, 1, k) \in Seq(Fields) /\ s[k + 1] \in Fields
    BY <1>1, Cut, ElementOfSeq
  <1>3. SubSeq(s, 1, k + 1) = SubSeq(s, 1, k) \o <<s[k + 1]>>
    BY <1>1, SubSeqRecursiveSecond
  <1>4. SubSeq(s, 1, k + 1) = Append(SubSeq(s, 1, k), s[k + 1])
    BY <1>2, <1>3, AppendIsConcat
  <1> DEFINE x == SubSeq(s, 1, k)  y == SubSeq(s, 1, k + 1)  f == s[k + 1]
  <1>5. x \in Seq(Fields) /\ f \in Fields /\ y = Append(x, f)
    BY <1>2, <1>4
  <1> HIDE DEF x, y, f
  <1>6. Bytes(y) = Bytes(x) \o f.bytes
    BY <1>5, BytesAppend
  <1> QED
    BY <1>5, <1>6 DEF x, y, f

\* The bytes of all fields begin with those of the first ones.
LEMMA PrefixBytes ==
  ASSUME NEW s \in Seq(Fields), NEW k \in 0..Len(s)
  PROVE  \E r \in Seq(Byte) : Bytes(s) = Bytes(SubSeq(s, 1, k)) \o r
  <1> DEFINE Is(j) == \E r \in Seq(Byte) : Bytes(s) = Bytes(SubSeq(s, 1, Len(s) - j)) \o r
             P == {j \in Nat : j <= Len(s) => Is(j)}
  <1>1. Len(s) \in Nat
    BY LenProperties
  <1>2. 0 \in P
    <2>1. Len(s) - 0 = Len(s) /\ SubSeq(s, 1, Len(s)) = s
      BY <1>1, SubSeqFull
    <2>2. Bytes(s) \in Seq(Byte)
      BY BytesType
    <2>3. Bytes(s) = Bytes(s) \o <<>> /\ <<>> \in Seq(Byte)
      BY <2>2, ConcatEmptySeq, EmptySeq
    <2>4. Bytes(s) = Bytes(SubSeq(s, 1, Len(s) - 0)) \o <<>>
      BY <2>1, <2>3
    <2> QED
      BY <2>3, <2>4
  <1>3. ASSUME NEW j \in P PROVE j + 1 \in P
    <2> SUFFICES ASSUME j + 1 <= Len(s) PROVE Is(j + 1)
      <3> HIDE DEF Is
      <3> QED
        OBVIOUS
    <2> DEFINE n == Len(s) - (j + 1)
    <2>1. n \in Nat /\ n < Len(s) /\ n + 1 = Len(s) - j
      <3>1. j \in Nat
        OBVIOUS
      <3> HIDE DEF P, Is
      <3> QED
        BY <1>1, <3>1
    <2>2. j <= Len(s) /\ Len(s) - j = n + 1
      <3>1. j \in Nat
        OBVIOUS
      <3> HIDE DEF P, Is
      <3> QED
        BY <1>1, <2>1, <3>1
    <2>3. Is(j)
      <3> HIDE DEF Is
      <3> QED
        BY <2>2
    <2>4. PICK r \in Seq(Byte) : Bytes(s) = Bytes(SubSeq(s, 1, n + 1)) \o r
      <3> HIDE DEF n
      <3> QED
        BY <2>2, <2>3
    <2> HIDE DEF n
    <2>5. /\ SubSeq(s, 1, n) \in Seq(Fields) /\ s[n + 1] \in Fields
          /\ Bytes(SubSeq(s, 1, n + 1)) = Bytes(SubSeq(s, 1, n)) \o s[n + 1].bytes
      BY <2>1, NextPrefix
    <2> DEFINE x == Bytes(SubSeq(s, 1, n))  y == s[n + 1].bytes
    <2>6. x \in Seq(Byte) /\ y \in Seq(Byte)
      BY <2>5, BytesAppend, FieldIs
    <2>7. Bytes(s) = (x \o y) \o r
      BY <2>4, <2>5
    <2> HIDE DEF x, y
    <2>8. (x \o y) \o r = x \o (y \o r) /\ y \o r \in Seq(Byte)
      BY BytesAssociate, <2>6, ConcatProperties
    <2>9. Bytes(s) = x \o (y \o r)
      BY <2>7, <2>8
    <2> QED
      BY <2>8, <2>9 DEF x, n
  <1>4. P = Nat
    <2> HIDE DEF P
    <2>1. P \in SUBSET Nat
      BY DEF P
    <2> QED
      BY <1>2, <1>3, <2>1, Induction
  <1>5. Len(s) - k \in P /\ Len(s) - k <= Len(s) /\ Len(s) - (Len(s) - k) = k
    <2> HIDE DEF P
    <2> QED
      BY <1>1, <1>4
  <1> QED
    BY <1>5

\* Where the position counts the first k fields and there is another one, its
\* bytes lie at the position.
LEMMA NextField ==
  ASSUME NEW s \in Seq(Fields), NEW k \in Nat, k < Len(s)
  PROVE  LET n == Len(Bytes(SubSeq(s, 1, k)))
             f == s[k + 1]
         IN  /\ n \in Nat /\ f \in Fields
             /\ Len(Bytes(SubSeq(s, 1, k + 1))) = n + Len(f.bytes)
             /\ n + Len(f.bytes) <= Len(Bytes(s))
             /\ SubSeq(Bytes(s), n + 1, n + Len(f.bytes)) = f.bytes
  <1> DEFINE x == Bytes(SubSeq(s, 1, k))  y == s[k + 1].bytes
  <1>1. /\ SubSeq(s, 1, k) \in Seq(Fields) /\ s[k + 1] \in Fields
        /\ Bytes(SubSeq(s, 1, k + 1)) = x \o y
    BY NextPrefix
  <1>2. x \in Seq(Byte) /\ y \in Seq(Byte)
    BY <1>1, BytesAppend, FieldIs
  <1>3. PICK r \in Seq(Byte) : Bytes(s) = (x \o y) \o r
    <2>1. k + 1 \in 0..Len(s)
      BY LenProperties
    <2> HIDE DEF x, y
    <2> QED
      BY <1>1, <2>1, PrefixBytes
  <1> HIDE DEF x, y
  <1>4. Bytes(s) = x \o (y \o r)
    BY BytesAssociate, <1>2, <1>3
  <1>5. /\ y \o r \in Seq(Byte) /\ Len(y \o r) = Len(y) + Len(r)
        /\ Len(x \o y) = Len(x) + Len(y)
    BY <1>2, ConcatProperties
  <1>6. Len(Bytes(s)) = Len(x) + (Len(y) + Len(r))
    BY <1>2, <1>4, <1>5, ConcatProperties
  <1>7. SubSeq(Bytes(s), Len(x) + 1, Len(x) + Len(y)) = y
    BY <1>2, <1>4, Middle
  <1>8. Len(x) \in Nat /\ Len(y) \in Nat /\ Len(r) \in Nat
    BY <1>2, LenProperties
  <1>9. Len(x) + Len(y) <= Len(Bytes(s))
    BY <1>6, <1>8
  <1>10. Len(Bytes(SubSeq(s, 1, k + 1))) = Len(x) + Len(y)
    BY <1>1, <1>5
  <1> QED
    BY <1>1, <1>7, <1>8, <1>9, <1>10 DEF x, y

\* A position that counts all the bytes is behind all the fields.
LEMMA AllBehind ==
  ASSUME NEW s \in Seq(Fields), NEW k \in 0..Len(s),
         Len(Bytes(SubSeq(s, 1, k))) = Len(Bytes(s))
  PROVE  k = Len(s)
  <1>1. SUFFICES ASSUME k < Len(s) PROVE FALSE
    BY LenProperties
  <1> DEFINE n == Len(Bytes(SubSeq(s, 1, k)))
  <1>2. k \in Nat
    OBVIOUS
  <1>3. n \in Nat /\ s[k + 1] \in Fields /\ n + Len(s[k + 1].bytes) <= Len(Bytes(s))
    BY <1>2, <1>1, NextField
  <1>4. Len(s[k + 1].bytes) \in Nat \ {0}
    BY <1>3, FieldIs
  <1> HIDE DEF n
  <1>5. n = Len(Bytes(s))
    BY DEF n
  <1> QED
    BY <1>3, <1>4, <1>5

----------------------------------------------------------------------------
(* The bytes of messages *)

LEMMA PacketIs ==
  ASSUME NEW m \in Seq(Fields)
  PROVE  /\ Header(Len(Bytes(m))) \in Seq(Nat) /\ Bytes(m) \in Seq(Nat)
         /\ Packet(m) = Header(Len(Bytes(m))) \o Bytes(m) /\ Packet(m) \in Seq(Nat)
  <1>1. Bytes(m) \in Seq(Byte) /\ Len(Bytes(m)) \in Nat
    BY BytesType
  <1>2. Header(Len(Bytes(m))) \in Seq(Nat)
    BY <1>1, SizeArrives
  <1>3. Byte \subseteq Nat
    BY DEF Byte
  <1>4. Bytes(m) \in Seq(Nat)
    BY <1>1, <1>3, SeqMonotonic
  <1> QED
    BY <1>2, <1>4, ConcatProperties DEF Packet

\* One more message comes behind those under way.
LEMMA EncodedAppend ==
  ASSUME NEW c \in Seq(Seq(Fields)), NEW m \in Seq(Fields)
  PROVE  /\ Encoded(c) \in Seq(Nat)
         /\ Encoded(Append(c, m)) = Encoded(c) \o Packet(m)
  <1> DEFINE ss == [i \in 1..Len(c) |-> Packet(c[i])]
             tt == [i \in 1..Len(Append(c, m)) |-> Packet(Append(c, m)[i])]
  <1>1. /\ Len(c) \in Nat /\ \A i \in 1..Len(c) : c[i] \in Seq(Fields)
        /\ \A x \in Seq(Fields) : Packet(x) \in Seq(Nat)
    BY LenProperties, ElementOfSeq, PacketIs
  <1>2. ss \in Seq(Seq(Nat)) /\ Len(ss) = Len(c) /\ \A i \in 1..Len(c) : ss[i] = Packet(c[i])
    BY <1>1
  <1>3. tt = Append(ss, Packet(m))
    <2>1. /\ Len(Append(c, m)) = Len(c) + 1 /\ Append(c, m)[Len(c) + 1] = m
          /\ \A i \in 1..Len(c) : Append(c, m)[i] = c[i]
      BY AppendProperties
    <2>2. /\ tt \in Seq(Seq(Nat)) /\ Len(tt) = Len(c) + 1 /\ tt[Len(c) + 1] = Packet(m)
          /\ \A i \in 1..Len(c) : tt[i] = Packet(c[i])
      BY <1>1, <2>1
    <2> HIDE DEF ss, tt
    <2>3. /\ Append(ss, Packet(m)) \in Seq(Seq(Nat)) /\ Len(Append(ss, Packet(m))) = Len(c) + 1
          /\ Append(ss, Packet(m))[Len(c) + 1] = Packet(m)
          /\ \A i \in 1..Len(c) : Append(ss, Packet(m))[i] = ss[i]
      BY <1>1, <1>2, AppendProperties
    <2>4. ASSUME NEW i \in 1..Len(tt) PROVE tt[i] = Append(ss, Packet(m))[i]
      <3>1. i \in 1..Len(c) \/ i = Len(c) + 1
        BY <1>1, <2>2
      <3> QED
        BY <1>2, <2>2, <2>3, <3>1
    <2> QED
      BY <2>2, <2>3, <2>4, SeqEqual
  <1>4. Encoded(c) = FlattenSeq(ss) /\ Encoded(Append(c, m)) = FlattenSeq(tt)
    BY DEF Encoded
  <1> HIDE DEF ss, tt
  <1> QED
    BY <1>1, <1>2, <1>3, <1>4, FlattenAppend

LEMMA NothingEncoded == Encoded(<<>>) = <<>>
  <1>1. [i \in 1..Len(<<>>) |-> Packet(<<>>[i])] = <<>>
    BY EmptySeq
  <1>2. FlattenSeq(<<>>) = <<>>
    BY DEF FlattenSeq
  <1> QED
    BY <1>1, <1>2 DEF Encoded

\* The first message comes first.
LEMMA EncodedHead ==
  ASSUME NEW c \in Seq(Seq(Fields)), c # <<>>
  PROVE  /\ Head(c) \in Seq(Fields) /\ Tail(c) \in Seq(Seq(Fields))
         /\ Encoded(Tail(c)) \in Seq(Nat)
         /\ Encoded(c) = Packet(Head(c)) \o Encoded(Tail(c))
  <1> DEFINE ss == [i \in 1..Len(c) |-> Packet(c[i])]
             tt == [i \in 1..Len(Tail(c)) |-> Packet(Tail(c)[i])]
  <1>1. /\ Head(c) \in Seq(Fields) /\ Tail(c) \in Seq(Seq(Fields)) /\ Len(Tail(c)) = Len(c) - 1
        /\ \A i \in 1..Len(Tail(c)) : Tail(c)[i] = c[i + 1]
        /\ Len(c) \in Nat \ {0} /\ \A i \in 1..Len(c) : c[i] \in Seq(Fields)
    BY HeadTailProperties, EmptySeq, ElementOfSeq
  <1>2. \A x \in Seq(Fields) : Packet(x) \in Seq(Nat)
    BY PacketIs
  <1>3. ss \in Seq(Seq(Nat)) /\ Len(ss) = Len(c) /\ \A i \in 1..Len(c) : ss[i] = Packet(c[i])
    BY <1>1, <1>2
  <1>4. tt = Tail(ss) /\ Head(ss) = Packet(Head(c)) /\ ss # <<>>
    <2>1. /\ tt \in Seq(Seq(Nat)) /\ Len(tt) = Len(c) - 1
          /\ \A i \in 1..(Len(c) - 1) : tt[i] = Packet(c[i + 1])
      <3>1. \A i \in 1..Len(Tail(c)) : Tail(c)[i] \in Seq(Fields)
        BY <1>1, ElementOfSeq
      <3> QED
        BY <1>1, <1>2, <3>1
    <2>2. Head(c) = c[1]
      BY <1>1
    <2> HIDE DEF ss, tt
    <2>3. ss # <<>>
      BY <1>1, <1>3, EmptySeq
    <2>4. /\ Tail(ss) \in Seq(Seq(Nat)) /\ Len(Tail(ss)) = Len(c) - 1
          /\ \A i \in 1..Len(Tail(ss)) : Tail(ss)[i] = ss[i + 1]
      BY <1>3, <2>3, HeadTailProperties
    <2>5. ASSUME NEW i \in 1..Len(tt) PROVE tt[i] = Tail(ss)[i]
      <3>1. i \in 1..(Len(c) - 1) /\ i + 1 \in 1..Len(c)
        BY <1>1, <2>1
      <3> QED
        BY <1>3, <2>1, <2>4, <3>1
    <2>6. tt = Tail(ss)
      BY <2>1, <2>4, <2>5, SeqEqual
    <2>7. Head(ss) = ss[1] /\ 1 \in 1..Len(c)
      BY <1>1, <1>3, <2>3
    <2> QED
      BY <1>3, <2>2, <2>3, <2>6, <2>7
  <1>5. Encoded(c) = FlattenSeq(ss) /\ Encoded(Tail(c)) = FlattenSeq(tt)
    BY DEF Encoded
  <1> HIDE DEF ss, tt
  <1>6. tt \in Seq(Seq(Nat))
    BY <1>3, <1>4, HeadTailProperties
  <1> QED
    BY <1>1, <1>3, <1>4, <1>5, <1>6, FlattenHead, FlattenType

----------------------------------------------------------------------------
(* What leaves the parts of the invariant alone *)

LEMMA HoldsKept ==
  ASSUME NEW p \in Parcels, Holds(p),
         mData'[p] = mData[p], mDataPos'[p] = mDataPos[p], mDataSize'[p] = mDataSize[p],
         fields'[p] = fields[p], at'[p] = at[p]
  PROVE  Holds(p)'
  BY DEF Holds

LEMMA HoldsEmpty ==
  ASSUME NEW p \in Parcels, mData'[p] = <<>>, mDataPos'[p] = 0, mDataSize'[p] = 0,
         fields'[p] = <<>>, at'[p] = 0
  PROVE  Holds(p)'
  <1>1. SubSeq(<<>>, 1, 0) = <<>> /\ Len(<<>>) = 0
    BY SubSeqEmpty, EmptySeq
  <1>2. Bytes(fields'[p]) = <<>> /\ SubSeq(mData'[p], 1, mDataSize'[p]) = <<>>
    BY <1>1, NoBytes
  <1>3. SubSeq(fields'[p], 1, at'[p]) = <<>>
    BY <1>1
  <1>4. Len(Bytes(SubSeq(fields'[p], 1, at'[p]))) = 0
    BY <1>1, <1>3, NoBytes
  <1>5. mDataSize'[p] <= Len(mData'[p])
    BY <1>1
  <1> QED
    BY <1>2, <1>4, <1>5 DEF Holds

LEMMA OutgoingKept ==
  ASSUME Outgoing, mData'["out"] = mData["out"], mDataPos'["out"] = mDataPos["out"],
         mDataSize'["out"] = mDataSize["out"], mDataCapacity'["out"] = mDataCapacity["out"],
         fields'["out"] = fields["out"], at'["out"] = at["out"],
         sender' \in {"idle", "header"} => toWrite' = <<>>,
         sender' = "header" => at["out"] = 0
  PROVE  Outgoing'
  <1>1. Holds("out")'
    BY HoldsKept DEF Outgoing, Parcels
  <1> QED
    BY <1>1 DEF Outgoing

LEMMA IncomingKept ==
  ASSUME Incoming, mData'["in"] = mData["in"], mDataPos'["in"] = mDataPos["in"],
         mDataSize'["in"] = mDataSize["in"], fields'["in"] = fields["in"], at'["in"] = at["in"],
         UNCHANGED <<receiver, totalRead>>,
         channel # <<>> => channel' # <<>> /\ Head(channel') = Head(channel)
  PROVE  Incoming'
  <1>1. receiver \in {"idle", "header"} => Holds("in")'
    BY HoldsKept DEF Incoming, Parcels
  <1> QED
    BY <1>1 DEF Incoming

LEMMA WireKept ==
  ASSUME Wire, UNCHANGED <<receiver, totalRead, channel>>,
         pipe' \o toWrite' = pipe \o toWrite,
         receiver = "data" => mData'["in"] = mData["in"]
  PROVE  Wire'
  BY DEF Wire

\* What an emptied parcel is, and that the other one is left alone.
LEMMA EmptiedIs ==
  ASSUME TypeOK, NEW p \in Parcels, Emptied(p)
  PROVE  /\ mData'[p] = <<>> /\ mDataPos'[p] = 0 /\ mDataSize'[p] = 0 /\ mDataCapacity'[p] = 0
         /\ fields'[p] = <<>> /\ at'[p] = 0 /\ Holds(p)'
         /\ \A q \in Parcels \ {p} :
              /\ mData'[q] = mData[q] /\ mDataPos'[q] = mDataPos[q]
              /\ mDataSize'[q] = mDataSize[q] /\ mDataCapacity'[q] = mDataCapacity[q]
              /\ fields'[q] = fields[q] /\ at'[q] = at[q]
         /\ mData' \in [Parcels -> Seq(Byte \cup {Junk})]
         /\ {mDataPos', mDataSize', mDataCapacity', at'} \subseteq [Parcels -> Nat]
         /\ fields' \in [Parcels -> Seq(Fields)]
         /\ \A q \in Parcels : at'[q] <= Len(fields'[q])
  <1>1. /\ mData'[p] = <<>> /\ mDataPos'[p] = 0 /\ mDataSize'[p] = 0 /\ mDataCapacity'[p] = 0
        /\ fields'[p] = <<>> /\ at'[p] = 0
    BY DEF TypeOK, Emptied
  <1>2. \A q \in Parcels \ {p} :
          /\ mData'[q] = mData[q] /\ mDataPos'[q] = mDataPos[q]
          /\ mDataSize'[q] = mDataSize[q] /\ mDataCapacity'[q] = mDataCapacity[q]
          /\ fields'[q] = fields[q] /\ at'[q] = at[q]
    BY DEF TypeOK, Emptied
  <1>3. Holds(p)'
    BY <1>1, HoldsEmpty
  <1>4. <<>> \in Seq(Byte \cup {Junk}) /\ <<>> \in Seq(Fields) /\ Len(<<>>) = 0
    BY EmptySeq
  <1>5. /\ mData' \in [Parcels -> Seq(Byte \cup {Junk})]
        /\ fields' \in [Parcels -> Seq(Fields)]
    BY <1>4 DEF TypeOK, Emptied
  <1>6. {mDataPos', mDataSize', mDataCapacity', at'} \subseteq [Parcels -> Nat]
    BY DEF TypeOK, Emptied
  <1>7. ASSUME NEW q \in Parcels PROVE at'[q] <= Len(fields'[q])
    <2>1. CASE q = p
      BY <1>1, <1>4, <2>1
    <2>2. CASE q # p
      BY <1>2, <2>2 DEF TypeOK
    <2> QED
      BY <2>1, <2>2
  <1> QED
    BY <1>1, <1>2, <1>3, <1>5, <1>6, <1>7

----------------------------------------------------------------------------
(* The reads *)

\* The bytes of the next field lie at the position.
LEMMA FieldInBlock ==
  ASSUME TypeOK, NEW p \in Parcels, Holds(p), NEW f, at[p] < Len(fields[p]),
         fields[p][at[p] + 1] = f
  PROVE  /\ f \in Fields
         /\ Len(Bytes(SubSeq(fields[p], 1, at[p] + 1))) = mDataPos[p] + Len(f.bytes)
         /\ mDataPos[p] + Len(f.bytes) <= mDataSize[p]
         /\ SubSeq(mData[p], mDataPos[p] + 1, mDataPos[p] + Len(f.bytes)) = f.bytes
  <1> DEFINE s == fields[p]  k == at[p]  n == Len(Bytes(SubSeq(s, 1, k)))
             data == mData[p]  size == mDataSize[p]  len == Len(f.bytes)
  <1>1. /\ s \in Seq(Fields) /\ k \in Nat /\ k < Len(s) /\ s[k + 1] = f
        /\ data \in Seq(Byte \cup {Junk}) /\ size \in Nat /\ size <= Len(data)
        /\ Bytes(s) = SubSeq(data, 1, size) /\ mDataPos[p] = n
    BY DEF TypeOK, Holds
  <1> HIDE DEF s, k, data, size
  <1>2. size \in 0..Len(data)
    BY <1>1, LenProperties
  <1>3. Len(Bytes(s)) = size
    BY <1>1, <1>2, Cut
  <1>4. /\ n \in Nat /\ f \in Fields
        /\ Len(Bytes(SubSeq(s, 1, k + 1))) = n + len
        /\ n + len <= size
        /\ SubSeq(Bytes(s), n + 1, n + len) = f.bytes
    <2>1. /\ n \in Nat /\ s[k + 1] \in Fields
          /\ Len(Bytes(SubSeq(s, 1, k + 1))) = n + Len(s[k + 1].bytes)
          /\ n + Len(s[k + 1].bytes) <= Len(Bytes(s))
          /\ SubSeq(Bytes(s), n + 1, n + Len(s[k + 1].bytes)) = s[k + 1].bytes
      BY <1>1, NextField
    <2> HIDE DEF n
    <2> QED
      BY <1>1, <1>3, <2>1
  <1> HIDE DEF n
  <1>5. n + len \in Nat
    <2>1. Len(f.bytes) \in Nat
      BY <1>4, FieldIs
    <2> QED
      BY <1>4, <2>1
  <1> HIDE DEF len
  <1>6. SubSeq(data, n + 1, n + len) = f.bytes
    BY <1>1, <1>2, <1>4, <1>5, PartOfFirst
  <1> QED
    BY <1>1, <1>4, <1>6 DEF s, k, data, size, len, n

\* Behind the last field is the end of the parcel, and only there.
LEMMA BehindAll ==
  ASSUME TypeOK, NEW p \in Parcels, Holds(p)
  PROVE  mDataPos[p] = mDataSize[p] <=> ~(at[p] < Len(fields[p]))
  <1> DEFINE s == fields[p]  k == at[p]
  <1>1. /\ s \in Seq(Fields) /\ k \in 0..Len(s) /\ Len(s) \in Nat
        /\ mData[p] \in Seq(Byte \cup {Junk}) /\ mDataSize[p] \in 0..Len(mData[p])
        /\ mDataPos[p] = Len(Bytes(SubSeq(s, 1, k)))
        /\ Bytes(s) = SubSeq(mData[p], 1, mDataSize[p])
    BY LenProperties DEF TypeOK, Holds
  <1> HIDE DEF s, k
  <1>2. Len(Bytes(s)) = mDataSize[p]
    BY <1>1, Cut
  <1>3. ASSUME k = Len(s) PROVE mDataPos[p] = mDataSize[p]
    BY <1>1, <1>2, <1>3, SubSeqFull
  <1>4. ASSUME mDataPos[p] = mDataSize[p] PROVE k = Len(s)
    BY <1>1, <1>2, <1>4, AllBehind
  <1>5. k = Len(s) <=> ~(k < Len(s))
    BY <1>1
  <1> QED
    BY <1>3, <1>4, <1>5 DEF s, k

\* A read takes the next field, or is refused behind the last one.
LEMMA TakeIs ==
  ASSUME TypeOK, NEW p \in Parcels, Holds(p), NEW f \in Fields, Expects(p, f),
         NEW len \in Nat, Take(p, f.kind, len),
         at[p] < Len(fields[p]) => len = Len(f.bytes),
         at[p] = Len(fields[p]) => len > 0
  PROVE  \/ /\ at[p] < Len(fields[p])
            /\ got' = fields[p][at[p] + 1].bytes
            /\ mDataPos' = [mDataPos EXCEPT ![p] = @ + len]
            /\ at' = [at EXCEPT ![p] = @ + 1]
            /\ mDataPos[p] + len = Len(Bytes(SubSeq(fields[p], 1, at[p] + 1)))
         \/ /\ at[p] = Len(fields[p])
            /\ got' = Refused(f.kind)
            /\ UNCHANGED <<mDataPos, at>>
  <1>1. /\ fields[p] \in Seq(Fields) /\ at[p] \in Nat /\ at[p] <= Len(fields[p])
        /\ mData[p] \in Seq(Byte \cup {Junk}) /\ mDataPos[p] \in Nat /\ mDataSize[p] \in Nat
        /\ Len(fields[p]) \in Nat /\ Len(mData[p]) \in Nat
    BY LenProperties DEF TypeOK
  <1>2. CASE at[p] < Len(fields[p])
    <2>1. fields[p][at[p] + 1] = f /\ len = Len(f.bytes)
      BY <1>2 DEF Expects
    <2>2. /\ Len(Bytes(SubSeq(fields[p], 1, at[p] + 1))) = mDataPos[p] + len
          /\ mDataPos[p] + len <= mDataSize[p]
          /\ SubSeq(mData[p], mDataPos[p] + 1, mDataPos[p] + len) = f.bytes
      BY <1>2, <2>1, FieldInBlock
    <2>3. ~(mDataPos[p] + len > mDataSize[p])
      BY <1>1, <2>2
    <2> QED
      BY <1>2, <2>1, <2>2, <2>3 DEF Take
  <1>3. CASE at[p] = Len(fields[p])
    <2>1. mDataPos[p] = mDataSize[p]
      BY <1>1, <1>3, BehindAll
    <2>2. mDataPos[p] + len > mDataSize[p]
      BY <1>1, <1>3, <2>1
    <2> QED
      BY <1>3, <2>2 DEF Take
  <1> QED
    BY <1>1, <1>2, <1>3

\* readString() finds the end of the string it is at.
LEMMA StringEnds ==
  ASSUME TypeOK, NEW p \in Parcels, Holds(p), NEW f \in Fields, f.kind = "string",
         at[p] < Len(fields[p]), fields[p][at[p] + 1] = f
  PROVE  /\ ~Unended(p)
         /\ Min({i \in mDataPos[p] + 1 .. mDataSize[p] : mData[p][i] = 0})
              = mDataPos[p] + Len(f.bytes)
  <1> DEFINE n == mDataPos[p]  len == Len(f.bytes)  data == mData[p]  size == mDataSize[p]
             ends == {i \in n + 1 .. size : data[i] = 0}
             x == SubSeq(data, n + 1, n + len)
  <1>1. /\ n \in Nat /\ data \in Seq(Byte \cup {Junk}) /\ size \in Nat /\ size <= Len(data)
        /\ Len(data) \in Nat
    BY LenProperties DEF TypeOK, Holds
  <1>2. n + len <= size /\ x = f.bytes
    BY FieldInBlock
  <1>3. len \in Nat \ {0} /\ \A i \in 1..len : f.bytes[i] = 0 <=> i = len
    BY FieldIs
  <1> HIDE DEF n, len, data, size, x
  <1>4. ASSUME NEW i \in 1..len PROVE data[n + i] = f.bytes[i]
    <2>1. n + 1 \in Nat \ {0} /\ n + len \in 0..Len(data)
      BY <1>1, <1>2, <1>3
    <2>2. \A j \in 1..((n + len) - (n + 1) + 1) : x[j] = data[(n + 1) + j - 1]
      BY <1>1, <2>1, Part DEF x
    <2>3. i \in 1..((n + len) - (n + 1) + 1) /\ (n + 1) + i - 1 = n + i
      BY <1>1, <1>3
    <2> QED
      BY <1>2, <2>2, <2>3
  <1>5. n + len \in ends
    <2>1. len \in 1..len /\ n + len \in n + 1 .. size
      BY <1>1, <1>2, <1>3
    <2>2. data[n + len] = 0
      BY <1>3, <1>4, <2>1
    <2> QED
      BY <2>1, <2>2
  <1>6. ASSUME NEW y \in ends PROVE n + len <= y
    <2>1. SUFFICES ASSUME y < n + len PROVE FALSE
      BY <1>1, <1>3
    <2>2. y - n \in 1..len /\ y - n # len /\ n + (y - n) = y
      BY <1>1, <1>3, <2>1
    <2> QED
      BY <1>3, <1>4, <2>2
  <1>7. \A y \in ends : y \in Nat
    BY <1>1
  <1> HIDE DEF ends
  <1>8. Min(ends) = n + len
    <2>1. Min(ends) \in ends /\ \A y \in ends : Min(ends) <= y
      BY <1>5, <1>6 DEF Min
    <2>2. Min(ends) <= n + len /\ n + len <= Min(ends) /\ Min(ends) \in Nat /\ n + len \in Nat
      BY <1>5, <1>6, <1>7, <2>1
    <2> QED
      BY <2>2
  <1>9. ends # {}
    BY <1>5
  <1> QED
    BY <1>8, <1>9 DEF n, len, data, size, ends, Unended

\* What a read of any kind does.
LEMMA ReadIs ==
  ASSUME TypeOK, NEW p \in Parcels, Holds(p), NEW f \in Fields,
         ReadValue(p, f) \/ ReadString(p, f) \/ ReadBytes(p, f)
  PROVE  /\ Free(p)
         /\ UNCHANGED <<mData, mDataSize, mDataCapacity, fields, pipe, writer, reader, channel>>
         /\ \/ /\ at[p] < Len(fields[p])
               /\ got' = fields[p][at[p] + 1].bytes
               /\ \E n \in Nat : /\ mDataPos' = [mDataPos EXCEPT ![p] = @ + n]
                                 /\ mDataPos[p] + n = Len(Bytes(SubSeq(fields[p], 1, at[p] + 1)))
               /\ at' = [at EXCEPT ![p] = @ + 1]
            \/ /\ at[p] = Len(fields[p])
               /\ got' = Refused(f.kind)
               /\ UNCHANGED <<mDataPos, at>>
  <1>1. Free(p) /\ Expects(p, f)
    BY DEF ReadValue, ReadString, ReadBytes
  <1>2. /\ Len(f.bytes) \in Nat \ {0}
        /\ f.kind \in DOMAIN Width => Len(f.bytes) = Width[f.kind]
    BY FieldIs
  <1>3. PICK len \in Nat : /\ Take(p, f.kind, len)
                           /\ at[p] < Len(fields[p]) => len = Len(f.bytes)
                           /\ at[p] = Len(fields[p]) => len > 0
    <2>1. CASE ReadValue(p, f)
      <3>1. Take(p, f.kind, Len(f.bytes))
        BY <1>2, <2>1 DEF ReadValue
      <3> QED
        BY <1>2, <3>1
    <2>2. CASE ReadBytes(p, f)
      <3>1. Take(p, f.kind, Len(f.bytes))
        BY <2>2 DEF ReadBytes
      <3> QED
        BY <1>2, <3>1
    <2>3. CASE ReadString(p, f)
      <3> DEFINE ends == {i \in mDataPos[p] + 1 .. mDataSize[p] : mData[p][i] = 0}
                 len == IF Unended(p) THEN mDataSize[p] + 1 ELSE Min(ends) - mDataPos[p]
      <3>1. f.kind = "string" /\ Take(p, f.kind, len)
        BY <2>3 DEF ReadString
      <3>2. mDataPos[p] \in Nat /\ mDataSize[p] \in Nat
        BY DEF TypeOK
      <3>3. CASE at[p] < Len(fields[p])
        <4>1. ~Unended(p) /\ Min(ends) = mDataPos[p] + Len(f.bytes)
          BY <1>1, <3>1, <3>3, StringEnds DEF Expects
        <4> HIDE DEF ends
        <4>2. len = Len(f.bytes)
          BY <1>2, <3>2, <4>1
        <4> HIDE DEF len
        <4> QED
          BY <1>2, <3>1, <3>3, <4>2
      <3>4. CASE ~(at[p] < Len(fields[p]))
        <4>1. mDataPos[p] = mDataSize[p]
          BY <3>4, BehindAll
        <4>2. Unended(p)
          BY <3>2, <4>1 DEF Unended
        <4> HIDE DEF ends
        <4>3. len \in Nat /\ len > 0
          BY <3>2, <4>2
        <4> HIDE DEF len
        <4> QED
          BY <3>1, <3>4, <4>3
      <3> QED
        BY <3>3, <3>4
    <2> QED
      BY <2>1, <2>2, <2>3
  <1>4. UNCHANGED <<mData, mDataSize, mDataCapacity, fields, pipe, writer, reader, channel>>
    BY <1>3 DEF Take
  <1> QED
    BY <1>1, <1>3, <1>4, TakeIs

----------------------------------------------------------------------------
(* The writes *)

\* A field that is written comes behind the others, in a block that has room.
LEMMA WriteIs ==
  ASSUME TypeOK, Outgoing, NEW f \in Fields, Write(f)
  PROVE  /\ at["out"] = Len(fields["out"])
         /\ mData'["out"] \in Seq(Byte \cup {Junk})
         /\ mDataCapacity'["out"] \in Nat /\ Len(mData'["out"]) = mDataCapacity'["out"]
         /\ mDataCapacity'["out"] <= NewSize(MaxData, 0)
         /\ Holds("out")'
  <1> DEFINE len == Len(f.bytes)
             pos == mDataPos["out"]
             old == mData["out"]
             capacity == IF pos + len > mDataCapacity["out"]
                         THEN NewSize(mDataCapacity["out"], len)
                         ELSE mDataCapacity["out"]
             data == IF pos + len > mDataCapacity["out"] THEN Resized(old, capacity) ELSE old
             Cell == Byte \cup {Junk}
             new == Overwritten(data, pos, f.bytes)
             s == fields["out"]
  <1>1. /\ mData'["out"] = new /\ mDataCapacity'["out"] = capacity
        /\ mDataPos'["out"] = pos + len /\ mDataSize'["out"] = mDataSize["out"] + len
        /\ fields'["out"] = Append(s, f) /\ at'["out"] = at["out"] + 1
        /\ pos = mDataSize["out"]
    BY DEF Write, TypeOK, Parcels
  <1>2. /\ f.bytes \in Seq(Byte) /\ len \in Nat
    BY FieldIs
  <1>3. f.bytes \in Seq(Cell)
    BY <1>2, SeqMonotonic
  <1>4. /\ pos \in Nat /\ old \in Seq(Cell) /\ s \in Seq(Fields) /\ at["out"] \in Nat
        /\ at["out"] <= Len(s) /\ Len(s) \in Nat /\ mDataCapacity["out"] \in Nat
        /\ Len(old) = mDataCapacity["out"] /\ pos <= Len(old)
        /\ Holds("out") /\ Bytes(s) = SubSeq(old, 1, pos)
        /\ mDataCapacity["out"] <= NewSize(MaxData, 0)
    BY <1>1, LenProperties DEF TypeOK, Outgoing, Holds, Parcels
  <1>5. at["out"] = Len(s)
    BY <1>1, <1>4, BehindAll DEF Parcels
  <1>6. /\ capacity \in Nat /\ pos + len <= capacity /\ Len(old) <= capacity
        /\ capacity <= NewSize(MaxData, 0)
    <2>1. /\ NewSize(mDataCapacity["out"], len) \in Nat
          /\ NewSize(mDataCapacity["out"], len) >= mDataCapacity["out"] + len
      BY <1>2, <1>4, NewSizeIs
    <2>2. mDataCapacity["out"] + len <= MaxData
      BY DEF Write
    <2>3. NewSize(mDataCapacity["out"], len) <= NewSize(MaxData, 0)
      BY <1>2, <1>4, <2>2, LargestSize
    <2> HIDE DEF pos, old, len
    <2> QED
      BY <1>2, <1>4, <2>1, <2>3
  <1>7. data \in Seq(Cell) /\ Len(data) = capacity /\ SubSeq(data, 1, pos) = SubSeq(old, 1, pos)
    <2>1. CASE pos + len > mDataCapacity["out"]
      <3>1. data = Resized(old, capacity)
        BY <2>1
      <3>2. pos \in 0..Len(old) /\ Junk \in Cell
        BY <1>4
      <3> HIDE DEF pos, old, len, capacity, data
      <3> QED
        BY <1>4, <1>6, <3>1, <3>2, ResizedIs
    <2>2. CASE ~(pos + len > mDataCapacity["out"])
      BY <1>4, <2>2
    <2> QED
      BY <2>1, <2>2
  <1> HIDE DEF pos, old, len, capacity, data, s
  <1>8. /\ new \in Seq(Cell) /\ Len(new) = capacity
        /\ SubSeq(new, 1, pos + Len(f.bytes)) = SubSeq(data, 1, pos) \o f.bytes
    <2>1. pos + Len(f.bytes) <= Len(data) /\ pos \in Nat
      BY <1>4, <1>6, <1>7 DEF len
    <2>2. data \in Seq(Cell)
      BY <1>7
    <2> HIDE DEF Cell
    <2>3. /\ Overwritten(data, pos, f.bytes) \in Seq(Cell)
          /\ Len(Overwritten(data, pos, f.bytes)) = Len(data)
          /\ SubSeq(Overwritten(data, pos, f.bytes), 1, pos + Len(f.bytes))
               = SubSeq(data, 1, pos) \o f.bytes
      BY <1>3, <2>1, <2>2, OverwrittenIs
    <2> QED
      BY <1>7, <2>3
  <1> HIDE DEF new
  <1>9. SubSeq(new, 1, pos + len) = Bytes(Append(s, f))
    BY <1>4, <1>7, <1>8, BytesAppend DEF len
  <1>10. pos + len \in 0..Len(new)
    BY <1>2, <1>4, <1>6, <1>8
  <1>11. Len(Bytes(Append(s, f))) = pos + len
    BY <1>8, <1>9, <1>10, Cut
  <1>12. SubSeq(Append(s, f), 1, at["out"] + 1) = Append(s, f)
    BY <1>4, <1>5, AppendProperties, SubSeqFull
  <1>13. Holds("out")'
    <2>1. /\ mDataSize'["out"] = pos + len /\ mDataPos'["out"] = pos + len
          /\ fields'["out"] = Append(s, f)
          /\ SubSeq(fields'["out"], 1, at'["out"]) = Append(s, f)
      BY <1>1, <1>12
    <2>2. mDataSize'["out"] <= Len(mData'["out"])
      BY <1>1, <1>10, <2>1
    <2> QED
      BY <1>1, <1>9, <1>11, <2>1, <2>2 DEF Holds
  <1> QED
    BY <1>1, <1>5, <1>6, <1>8, <1>13 DEF s

----------------------------------------------------------------------------
(* The pipe *)

\* A message that is sent comes behind those under way.
LEMMA WriteHeaderWire ==
  ASSUME TypeOK, Outgoing, Incoming, Wire, WriteHeader
  PROVE  /\ pipe' \in Seq(Byte) /\ toWrite' \in Seq(Byte) /\ channel' \in Seq(Seq(Fields))
         /\ channel # <<>> => channel' # <<>> /\ Head(channel') = Head(channel)
         /\ Wire'
  <1> DEFINE m == fields["out"]  h == Header(Len(Bytes(m)))  b == Bytes(m)
  <1>1. /\ m \in Seq(Fields) /\ mData["out"] \in Seq(Byte \cup {Junk})
        /\ mDataSize["out"] \in 0..Len(mData["out"])
        /\ b = SubSeq(mData["out"], 1, mDataSize["out"])
        /\ toWrite = <<>>
        /\ mDataSize["out"] \in Nat /\ mDataSize["out"] <= mDataCapacity["out"]
        /\ mDataCapacity["out"] \in Nat /\ mDataCapacity["out"] <= NewSize(MaxData, 0)
    BY LenProperties DEF TypeOK, Outgoing, Holds, WriteHeader, Parcels
  <1>2. Len(b) = mDataSize["out"]
    BY <1>1, Cut
  <1>3. /\ h \in Seq(Nat) /\ b \in Seq(Nat) /\ b \in Seq(Byte)
        /\ Packet(m) = h \o b /\ Packet(m) \in Seq(Nat)
    BY <1>1, PacketIs, BytesType
  <1>4. h \in Seq(Byte)
    <2>1. NewSize(MaxData, 0) \in Nat
      BY Sizes, NewSizeIs
    <2>2. mDataSize["out"] <= NewSize(MaxData, 0)
      BY <1>1, <2>1
    <2> QED
      BY <1>1, <1>2, <2>2, SizeArrives
  <1>5. /\ pipe' = pipe \o h /\ toWrite' = b /\ channel' = Append(channel, m)
        /\ UNCHANGED <<mData, totalRead, receiver>>
    BY <1>1, <1>2 DEF WriteHeader, parcels, reader
  <1> HIDE DEF m, h, b
  <1>6. /\ pipe \in Seq(Byte) /\ pipe \in Seq(Nat) /\ channel \in Seq(Seq(Fields))
    <2>1. pipe \in Seq(Byte) /\ channel \in Seq(Seq(Fields)) /\ Byte \subseteq Nat
      BY DEF TypeOK, Byte
    <2> QED
      BY <2>1, SeqMonotonic
  <1>7. pipe' \in Seq(Byte) /\ toWrite' \in Seq(Byte) /\ channel' \in Seq(Seq(Fields))
    BY <1>1, <1>3, <1>5, <1>6, <1>4, AppendProperties, ConcatProperties
  <1>8. pipe' \o toWrite' = pipe \o Packet(m)
    <2>1. (pipe \o h) \o b = pipe \o (h \o b)
      BY NumbersAssociate, <1>3, <1>6
    <2> QED
      BY <1>3, <1>5, <2>1
  <1>9. pipe \o toWrite = pipe
    BY <1>1, <1>6, ConcatEmptySeq
  <1>10. ASSUME receiver \in {"idle", "header"}
        PROVE  pipe' \o toWrite' = Encoded(channel')
    <2>1. pipe = Encoded(channel)
      BY <1>9, <1>10 DEF Wire
    <2>2. Encoded(Append(channel, m)) = Encoded(channel) \o Packet(m)
      BY <1>1, <1>6, EncodedAppend
    <2>3. pipe' \o toWrite' = Encoded(channel) \o Packet(m)
      BY <1>8, <2>1
    <2> QED
      BY <1>5, <2>2, <2>3
  <1>11. /\ channel # <<>> => channel' # <<>> /\ Head(channel') = Head(channel)
                              /\ Tail(channel') = Append(Tail(channel), m)
    <2> DEFINE c == channel
    <2>1. c \in Seq(Seq(Fields)) /\ m \in Seq(Fields) /\ channel' = Append(c, m)
      BY <1>1, <1>5, <1>6
    <2> HIDE DEF c
    <2>2. /\ Append(c, m) # <<>>
          /\ c # <<>> => Head(Append(c, m)) = Head(c) /\ Tail(Append(c, m)) = Append(Tail(c), m)
      BY <2>1, HeadTailAppend, AppendProperties
    <2> QED
      BY <2>1, <2>2 DEF c
  <1>12. ASSUME receiver = "data"
         PROVE  SubSeq(mData'["in"], 1, totalRead') \o (pipe' \o toWrite')
                  = Bytes(Head(channel')) \o Encoded(Tail(channel'))
    <2> DEFINE r == SubSeq(mData["in"], 1, totalRead)
               e == Encoded(Tail(channel))
               t == Bytes(Head(channel))
    <2>1. channel # <<>> /\ r \o pipe = t \o e
      BY <1>9, <1>12 DEF Incoming, Wire
    <2>2. Head(channel) \in Seq(Fields) /\ Tail(channel) \in Seq(Seq(Fields)) /\ e \in Seq(Nat)
      BY <1>6, <2>1, EncodedHead
    <2>3. t \in Seq(Nat)
      BY <2>2, PacketIs
    <2>4. Encoded(Tail(channel')) = e \o Packet(m)
      BY <1>1, <1>11, <2>1, <2>2, EncodedAppend
    <2>5. r \in Seq(Cells)
      <3>1. /\ mData["in"] \in Seq(Byte \cup {Junk}) /\ totalRead \in 0..Len(mData["in"])
        BY <1>12, LenProperties DEF TypeOK, Incoming, Parcels
      <3>2. r \in Seq(Byte \cup {Junk})
        BY <3>1, Cut
      <3> QED
        BY <3>2, SeqMonotonic DEF Cells
    <2> HIDE DEF r, e, t
    <2>6. /\ t \in Seq(Cells) /\ e \in Seq(Cells) /\ pipe \in Seq(Cells) /\ Packet(m) \in Seq(Cells)
      BY <1>3, <1>6, <2>2, <2>3, SeqMonotonic DEF Cells
    <2>7. r \in Seq(Cells) /\ pipe \in Seq(Cells) /\ Packet(m) \in Seq(Cells)
      BY <2>5, <2>6
    <2>8. (r \o pipe) \o Packet(m) = r \o (pipe \o Packet(m))
      BY <2>7, CellsAssociate
    <2>9. t \in Seq(Cells) /\ e \in Seq(Cells) /\ Packet(m) \in Seq(Cells)
      BY <2>6
    <2>10. (t \o e) \o Packet(m) = t \o (e \o Packet(m))
      BY <2>9, CellsAssociate
    <2>11. SubSeq(mData'["in"], 1, totalRead') = r /\ Bytes(Head(channel')) = t
      BY <1>5, <1>11, <2>1 DEF r, t
    <2> QED
      BY <1>8, <2>1, <2>4, <2>8, <2>10, <2>11
  <1>13. Wire'
    BY <1>5, <1>10, <1>12 DEF Wire
  <1> QED
    BY <1>7, <1>11, <1>13

\* A piece that is written is taken off what is to write.
LEMMA WriteDataWire ==
  ASSUME TypeOK, Wire, WriteData
  PROVE  pipe' \in Seq(Byte) /\ toWrite' \in Seq(Byte) /\ Wire'
  <1>1. PICK n \in 1..Len(toWrite) :
          /\ pipe' = pipe \o SubSeq(toWrite, 1, n)
          /\ toWrite' = SubSeq(toWrite, n + 1, Len(toWrite))
    BY DEF WriteData
  <1>2. pipe \in Seq(Byte) /\ toWrite \in Seq(Byte) /\ n \in 0..Len(toWrite)
    BY LenProperties DEF TypeOK
  <1> DEFINE x == SubSeq(toWrite, 1, n)  y == SubSeq(toWrite, n + 1, Len(toWrite))
  <1>3. x \in Seq(Byte) /\ y \in Seq(Byte) /\ x \o y = toWrite
    BY <1>2, Cut
  <1> HIDE DEF x, y
  <1>4. pipe' = pipe \o x /\ toWrite' = y
    BY <1>1 DEF x, y
  <1>5. pipe' \in Seq(Byte)
    BY <1>2, <1>3, <1>4, ConcatProperties
  <1>6. pipe' \o toWrite' = pipe \o toWrite
    BY BytesAssociate, <1>2, <1>3, <1>4
  <1>7. UNCHANGED <<receiver, totalRead, channel, mData>>
    BY DEF WriteData, parcels, reader
  <1> QED
    BY <1>3, <1>4, <1>5, <1>6, <1>7, WireKept

\* The bytes of the pipe are numbers, and cells like those of a block.
LEMMA CellsOf ==
  ASSUME TypeOK
  PROVE  /\ pipe \in Seq(Nat) /\ toWrite \in Seq(Nat)
         /\ pipe \in Seq(Cells) /\ toWrite \in Seq(Cells) /\ mData["in"] \in Seq(Cells)
         /\ \A b \in Seq(Nat) : b \in Seq(Cells)
  <1>1. /\ Byte \subseteq Nat /\ Byte \subseteq Cells /\ Nat \subseteq Cells
        /\ Byte \cup {Junk} \subseteq Cells
    BY DEF Byte, Cells
  <1>2. pipe \in Seq(Byte) /\ toWrite \in Seq(Byte) /\ mData["in"] \in Seq(Byte \cup {Junk})
    BY DEF TypeOK, Parcels
  <1> QED
    BY <1>1, <1>2, SeqMonotonic

\* Four bytes of the pipe are the size of the next message, which follows.
LEMMA ReadHeaderIs ==
  ASSUME TypeOK, Wire, receiver = "header", Len(pipe) >= 4
  PROVE  /\ channel # <<>> /\ Value(pipe) = Len(Bytes(Head(channel)))
         /\ SubSeq(pipe, 5, Len(pipe)) \in Seq(Byte)
         /\ SubSeq(pipe, 5, Len(pipe)) \o toWrite = Bytes(Head(channel)) \o Encoded(Tail(channel))
  <1> DEFINE h == SubSeq(pipe, 1, 4)  rest == SubSeq(pipe, 5, Len(pipe))
  <1>1. /\ pipe \in Seq(Byte) /\ channel \in Seq(Seq(Fields))
        /\ pipe \in Seq(Nat) /\ toWrite \in Seq(Nat) /\ Len(pipe) \in Nat /\ Len(toWrite) \in Nat
    BY CellsOf, LenProperties DEF TypeOK
  <1>2. 4 \in 0..Len(pipe) /\ 4 + 1 = 5
    BY <1>1
  <1>3. h \in Seq(Byte) /\ Len(h) = 4 /\ rest \in Seq(Byte) /\ h \o rest = pipe
    BY <1>1, <1>2, Cut
  <1>4. Value(pipe) = Value(h)
    <2>1. \A i \in 1..(4 - 1 + 1) : h[i] = pipe[1 + i - 1]
      BY <1>1, <1>2, Part
    <2> HIDE DEF h
    <2>2. h[1] = pipe[1] /\ h[2] = pipe[2] /\ h[3] = pipe[3] /\ h[4] = pipe[4]
      BY <2>1
    <2> QED
      BY <2>2 DEF Value
  <1> HIDE DEF h, rest
  <1>5. pipe \o toWrite = Encoded(channel)
    BY DEF Wire
  <1>6. channel # <<>>
    <2>1. SUFFICES ASSUME channel = <<>> PROVE FALSE
      OBVIOUS
    <2>2. Len(pipe \o toWrite) = 0
      BY <1>5, <2>1, NothingEncoded, EmptySeq
    <2>3. Len(pipe \o toWrite) = Len(pipe) + Len(toWrite)
      BY <1>1, ConcatProperties
    <2> QED
      BY <1>1, <2>2, <2>3
  <1> DEFINE b == Bytes(Head(channel))  e == Encoded(Tail(channel))  k == Header(Len(b))
  <1>7. Head(channel) \in Seq(Fields) /\ e \in Seq(Nat) /\ Encoded(channel) = Packet(Head(channel)) \o e
    BY <1>1, <1>6, EncodedHead
  <1>8. /\ b \in Seq(Nat) /\ k \in Seq(Nat) /\ Len(b) \in Nat
        /\ Packet(Head(channel)) = k \o b
    BY <1>7, PacketIs, BytesType
  <1>9. Value(k) = Len(b) /\ Len(k) = 4
    BY <1>8, SizeArrives
  <1>10. h \in Seq(Nat) /\ rest \in Seq(Nat)
    <2>1. Byte \subseteq Nat
      BY DEF Byte
    <2> QED
      BY <1>3, <2>1, SeqMonotonic
  <1> HIDE DEF b, e, k
  <1>11. h \o (rest \o toWrite) = k \o (b \o e)
    <2> DEFINE w == toWrite
    <2>1. w \in Seq(Nat) /\ (h \o rest) \o w = (k \o b) \o e
      BY <1>1, <1>3, <1>5, <1>7, <1>8
    <2>2. h \in Seq(Nat) /\ rest \in Seq(Nat) /\ w \in Seq(Nat)
      BY <1>10, <2>1
    <2>3. k \in Seq(Nat) /\ b \in Seq(Nat) /\ e \in Seq(Nat)
      BY <1>7, <1>8
    <2> HIDE DEF w
    <2>4. (h \o rest) \o w = h \o (rest \o w)
      BY <2>2, NumbersAssociate
    <2>5. (k \o b) \o e = k \o (b \o e)
      BY <2>3, NumbersAssociate
    <2>6. h \o (rest \o w) = k \o (b \o e)
      BY <2>1, <2>4, <2>5, Zenon
    <2> QED
      BY <2>6 DEF w
  <1>12. rest \o toWrite \in Seq(Nat) /\ b \o e \in Seq(Nat)
    BY <1>1, <1>7, <1>8, <1>10, ConcatProperties
  <1>13. h = k /\ rest \o toWrite = b \o e
    <2> DEFINE t == rest \o toWrite  v == b \o e
    <2>1. /\ h \in Seq(Nat) /\ k \in Seq(Nat) /\ t \in Seq(Nat) /\ v \in Seq(Nat)
          /\ h \o t = k \o v /\ Len(h) = Len(k)
      BY <1>3, <1>8, <1>9, <1>10, <1>11, <1>12
    <2> HIDE DEF t, v
    <2>2. h = k /\ t = v
      BY <2>1, SameCut
    <2> QED
      BY <2>2 DEF t, v
  <1> QED
    BY <1>3, <1>4, <1>6, <1>9, <1>13 DEF b, e, rest

\* A piece that is read goes from the pipe to its place in the block.
LEMMA ReadDataIs ==
  ASSUME TypeOK, Incoming, Wire, ReadData
  PROVE  /\ mData'["in"] \in Seq(Byte \cup {Junk}) /\ Len(mData'["in"]) = Len(mData["in"])
         /\ pipe' \in Seq(Byte) /\ totalRead' \in Nat /\ totalRead' <= mDataSize["in"]
         /\ SubSeq(mData'["in"], 1, totalRead') \o (pipe' \o toWrite)
              = SubSeq(mData["in"], 1, totalRead) \o (pipe \o toWrite)
  <1> DEFINE n == Min({mDataSize["in"] - totalRead, Len(pipe)})
             data == mData["in"]
             x == SubSeq(pipe, 1, n)  y == SubSeq(pipe, n + 1, Len(pipe))
             new == Overwritten(data, totalRead, x)
             Cell == Byte \cup {Junk}
  <1>1. /\ mData'["in"] = new /\ pipe' = y /\ totalRead' = totalRead + n
        /\ mDataSize["in"] > totalRead
    BY DEF ReadData, TypeOK, Parcels
  <1>2. /\ pipe \in Seq(Byte) /\ data \in Seq(Cell) /\ totalRead \in Nat /\ mDataSize["in"] \in Nat
        /\ Len(data) = mDataSize["in"] /\ Len(pipe) \in Nat
    BY LenProperties DEF TypeOK, Incoming, ReadData, Parcels
  <1>3. n \in Nat /\ n <= mDataSize["in"] - totalRead /\ n <= Len(pipe)
    <2> DEFINE a == mDataSize["in"] - totalRead  c == Len(pipe)
    <2>1. a \in Nat /\ c \in Nat
      BY <1>1, <1>2
    <2> HIDE DEF a, c
    <2>2. \E m \in {a, c} : \A z \in {a, c} : m <= z
      BY <2>1
    <2>3. Min({a, c}) \in {a, c} /\ \A z \in {a, c} : Min({a, c}) <= z
      BY <2>2 DEF Min
    <2>4. Min({a, c}) \in Nat /\ Min({a, c}) <= a /\ Min({a, c}) <= c
      BY <2>1, <2>3
    <2> QED
      BY <2>4 DEF a, c
  <1> HIDE DEF n, data
  <1>4. n \in 0..Len(pipe) /\ totalRead + n <= Len(data)
    BY <1>2, <1>3
  <1>5. x \in Seq(Byte) /\ Len(x) = n /\ y \in Seq(Byte) /\ x \o y = pipe
    BY <1>2, <1>4, Cut
  <1> HIDE DEF x, y
  <1>6. x \in Seq(Cell)
    BY <1>5, SeqMonotonic
  <1>7. /\ new \in Seq(Cell) /\ Len(new) = Len(data)
        /\ SubSeq(new, 1, totalRead + n) = SubSeq(data, 1, totalRead) \o x
    <2>1. totalRead + Len(x) <= Len(data)
      BY <1>4, <1>5
    <2> HIDE DEF Cell
    <2>2. /\ new \in Seq(Cell) /\ Len(new) = Len(data)
          /\ SubSeq(new, 1, totalRead + Len(x)) = SubSeq(data, 1, totalRead) \o x
      BY <1>2, <1>6, <2>1, OverwrittenIs
    <2> QED
      BY <1>5, <2>2
  <1> DEFINE r == SubSeq(data, 1, totalRead)
  <1>8. r \in Seq(Cells) /\ x \in Seq(Cells) /\ y \in Seq(Cells) /\ toWrite \in Seq(Cells)
    <2>1. totalRead \in 0..Len(data) /\ data \in Seq(Cells)
      BY <1>1, <1>2, CellsOf DEF data
    <2>2. r \in Seq(Cells)
      BY <2>1, Cut
    <2> HIDE DEF r
    <2>3. x \in Seq(Cells) /\ y \in Seq(Cells)
      BY <1>5, SeqMonotonic DEF Cells
    <2> QED
      BY <2>2, <2>3, CellsOf
  <1> HIDE DEF r, new
  <1>9. y \o toWrite \in Seq(Cells)
    BY <1>8, ConcatProperties
  <1>10. (r \o x) \o (y \o toWrite) = r \o (pipe \o toWrite)
    <2> DEFINE w == toWrite  z == y \o toWrite
    <2>1. z = y \o w
      OBVIOUS
    <2>2. r \in Seq(Cells) /\ x \in Seq(Cells) /\ z \in Seq(Cells)
      BY <1>8, <1>9
    <2>3. x \in Seq(Cells) /\ y \in Seq(Cells) /\ w \in Seq(Cells)
      BY <1>8
    <2>4. x \o y = pipe
      BY <1>5
    <2> HIDE DEF w, z, Cell
    <2>5. (r \o x) \o z = r \o (x \o z)
      BY <2>2, CellsAssociate
    <2>6. (x \o y) \o w = x \o (y \o w)
      BY <2>3, CellsAssociate
    <2>7. (r \o x) \o z = r \o (pipe \o w)
      BY <2>1, <2>5, <2>6, <2>4, Zenon
    <2> QED
      BY <2>7 DEF w, z
  <1>11. totalRead' \in Nat /\ totalRead' <= mDataSize["in"]
    BY <1>1, <1>2, <1>3
  <1> QED
    BY <1>1, <1>5, <1>7, <1>10, <1>11 DEF r, data

\* What recv() returns is the message that was sent first.
LEMMA RecvReturnsIs ==
  ASSUME TypeOK, Incoming, Wire, RecvReturns
  PROVE  /\ channel # <<>> /\ Head(channel) \in Seq(Fields)
         /\ channel' \in Seq(Seq(Fields)) /\ fields'["in"] = Head(channel)
         /\ Holds("in")' /\ pipe \o toWrite = Encoded(channel')
  <1> DEFINE data == mData["in"]  size == mDataSize["in"]
             r == SubSeq(data, 1, size)
             b == Bytes(Head(channel))  e == Encoded(Tail(channel))
  <1>1. /\ receiver = "data" /\ totalRead = size /\ channel' = Tail(channel)
        /\ fields'["in"] = Head(channel)
        /\ UNCHANGED <<mData, mDataPos, mDataSize, at>>
    BY DEF RecvReturns, TypeOK, Parcels
  <1>2. /\ channel # <<>> /\ size = Len(b) /\ Len(data) = size /\ at["in"] = 0 /\ mDataPos["in"] = 0
        /\ r \o (pipe \o toWrite) = b \o e
    BY <1>1 DEF Incoming, Wire
  <1>3. channel \in Seq(Seq(Fields)) /\ size \in Nat
    BY DEF TypeOK, Parcels
  <1>4. Head(channel) \in Seq(Fields) /\ Tail(channel) \in Seq(Seq(Fields)) /\ e \in Seq(Nat)
    BY <1>2, <1>3, EncodedHead
  <1>5. b \in Seq(Nat)
    BY <1>4, PacketIs
  <1> HIDE DEF b, e
  <1>6. b \in Seq(Cells) /\ e \in Seq(Cells) /\ pipe \o toWrite \in Seq(Cells)
    BY <1>4, <1>5, CellsOf, ConcatProperties
  <1>7. r \in Seq(Cells) /\ Len(r) = Len(b)
    <2>1. data \in Seq(Cells) /\ size \in 0..Len(data)
      BY <1>2, <1>3, CellsOf
    <2> HIDE DEF data, size
    <2>2. r \in Seq(Cells) /\ Len(r) = size
      BY <2>1, Cut
    <2> QED
      BY <1>2, <2>2
  <1> HIDE DEF r
  <1>8. r = b /\ pipe \o toWrite = e
    BY <1>2, <1>6, <1>7, SameCut
  <1>9. SubSeq(Head(channel), 1, 0) = <<>> /\ Len(Bytes(<<>>)) = 0
    BY NoBytes, EmptySeq, <1>4, SubSeqEmpty
  <1>10. Holds("in")'
    <2>1. mDataSize'["in"] <= Len(mData'["in"])
      BY <1>1, <1>2, <1>3
    <2>2. Bytes(fields'["in"]) = SubSeq(mData'["in"], 1, mDataSize'["in"])
      BY <1>1, <1>8 DEF r, b
    <2>3. mDataPos'["in"] = Len(Bytes(SubSeq(fields'["in"], 1, at'["in"])))
      BY <1>1, <1>2, <1>9
    <2> QED
      BY <2>1, <2>2, <2>3 DEF Holds
  <1> QED
    BY <1>1, <1>2, <1>4, <1>8, <1>10 DEF e

----------------------------------------------------------------------------
(* Every step keeps the invariant *)

LEMMA InvInit == Init => ParcelInv
  <1> SUFFICES ASSUME Init PROVE ParcelInv
    OBVIOUS
  <1>1. /\ <<>> \in Seq(Byte) /\ <<>> \in Seq(Byte \cup {Junk}) /\ <<>> \in Seq(Fields)
        /\ <<>> \in Seq(Seq(Fields)) /\ Len(<<>>) = 0
    BY EmptySeq
  <1>2. /\ mData \in [Parcels -> Seq(Byte \cup {Junk})]
        /\ fields \in [Parcels -> Seq(Fields)]
        /\ {mDataPos, mDataSize, mDataCapacity, at} \subseteq [Parcels -> Nat]
    BY <1>1 DEF Init
  <1>3. \A p \in Parcels : at[p] <= Len(fields[p])
    BY <1>1 DEF Init
  <1>4. TypeOK
    BY <1>1, <1>2, <1>3 DEF TypeOK, Init
  <1>5. ASSUME NEW p \in Parcels PROVE Holds(p)
    <2>1. SubSeq(<<>>, 1, 0) = <<>>
      BY SubSeqEmpty
    <2>2. /\ mData[p] = <<>> /\ fields[p] = <<>> /\ at[p] = 0 /\ mDataPos[p] = 0 /\ mDataSize[p] = 0
      BY DEF Init
    <2>3. Bytes(fields[p]) = <<>> /\ Bytes(SubSeq(fields[p], 1, at[p])) = <<>>
      BY <2>1, <2>2, NoBytes
    <2>4. mDataSize[p] <= Len(mData[p]) /\ mDataPos[p] = Len(Bytes(SubSeq(fields[p], 1, at[p])))
      BY <1>1, <2>2, <2>3
    <2> QED
      BY <2>1, <2>2, <2>3, <2>4 DEF Holds
  <1>6. Outgoing
    <2>1. MaxData \in Nat /\ 0 \in Nat
      BY Sizes
    <2>2. NewSize(MaxData, 0) \in Nat
      BY <2>1, NewSizeIs
    <2> QED
      BY <1>1, <1>5, <2>2 DEF Outgoing, Init, Parcels
  <1>7. Incoming
    BY <1>5 DEF Incoming, Init, Parcels
  <1>8. Wire
    BY NothingEncoded, EmptySeq, ConcatEmptySeq DEF Wire, Init
  <1> QED
    BY <1>4, <1>6, <1>7, <1>8 DEF ParcelInv

\* A parcel that is rewound still holds its fields.
LEMMA HoldsRewound ==
  ASSUME TypeOK, NEW p \in Parcels, Holds(p), UNCHANGED <<mData, mDataSize, fields>>,
         mDataPos' = [mDataPos EXCEPT ![p] = 0], at' = [at EXCEPT ![p] = 0]
  PROVE  /\ Holds(p)' /\ mDataPos'[p] = 0 /\ at'[p] = 0
         /\ \A q \in Parcels \ {p} : mDataPos'[q] = mDataPos[q] /\ at'[q] = at[q]
         /\ {mDataPos', at'} \subseteq [Parcels -> Nat]
         /\ \A q \in Parcels : at'[q] <= Len(fields[q])
  <1>1. /\ mDataPos'[p] = 0 /\ at'[p] = 0 /\ {mDataPos', at'} \subseteq [Parcels -> Nat]
        /\ \A q \in Parcels \ {p} : mDataPos'[q] = mDataPos[q] /\ at'[q] = at[q]
    BY DEF TypeOK
  <1>2. fields[p] \in Seq(Fields) /\ Len(fields[p]) \in Nat
    BY LenProperties DEF TypeOK
  <1>3. SubSeq(fields[p], 1, 0) = <<>> /\ Len(Bytes(<<>>)) = 0
    BY NoBytes, EmptySeq, SubSeqEmpty
  <1>4. Holds(p)'
    BY <1>1, <1>3 DEF Holds
  <1>5. ASSUME NEW q \in Parcels PROVE at'[q] <= Len(fields[q])
    <2>1. CASE q = p
      BY <1>1, <1>2, <2>1
    <2>2. CASE q # p
      BY <1>1, <2>2 DEF TypeOK
    <2> QED
      BY <2>1, <2>2
  <1> QED
    BY <1>1, <1>4, <1>5

\* A parcel that is in no call holds its fields.
LEMMA FreeHolds ==
  ASSUME ParcelInv, NEW p \in Parcels, Free(p)
  PROVE  Holds(p)
  <1>1. CASE p = "out"
    BY <1>1 DEF ParcelInv, Outgoing
  <1>2. CASE p = "in"
    BY <1>2 DEF Free, ParcelInv, Incoming
  <1> QED
    BY <1>1, <1>2 DEF Parcels

LEMMA RewindKeeps ==
  ASSUME ParcelInv, NEW p \in Parcels, Rewind(p)
  PROVE  ParcelInv'
  <1>1. Free(p) /\ UNCHANGED <<mData, mDataSize, mDataCapacity, pipe, writer, reader,
                              fields, channel, got>>
    BY DEF Rewind
  <1>2. TypeOK /\ Holds(p)
    BY <1>1, FreeHolds DEF ParcelInv
  <1>3. /\ Holds(p)' /\ mDataPos'[p] = 0 /\ at'[p] = 0
        /\ \A q \in Parcels \ {p} : mDataPos'[q] = mDataPos[q] /\ at'[q] = at[q]
        /\ {mDataPos', at'} \subseteq [Parcels -> Nat]
        /\ \A q \in Parcels : at'[q] <= Len(fields[q])
    BY <1>1, <1>2, HoldsRewound DEF Rewind
  <1>4. TypeOK'
    BY <1>1, <1>2, <1>3 DEF TypeOK, writer, reader
  <1>5. Outgoing'
    <2>1. CASE p = "out"
      BY <1>1, <1>3, <2>1 DEF ParcelInv, Outgoing, writer
    <2>2. CASE p # "out"
      <3>1. mDataPos'["out"] = mDataPos["out"] /\ at'["out"] = at["out"]
        BY <1>3, <2>2 DEF Parcels
      <3> QED
        BY <1>1, <3>1, OutgoingKept DEF ParcelInv, Outgoing, writer
    <2> QED
      BY <2>1, <2>2
  <1>6. Incoming'
    <2>1. CASE p = "in"
      BY <1>1, <1>3, <2>1 DEF Free, Incoming, reader
    <2>2. CASE p # "in"
      <3>1. mDataPos'["in"] = mDataPos["in"] /\ at'["in"] = at["in"]
        BY <1>3, <2>2 DEF Parcels
      <3> QED
        BY <1>1, <3>1, IncomingKept DEF ParcelInv, reader
    <2> QED
      BY <2>1, <2>2
  <1>7. Wire'
    BY <1>1, WireKept DEF ParcelInv, writer, reader
  <1> QED
    BY <1>4, <1>5, <1>6, <1>7 DEF ParcelInv

LEMMA ResetKeeps ==
  ASSUME ParcelInv, NEW p \in Parcels, Reset(p)
  PROVE  ParcelInv'
  <1>1. Free(p) /\ Emptied(p) /\ UNCHANGED <<pipe, writer, reader, channel, got>>
    BY DEF Reset
  <1>2. TypeOK
    BY DEF ParcelInv
  <1>3. /\ mData'[p] = <<>> /\ mDataPos'[p] = 0 /\ mDataSize'[p] = 0 /\ mDataCapacity'[p] = 0
        /\ fields'[p] = <<>> /\ at'[p] = 0 /\ Holds(p)'
        /\ \A q \in Parcels \ {p} :
             /\ mData'[q] = mData[q] /\ mDataPos'[q] = mDataPos[q]
             /\ mDataSize'[q] = mDataSize[q] /\ mDataCapacity'[q] = mDataCapacity[q]
             /\ fields'[q] = fields[q] /\ at'[q] = at[q]
    BY <1>1, <1>2, EmptiedIs
  <1>4. TypeOK'
    <2>1. /\ mData' \in [Parcels -> Seq(Byte \cup {Junk})]
          /\ {mDataPos', mDataSize', mDataCapacity', at'} \subseteq [Parcels -> Nat]
          /\ fields' \in [Parcels -> Seq(Fields)]
          /\ \A q \in Parcels : at'[q] <= Len(fields'[q])
      BY <1>1, <1>2, EmptiedIs
    <2> QED
      BY <1>1, <1>2, <2>1 DEF TypeOK, writer, reader
  <1>5. Outgoing'
    <2>1. CASE p = "out"
      <3>1. MaxData \in Nat /\ 0 \in Nat
        BY Sizes
      <3>2. NewSize(MaxData, 0) \in Nat /\ Len(<<>>) = 0
        BY <3>1, NewSizeIs, EmptySeq
      <3>3. sender = "idle" /\ sender' = "idle" /\ toWrite' = <<>>
        BY <1>1, <2>1 DEF Free, ParcelInv, Outgoing, writer
      <3> QED
        BY <1>3, <2>1, <3>2, <3>3 DEF Outgoing
    <2>2. CASE p # "out"
      <3>1. "out" \in Parcels \ {p}
        BY <2>2 DEF Parcels
      <3> QED
        BY <1>1, <1>3, <3>1, OutgoingKept DEF ParcelInv, Outgoing, writer
    <2> QED
      BY <2>1, <2>2
  <1>6. Incoming'
    <2>1. CASE p = "in"
      BY <1>1, <1>3, <2>1 DEF Free, Incoming, reader
    <2>2. CASE p # "in"
      <3>1. "in" \in Parcels \ {p}
        BY <2>2 DEF Parcels
      <3> QED
        BY <1>1, <1>3, <3>1, IncomingKept DEF ParcelInv, reader
    <2> QED
      BY <2>1, <2>2
  <1>7. Wire'
    <2>1. receiver = "data" => mData'["in"] = mData["in"]
      BY <1>1, <1>3 DEF Free, Parcels
    <2> QED
      BY <1>1, <2>1, WireKept DEF ParcelInv, writer, reader
  <1> QED
    BY <1>4, <1>5, <1>6, <1>7 DEF ParcelInv

LEMMA ReadKeeps ==
  ASSUME ParcelInv, NEW p \in Parcels, NEW f \in Fields,
         ReadValue(p, f) \/ ReadString(p, f) \/ ReadBytes(p, f)
  PROVE  ParcelInv'
  <1>1. TypeOK /\ Free(p) /\ Holds(p)
    BY FreeHolds DEF ParcelInv, ReadValue, ReadString, ReadBytes
  <1>2. /\ UNCHANGED <<mData, mDataSize, mDataCapacity, fields, pipe, writer, reader, channel>>
        /\ \/ /\ at[p] < Len(fields[p])
              /\ \E n \in Nat : /\ mDataPos' = [mDataPos EXCEPT ![p] = @ + n]
                                /\ mDataPos[p] + n = Len(Bytes(SubSeq(fields[p], 1, at[p] + 1)))
              /\ at' = [at EXCEPT ![p] = @ + 1]
           \/ UNCHANGED <<mDataPos, at>>
    BY <1>1, ReadIs
  <1>3. /\ mDataPos \in [Parcels -> Nat] /\ at \in [Parcels -> Nat]
        /\ \A q \in Parcels : Len(fields[q]) \in Nat /\ at[q] <= Len(fields[q])
    BY <1>1, LenProperties DEF TypeOK
  <1>4. /\ Holds(p)'
        /\ \A q \in Parcels \ {p} : mDataPos'[q] = mDataPos[q] /\ at'[q] = at[q]
        /\ {mDataPos', at'} \subseteq [Parcels -> Nat]
        /\ at'[p] <= Len(fields[p])
    <2>1. CASE UNCHANGED <<mDataPos, at>>
      <3>1. Holds(p)'
        BY <1>1, <1>2, <2>1, HoldsKept
      <3> QED
        BY <1>3, <2>1, <3>1
    <2>2. CASE ~UNCHANGED <<mDataPos, at>>
      <3>1. PICK n \in Nat : /\ mDataPos' = [mDataPos EXCEPT ![p] = @ + n]
                             /\ mDataPos[p] + n = Len(Bytes(SubSeq(fields[p], 1, at[p] + 1)))
        BY <1>2, <2>2
      <3>2. at' = [at EXCEPT ![p] = @ + 1] /\ at[p] < Len(fields[p])
        BY <1>2, <2>2
      <3>3. mDataPos'[p] = mDataPos[p] + n /\ at'[p] = at[p] + 1
        BY <1>3, <3>1, <3>2
      <3>4. mDataPos'[p] = Len(Bytes(SubSeq(fields[p], 1, at'[p])))
        BY <3>1, <3>3
      <3>5. Holds(p)'
        BY <1>1, <1>2, <3>4 DEF Holds
      <3>6. {mDataPos', at'} \subseteq [Parcels -> Nat]
        BY <1>3, <3>1, <3>2
      <3>7. at'[p] <= Len(fields[p])
        BY <1>3, <3>2, <3>3
      <3> QED
        BY <1>3, <3>1, <3>2, <3>5, <3>6, <3>7
    <2> QED
      BY <2>1, <2>2
  <1>5. \A q \in Parcels : at'[q] <= Len(fields[q])
    BY <1>3, <1>4
  <1>6. TypeOK'
    BY <1>1, <1>2, <1>4, <1>5 DEF TypeOK, writer, reader
  <1>7. Outgoing'
    <2>1. CASE p = "out"
      <3>1. sender = "idle"
        BY <1>1, <2>1 DEF Free
      <3> QED
        BY <1>2, <1>4, <2>1, <3>1 DEF ParcelInv, Outgoing, writer
    <2>2. CASE p # "out"
      <3>1. "out" \in Parcels \ {p}
        BY <2>2 DEF Parcels
      <3> QED
        BY <1>2, <1>4, <3>1, OutgoingKept DEF ParcelInv, Outgoing, writer
    <2> QED
      BY <2>1, <2>2
  <1>8. Incoming'
    <2>1. CASE p = "in"
      BY <1>1, <1>2, <1>4, <2>1 DEF Free, Incoming, reader
    <2>2. CASE p # "in"
      <3>1. "in" \in Parcels \ {p}
        BY <2>2 DEF Parcels
      <3> QED
        BY <1>2, <1>4, <3>1, IncomingKept DEF ParcelInv, reader
    <2> QED
      BY <2>1, <2>2
  <1>9. Wire'
    BY <1>2, WireKept DEF ParcelInv, writer, reader
  <1> QED
    BY <1>6, <1>7, <1>8, <1>9 DEF ParcelInv

LEMMA WriteKeeps ==
  ASSUME ParcelInv, NEW f \in Fields, Write(f)
  PROVE  ParcelInv'
  <1>1. TypeOK /\ Outgoing /\ Incoming /\ Wire
    BY DEF ParcelInv
  <1>2. /\ at["out"] = Len(fields["out"])
        /\ mData'["out"] \in Seq(Byte \cup {Junk})
        /\ mDataCapacity'["out"] \in Nat /\ Len(mData'["out"]) = mDataCapacity'["out"]
        /\ mDataCapacity'["out"] <= NewSize(MaxData, 0)
        /\ Holds("out")'
    BY <1>1, WriteIs
  <1> DEFINE len == Len(f.bytes)
  <1>3. /\ mDataPos' = [mDataPos EXCEPT !["out"] = @ + len]
        /\ mDataSize' = [mDataSize EXCEPT !["out"] = @ + len]
        /\ fields' = [fields EXCEPT !["out"] = Append(@, f)]
        /\ at' = [at EXCEPT !["out"] = @ + 1]
        /\ UNCHANGED <<pipe, writer, reader, channel, got>>
        /\ sender = "idle"
    BY DEF Write
  <1>4. /\ mData' \in [Parcels -> Seq(Byte \cup {Junk})] /\ mDataCapacity' \in [Parcels -> Nat]
        /\ mData'["in"] = mData["in"] /\ mDataCapacity'["in"] = mDataCapacity["in"]
    <2>1. \E d : mData' = [mData EXCEPT !["out"] = d]
      BY DEF Write
    <2>2. \E c : mDataCapacity' = [mDataCapacity EXCEPT !["out"] = c]
      BY DEF Write
    <2> QED
      BY <1>1, <1>2, <2>1, <2>2 DEF TypeOK, Parcels
  <1>5. len \in Nat
    BY FieldIs
  <1> HIDE DEF len
  <1>6. /\ {mDataPos', mDataSize', at'} \subseteq [Parcels -> Nat]
        /\ fields' \in [Parcels -> Seq(Fields)]
    <2>1. /\ {mDataPos, mDataSize, at} \subseteq [Parcels -> Nat]
          /\ fields \in [Parcels -> Seq(Fields)] /\ "out" \in Parcels
      BY <1>1 DEF TypeOK, Parcels
    <2>2. Append(fields["out"], f) \in Seq(Fields)
      BY <2>1, AppendProperties
    <2>3. mDataPos' \in [Parcels -> Nat] /\ mDataSize' \in [Parcels -> Nat]
      BY <1>3, <1>5, <2>1
    <2>4. at' \in [Parcels -> Nat]
      BY <1>3, <2>1
    <2>5. fields' \in [Parcels -> Seq(Fields)]
      BY <1>3, <2>1, <2>2
    <2> QED
      BY <2>3, <2>4, <2>5
  <1>7. \A p \in Parcels : at'[p] <= Len(fields'[p])
    <2>1. Len(Append(fields["out"], f)) = Len(fields["out"]) + 1 /\ Len(fields["out"]) \in Nat
      BY <1>1, AppendProperties, LenProperties DEF TypeOK, Parcels
    <2>2. /\ at'["out"] = at["out"] + 1 /\ fields'["out"] = Append(fields["out"], f)
          /\ at'["in"] = at["in"] /\ fields'["in"] = fields["in"]
      BY <1>1, <1>3 DEF TypeOK, Parcels
    <2>3. at'["out"] <= Len(fields'["out"])
      BY <1>2, <2>1, <2>2
    <2>4. at'["in"] <= Len(fields'["in"])
      BY <1>1, <2>2 DEF TypeOK, Parcels
    <2> QED
      BY <2>3, <2>4 DEF Parcels
  <1>8. TypeOK'
    <2>1. {mDataPos', mDataSize', mDataCapacity', at'} \subseteq [Parcels -> Nat]
      BY <1>4, <1>6
    <2>2. UNCHANGED <<sender, receiver, pipe, toWrite, totalRead, channel>>
      BY <1>3 DEF writer, reader
    <2> QED
      BY <1>1, <1>4, <1>6, <1>7, <2>1, <2>2 DEF TypeOK
  <1>9. Outgoing'
    BY <1>1, <1>2, <1>3 DEF Outgoing, writer
  <1>10. Incoming'
    <2>1. /\ mDataPos'["in"] = mDataPos["in"] /\ mDataSize'["in"] = mDataSize["in"]
          /\ fields'["in"] = fields["in"] /\ at'["in"] = at["in"]
      BY <1>1, <1>3 DEF TypeOK, Parcels
    <2> QED
      BY <1>1, <1>3, <1>4, <2>1, IncomingKept DEF reader
  <1>11. Wire'
    BY <1>1, <1>3, <1>4, WireKept DEF writer, reader
  <1> QED
    BY <1>8, <1>9, <1>10, <1>11 DEF ParcelInv

LEMMA SendBeginsKeeps ==
  ASSUME ParcelInv, SendBegins
  PROVE  ParcelInv'
  <1>1. /\ mDataPos' = [mDataPos EXCEPT !["out"] = 0] /\ at' = [at EXCEPT !["out"] = 0]
        /\ sender = "idle" /\ sender' = "header"
        /\ UNCHANGED <<mData, mDataSize, mDataCapacity, fields, pipe, toWrite, reader, channel, got>>
    BY DEF SendBegins
  <1>2. TypeOK /\ Holds("out") /\ "out" \in Parcels /\ "in" \in Parcels \ {"out"}
    BY DEF ParcelInv, Outgoing, Parcels
  <1>3. /\ Holds("out")' /\ mDataPos'["out"] = 0 /\ at'["out"] = 0
        /\ \A q \in Parcels \ {"out"} : mDataPos'[q] = mDataPos[q] /\ at'[q] = at[q]
        /\ {mDataPos', at'} \subseteq [Parcels -> Nat]
        /\ \A q \in Parcels : at'[q] <= Len(fields[q])
    BY <1>1, <1>2, HoldsRewound
  <1>4. TypeOK'
    <2>1. /\ mData' \in [Parcels -> Seq(Byte \cup {Junk})] /\ fields' \in [Parcels -> Seq(Fields)]
          /\ mDataSize' \in [Parcels -> Nat] /\ mDataCapacity' \in [Parcels -> Nat]
      BY <1>1, <1>2 DEF TypeOK
    <2>2. {mDataPos', mDataSize', mDataCapacity', at'} \subseteq [Parcels -> Nat]
      BY <1>3, <2>1
    <2>3. \A p \in Parcels : at'[p] <= Len(fields'[p])
      BY <1>1, <1>3
    <2> QED
      BY <1>1, <1>2, <2>1, <2>3, <2>2 DEF TypeOK, reader
  <1>5. Outgoing'
    BY <1>1, <1>3 DEF ParcelInv, Outgoing
  <1>6. Incoming'
    BY <1>1, <1>2, <1>3, IncomingKept DEF ParcelInv, reader
  <1>7. Wire'
    BY <1>1, WireKept DEF ParcelInv, reader
  <1> QED
    BY <1>4, <1>5, <1>6, <1>7 DEF ParcelInv

LEMMA WriteHeaderKeeps ==
  ASSUME ParcelInv, WriteHeader
  PROVE  ParcelInv'
  <1>1. TypeOK /\ Outgoing /\ Incoming /\ Wire
    BY DEF ParcelInv
  <1>2. /\ pipe' \in Seq(Byte) /\ toWrite' \in Seq(Byte) /\ channel' \in Seq(Seq(Fields))
        /\ channel # <<>> => channel' # <<>> /\ Head(channel') = Head(channel)
        /\ Wire'
    BY <1>1, WriteHeaderWire
  <1>3. UNCHANGED <<parcels, reader, got>> /\ sender' = "data"
    BY DEF WriteHeader
  <1>4. TypeOK'
    BY <1>1, <1>2, <1>3 DEF TypeOK, parcels, reader
  <1>5. Outgoing'
    BY <1>1, <1>3, OutgoingKept DEF parcels
  <1>6. Incoming'
    BY <1>1, <1>2, <1>3, IncomingKept DEF parcels, reader
  <1> QED
    BY <1>2, <1>4, <1>5, <1>6 DEF ParcelInv

LEMMA WriteDataKeeps ==
  ASSUME ParcelInv, WriteData
  PROVE  ParcelInv'
  <1>1. TypeOK /\ Outgoing /\ Incoming /\ Wire
    BY DEF ParcelInv
  <1>2. pipe' \in Seq(Byte) /\ toWrite' \in Seq(Byte) /\ Wire'
    BY <1>1, WriteDataWire
  <1>3. UNCHANGED <<parcels, sender, reader, channel, got>> /\ sender = "data"
    BY DEF WriteData
  <1>4. TypeOK'
    BY <1>1, <1>2, <1>3 DEF TypeOK, parcels, reader
  <1>5. Outgoing'
    BY <1>1, <1>3, OutgoingKept DEF parcels
  <1>6. Incoming'
    BY <1>1, <1>3, IncomingKept DEF parcels, reader
  <1> QED
    BY <1>2, <1>4, <1>5, <1>6 DEF ParcelInv

\* The last step of a send(), and its failure, change its program counter only.
LEMMA SenderLeaves ==
  ASSUME ParcelInv, SendReturns \/ SendFails \/ Close
  PROVE  ParcelInv'
  <1>1. TypeOK /\ Outgoing /\ Incoming /\ Wire
    BY DEF ParcelInv
  <1>2. /\ UNCHANGED <<parcels, pipe, toWrite, reader, channel, got>>
        /\ (sender' = "idle" /\ toWrite = <<>>) \/ sender' = "closed"
    BY DEF SendReturns, SendFails, Close
  <1>3. TypeOK'
    BY <1>1, <1>2 DEF TypeOK, parcels, reader
  <1>4. Outgoing'
    BY <1>1, <1>2, OutgoingKept DEF parcels
  <1>5. Incoming'
    BY <1>1, <1>2, IncomingKept DEF parcels, reader
  <1>6. Wire'
    BY <1>1, <1>2, WireKept DEF parcels, reader
  <1> QED
    BY <1>3, <1>4, <1>5, <1>6 DEF ParcelInv

\* A string read behind the last field may end the program, and with it this
\* end of the pipe.
LEMMA FaultKeeps ==
  ASSUME ParcelInv, NEW p \in Parcels, NEW f \in Fields, StringFaults(p, f)
  PROVE  ParcelInv'
  <1>1. TypeOK /\ Outgoing /\ Incoming /\ Wire
    BY DEF ParcelInv
  <1>2. UNCHANGED <<parcels, pipe, toWrite, totalRead, channel, got>>
    BY DEF StringFaults
  <1>3. \/ sender' = "closed" /\ UNCHANGED receiver
        \/ receiver' = "failed" /\ UNCHANGED sender
    BY DEF StringFaults
  <1>4. TypeOK'
    BY <1>1, <1>2, <1>3 DEF TypeOK, parcels
  <1>5. Outgoing'
    <2>1. Holds("out")'
      BY <1>1, <1>2, HoldsKept DEF Outgoing, Parcels, parcels
    <2> QED
      BY <1>1, <1>2, <1>3, <2>1 DEF Outgoing, parcels
  <1>6. Incoming'
    <2>1. CASE UNCHANGED receiver
      BY <1>1, <1>2, <2>1, IncomingKept DEF parcels, reader
    <2>2. CASE receiver' = "failed"
      BY <2>2 DEF Incoming
    <2> QED
      BY <1>3, <2>1, <2>2
  <1>7. Wire'
    <2>1. CASE UNCHANGED receiver
      BY <1>1, <1>2, <2>1, WireKept DEF parcels, reader
    <2>2. CASE receiver' = "failed"
      BY <2>2 DEF Wire
    <2> QED
      BY <1>3, <2>1, <2>2
  <1> QED
    BY <1>4, <1>5, <1>6, <1>7 DEF ParcelInv

\* What recv() empties when it begins, and when a read() fails.
LEMMA RecvEmpties ==
  ASSUME ParcelInv, RecvBegins \/ RecvFails
  PROVE  ParcelInv'
  <1>1. TypeOK /\ Outgoing /\ Incoming /\ Wire /\ "in" \in Parcels /\ "out" \in Parcels \ {"in"}
    BY DEF ParcelInv, Parcels
  <1>2. /\ Emptied("in") /\ UNCHANGED <<pipe, writer, totalRead, channel, got>>
        /\ (receiver = "idle" /\ receiver' = "header") \/ receiver' = "failed"
    BY DEF RecvBegins, RecvFails
  <1>3. /\ mData'["in"] = <<>> /\ mDataPos'["in"] = 0 /\ mDataSize'["in"] = 0
        /\ fields'["in"] = <<>> /\ at'["in"] = 0 /\ Holds("in")'
        /\ \A q \in Parcels \ {"in"} :
             /\ mData'[q] = mData[q] /\ mDataPos'[q] = mDataPos[q]
             /\ mDataSize'[q] = mDataSize[q] /\ mDataCapacity'[q] = mDataCapacity[q]
             /\ fields'[q] = fields[q] /\ at'[q] = at[q]
        /\ mData' \in [Parcels -> Seq(Byte \cup {Junk})]
        /\ {mDataPos', mDataSize', mDataCapacity', at'} \subseteq [Parcels -> Nat]
        /\ fields' \in [Parcels -> Seq(Fields)]
        /\ \A q \in Parcels : at'[q] <= Len(fields'[q])
    BY <1>1, <1>2, EmptiedIs
  <1>4. TypeOK'
    BY <1>1, <1>2, <1>3 DEF TypeOK, writer
  <1>5. Outgoing'
    BY <1>1, <1>2, <1>3, OutgoingKept DEF Outgoing, writer
  <1>6. Incoming'
    BY <1>2, <1>3 DEF Incoming
  <1>7. Wire'
    <2>1. CASE receiver = "idle" /\ receiver' = "header"
      BY <1>1, <1>2, <2>1 DEF Wire, writer
    <2>2. CASE receiver' = "failed"
      BY <2>2 DEF Wire
    <2> QED
      BY <1>2, <2>1, <2>2
  <1> QED
    BY <1>4, <1>5, <1>6, <1>7 DEF ParcelInv

\* What the steps of recv() leave alone.
LEMMA ReceiverLeaves ==
  ASSUME ParcelInv, UNCHANGED <<mDataPos, mDataCapacity, at, writer>>,
         \E d : mData' = [mData EXCEPT !["in"] = d],
         \E n : mDataSize' = [mDataSize EXCEPT !["in"] = n],
         \E s : fields' = [fields EXCEPT !["in"] = s],
         mData'["in"] \in Seq(Byte \cup {Junk}), mDataSize'["in"] \in Nat,
         fields'["in"] \in Seq(Fields), at["in"] <= Len(fields'["in"]),
         receiver' \in {"idle", "header", "data", "failed"},
         pipe' \in Seq(Byte), totalRead' \in Nat, channel' \in Seq(Seq(Fields))
  PROVE  TypeOK' /\ Outgoing'
  <1>1. /\ mData \in [Parcels -> Seq(Byte \cup {Junk})] /\ mDataSize \in [Parcels -> Nat]
        /\ fields \in [Parcels -> Seq(Fields)] /\ Parcels = {"in", "out"}
    BY DEF ParcelInv, TypeOK, Parcels
  <1>2. mData' \in [Parcels -> Seq(Byte \cup {Junk})] /\ mData'["out"] = mData["out"]
    BY <1>1
  <1>3. mDataSize' \in [Parcels -> Nat] /\ mDataSize'["out"] = mDataSize["out"]
    BY <1>1
  <1>4. fields' \in [Parcels -> Seq(Fields)] /\ fields'["out"] = fields["out"]
    BY <1>1
  <1>5. \A p \in Parcels : at'[p] <= Len(fields'[p])
    BY <1>1, <1>4 DEF ParcelInv, TypeOK
  <1>6. /\ mDataPos' \in [Parcels -> Nat] /\ mDataCapacity' \in [Parcels -> Nat]
        /\ at' \in [Parcels -> Nat]
    BY DEF ParcelInv, TypeOK
  <1>7. TypeOK'
    <2>1. {mDataPos', mDataSize', mDataCapacity', at'} \subseteq [Parcels -> Nat]
      BY <1>3, <1>6
    <2>2. /\ sender' \in {"idle", "header", "data", "closed"} /\ toWrite' \in Seq(Byte)
      BY DEF ParcelInv, TypeOK, writer
    <2> QED
      BY <1>2, <1>4, <1>5, <2>1, <2>2 DEF TypeOK
  <1>8. Outgoing'
    BY <1>2, <1>3, <1>4, OutgoingKept DEF ParcelInv, Outgoing, writer
  <1> QED
    BY <1>7, <1>8

LEMMA ReadHeaderKeeps ==
  ASSUME ParcelInv, ReadHeader \/ RecvWithoutMemory
  PROVE  ParcelInv'
  <1> DEFINE n == Value(pipe)  rest == SubSeq(pipe, 5, Len(pipe))
             block == [i \in 1..n |-> Junk]
  <1>1. /\ TypeOK /\ Outgoing /\ Incoming /\ Wire
        /\ receiver = "header" /\ Len(pipe) >= 4
    BY DEF ParcelInv, ReadHeader, RecvWithoutMemory
  <1>2. /\ channel # <<>> /\ n = Len(Bytes(Head(channel)))
        /\ rest \in Seq(Byte)
        /\ rest \o toWrite = Bytes(Head(channel)) \o Encoded(Tail(channel))
    BY <1>1, ReadHeaderIs
  <1>3. n \in Nat /\ Bytes(Head(channel)) \in Seq(Nat)
    <2>1. channel \in Seq(Seq(Fields))
      BY <1>1 DEF TypeOK
    <2> HIDE DEF n, rest
    <2>2. Head(channel) \in Seq(Fields)
      BY <1>2, <2>1, EncodedHead
    <2> QED
      BY <1>2, <2>2, BytesType, PacketIs
  <1>4. mDataSize' = [mDataSize EXCEPT !["in"] = n] /\ pipe' = rest
    BY DEF ReadHeader, RecvWithoutMemory
  <1>5. UNCHANGED <<mDataPos, mDataCapacity, fields, at, writer, channel, got>>
    BY DEF ReadHeader, RecvWithoutMemory
  <1> HIDE DEF n, rest
  <1>6. block \in Seq(Byte \cup {Junk}) /\ Len(block) = n
    BY <1>3
  <1> HIDE DEF block
  <1>7. CASE ReadHeader
    <2>1. mData' = [mData EXCEPT !["in"] = block] /\ totalRead' = 0 /\ receiver' = "data"
      BY <1>7 DEF ReadHeader, n, block
    <2>2. mData'["in"] = block /\ mDataSize'["in"] = n
      BY <1>1, <1>4, <2>1 DEF TypeOK, Parcels
    <2>3. /\ fields' = [fields EXCEPT !["in"] = fields["in"]]
          /\ fields'["in"] \in Seq(Fields) /\ at["in"] <= Len(fields'["in"])
          /\ channel' \in Seq(Seq(Fields))
      BY <1>1, <1>5 DEF TypeOK, Parcels
    <2>4. TypeOK' /\ Outgoing'
      BY <1>2, <1>3, <1>4, <1>5, <1>6, <2>1, <2>2, <2>3, ReceiverLeaves
    <2>5. Incoming'
      <3>1. mDataPos["in"] = 0 /\ at["in"] = 0
        BY <1>1 DEF Incoming
      <3>2. totalRead' <= mDataSize'["in"] /\ mDataSize'["in"] = Len(Bytes(Head(channel')))
        BY <1>2, <1>3, <1>5, <2>1, <2>2
      <3> QED
        BY <1>2, <1>5, <1>6, <2>1, <2>2, <3>1, <3>2 DEF Incoming
    <2>6. Wire'
      <3>1. SubSeq(mData'["in"], 1, totalRead') = <<>>
        BY <2>1, SubSeqEmpty
      <3>2. pipe' \o toWrite' = rest \o toWrite /\ rest \o toWrite \in Seq(Byte)
        BY <1>1, <1>2, <1>4, <1>5, ConcatProperties DEF TypeOK, writer
      <3>3. <<>> \o (rest \o toWrite) = rest \o toWrite
        BY <3>2, ConcatEmptySeq
      <3> QED
        BY <1>2, <1>5, <2>1, <3>1, <3>2, <3>3 DEF Wire
    <2> QED
      BY <2>4, <2>5, <2>6 DEF ParcelInv
  <1>8. CASE RecvWithoutMemory
    <2>1. UNCHANGED <<mData, totalRead>> /\ receiver' = "failed"
      BY <1>8 DEF RecvWithoutMemory
    <2>2. /\ mData' = [mData EXCEPT !["in"] = mData["in"]]
          /\ mData'["in"] \in Seq(Byte \cup {Junk}) /\ mDataSize'["in"] = n
          /\ fields' = [fields EXCEPT !["in"] = fields["in"]]
          /\ fields'["in"] \in Seq(Fields) /\ at["in"] <= Len(fields'["in"])
          /\ channel' \in Seq(Seq(Fields)) /\ totalRead' \in Nat
      BY <1>1, <1>4, <1>5, <2>1 DEF TypeOK, Parcels
    <2>3. TypeOK' /\ Outgoing'
      BY <1>2, <1>3, <1>4, <1>5, <2>1, <2>2, ReceiverLeaves
    <2>4. Incoming' /\ Wire'
      BY <2>1 DEF Incoming, Wire
    <2> QED
      BY <2>3, <2>4 DEF ParcelInv
  <1> QED
    BY <1>7, <1>8

LEMMA ReadDataKeeps ==
  ASSUME ParcelInv, ReadData
  PROVE  ParcelInv'
  <1>1. /\ TypeOK /\ Outgoing /\ Incoming /\ Wire
    BY DEF ParcelInv
  <1>2. /\ mData'["in"] \in Seq(Byte \cup {Junk}) /\ Len(mData'["in"]) = Len(mData["in"])
        /\ pipe' \in Seq(Byte) /\ totalRead' \in Nat /\ totalRead' <= mDataSize["in"]
        /\ SubSeq(mData'["in"], 1, totalRead') \o (pipe' \o toWrite)
             = SubSeq(mData["in"], 1, totalRead) \o (pipe \o toWrite)
    BY <1>1, ReadDataIs
  <1>3. /\ UNCHANGED <<mDataPos, mDataSize, mDataCapacity, fields, at, writer, receiver, channel, got>>
        /\ receiver = "data"
        /\ \E d : mData' = [mData EXCEPT !["in"] = d]
    BY DEF ReadData
  <1>4. /\ mDataSize' = [mDataSize EXCEPT !["in"] = mDataSize["in"]] /\ mDataSize'["in"] \in Nat
        /\ fields' = [fields EXCEPT !["in"] = fields["in"]]
        /\ fields'["in"] \in Seq(Fields) /\ at["in"] <= Len(fields'["in"])
        /\ channel' \in Seq(Seq(Fields))
    BY <1>1, <1>3 DEF TypeOK, Parcels
  <1>5. TypeOK' /\ Outgoing'
    BY <1>2, <1>3, <1>4, ReceiverLeaves
  <1>6. Incoming'
    BY <1>1, <1>2, <1>3 DEF Incoming
  <1>7. Wire'
    BY <1>1, <1>2, <1>3 DEF Wire, writer
  <1> QED
    BY <1>5, <1>6, <1>7 DEF ParcelInv

LEMMA RecvReturnsKeeps ==
  ASSUME ParcelInv, RecvReturns
  PROVE  ParcelInv'
  <1>1. /\ TypeOK /\ Outgoing /\ Incoming /\ Wire
    BY DEF ParcelInv
  <1>2. /\ channel # <<>> /\ Head(channel) \in Seq(Fields)
        /\ channel' \in Seq(Seq(Fields)) /\ fields'["in"] = Head(channel)
        /\ Holds("in")' /\ pipe \o toWrite = Encoded(channel')
    BY <1>1, RecvReturnsIs
  <1>3. /\ UNCHANGED <<mData, mDataPos, mDataSize, mDataCapacity, at, pipe, writer, totalRead, got>>
        /\ receiver = "data" /\ receiver' = "idle"
        /\ \E s : fields' = [fields EXCEPT !["in"] = s]
    BY DEF RecvReturns
  <1>4. /\ mDataSize' = [mDataSize EXCEPT !["in"] = mDataSize["in"]] /\ mDataSize'["in"] \in Nat
        /\ mData' = [mData EXCEPT !["in"] = mData["in"]]
        /\ mData'["in"] \in Seq(Byte \cup {Junk})
        /\ totalRead' \in Nat /\ pipe' \in Seq(Byte)
    BY <1>1, <1>3 DEF TypeOK, Parcels
  <1>5. at["in"] <= Len(fields'["in"])
    BY <1>1, <1>2, <1>3, LenProperties DEF Incoming
  <1>6. TypeOK' /\ Outgoing'
    BY <1>2, <1>3, <1>4, <1>5, ReceiverLeaves
  <1>7. Incoming'
    BY <1>2, <1>3 DEF Incoming
  <1>8. Wire'
    BY <1>2, <1>3 DEF Wire, writer
  <1> QED
    BY <1>6, <1>7, <1>8 DEF ParcelInv

\* At the end of the stream recv() returns the parcel it has emptied.
LEMMA ReadNoHeaderKeeps ==
  ASSUME ParcelInv, ReadNoHeader
  PROVE  ParcelInv'
  <1>1. /\ receiver = "header" /\ receiver' = "idle"
        /\ UNCHANGED <<parcels, pipe, writer, totalRead, channel, got>>
    BY DEF ReadNoHeader
  <1>2. TypeOK'
    BY <1>1 DEF ParcelInv, TypeOK, parcels, writer
  <1>3. Outgoing'
    BY <1>1, OutgoingKept DEF ParcelInv, Outgoing, parcels, writer
  <1>4. Incoming'
    <2>1. Holds("in")'
      BY <1>1, HoldsKept DEF ParcelInv, Incoming, Parcels, parcels
    <2> QED
      BY <1>1, <2>1 DEF Incoming
  <1>5. Wire'
    BY <1>1 DEF ParcelInv, Wire, parcels, writer
  <1> QED
    BY <1>2, <1>3, <1>4, <1>5 DEF ParcelInv

LEMMA InvNext == ParcelInv /\ [Next]_vars => ParcelInv'
  <1> SUFFICES ASSUME ParcelInv, [Next]_vars PROVE ParcelInv'
    OBVIOUS
  <1>1. ASSUME NEW f \in Fields, Write(f) PROVE ParcelInv'
    BY <1>1, WriteKeeps
  <1>2. ASSUME NEW p \in Parcels, Rewind(p) PROVE ParcelInv'
    BY <1>2, RewindKeeps
  <1>3. ASSUME NEW p \in Parcels, Reset(p) PROVE ParcelInv'
    BY <1>3, ResetKeeps
  <1>4. ASSUME NEW p \in Parcels, NEW f \in Fields,
               ReadValue(p, f) \/ ReadString(p, f) \/ ReadBytes(p, f)
        PROVE  ParcelInv'
    BY <1>4, ReadKeeps
  <1>15. ASSUME NEW p \in Parcels, NEW f \in Fields, StringFaults(p, f)
         PROVE  ParcelInv'
    BY <1>15, FaultKeeps
  <1>5. CASE SendBegins
    BY <1>5, SendBeginsKeeps
  <1>6. CASE WriteHeader
    BY <1>6, WriteHeaderKeeps
  <1>7. CASE WriteData
    BY <1>7, WriteDataKeeps
  <1>8. CASE SendReturns \/ SendFails \/ Close
    BY <1>8, SenderLeaves
  <1>9. CASE RecvBegins \/ RecvFails
    BY <1>9, RecvEmpties
  <1>10. CASE ReadHeader \/ RecvWithoutMemory
    BY <1>10, ReadHeaderKeeps
  <1>11. CASE ReadNoHeader
    BY <1>11, ReadNoHeaderKeeps
  <1>12. CASE ReadData
    BY <1>12, ReadDataKeeps
  <1>13. CASE RecvReturns
    BY <1>13, RecvReturnsKeeps
  <1>14. CASE UNCHANGED vars
    <2>1. UNCHANGED <<parcels, pipe, writer, reader, channel>>
      BY <1>14 DEF vars
    <2>2. TypeOK'
      BY <2>1 DEF ParcelInv, TypeOK, parcels, writer, reader
    <2>3. Outgoing'
      BY <2>1, OutgoingKept DEF ParcelInv, Outgoing, parcels, writer
    <2>4. Incoming'
      BY <2>1, IncomingKept DEF ParcelInv, parcels, reader
    <2>5. Wire'
      BY <2>1, WireKept DEF ParcelInv, parcels, writer, reader
    <2> QED
      BY <2>2, <2>3, <2>4, <2>5 DEF ParcelInv
  <1> QED
    BY <1>1, <1>2, <1>3, <1>4, <1>5, <1>6, <1>7, <1>8, <1>9, <1>10, <1>11, <1>12, <1>13, <1>14,
       <1>15
    DEF Next, Sender, Receiver

\* Whatever was written, grown, sent and received in pieces, each parcel that
\* is in no call holds its fields, and the pipe the messages under way.
THEOREM ParcelInvariant == Spec => []ParcelInv
  BY InvInit, InvNext, PTL DEF Spec

----------------------------------------------------------------------------
(* Parcels keep messages: every step is one of AbstractParcel's, or none *)

LEMMA MessagesInit == Init => Messages!ParcelInit
  BY DEF Init, Messages!ParcelInit

\* A read returns the next field, or nothing behind the last one.
LEMMA ReadMaps ==
  ASSUME ParcelInv, NEW p \in Parcels, NEW f \in Fields,
         ReadValue(p, f) \/ ReadString(p, f) \/ ReadBytes(p, f)
  PROVE  Messages!Get(p) \/ Messages!GetNothing(p)
  <1>1. TypeOK /\ Holds(p)
    BY FreeHolds DEF ParcelInv, ReadValue, ReadString, ReadBytes
  <1>2. /\ UNCHANGED <<fields, channel>>
        /\ \/ /\ at[p] < Len(fields[p])
              /\ got' = fields[p][at[p] + 1].bytes
              /\ at' = [at EXCEPT ![p] = @ + 1]
           \/ /\ at[p] = Len(fields[p])
              /\ got' = Refused(f.kind)
              /\ UNCHANGED at
    BY <1>1, ReadIs
  <1> QED
    BY <1>2 DEF Messages!Get, Messages!GetNothing

\* A message arrives in the parcel that recv() has emptied.
LEMMA RecvReturnsMaps ==
  ASSUME ParcelInv, RecvReturns
  PROVE  Messages!Arrived
  <1>1. channel # <<>>
    BY RecvReturnsIs DEF ParcelInv
  <1>2. at["in"] = 0 /\ at \in [Parcels -> Nat]
    BY DEF ParcelInv, TypeOK, Incoming, RecvReturns
  <1>3. /\ fields' = [fields EXCEPT !["in"] = Head(channel)] /\ channel' = Tail(channel)
        /\ UNCHANGED <<at, got>>
    BY DEF RecvReturns
  <1>4. at' = [at EXCEPT !["in"] = 0]
    BY <1>2, <1>3
  <1> QED
    BY <1>1, <1>3, <1>4 DEF Messages!Arrived

LEMMA MessagesNext ==
  ParcelInv /\ [Next]_vars => [Messages!ParcelNext]_<<fields, at, channel, got>>
  <1> DEFINE seen == <<fields, at, channel, got>>
  <1> SUFFICES ASSUME ParcelInv, [Next]_vars
               PROVE  Messages!ParcelNext \/ UNCHANGED seen
    OBVIOUS
  <1>1. "out" \in Parcels /\ "in" \in Parcels
    BY DEF Parcels
  <1>2. ASSUME NEW f \in Fields, Write(f) PROVE Messages!Put("out", f)
    <2>1. at["out"] = Len(fields["out"])
      BY <1>2, WriteIs DEF ParcelInv
    <2> QED
      BY <1>2, <2>1 DEF Write, Messages!Put
  <1>3. ASSUME NEW p \in Parcels, Rewind(p) PROVE Messages!Rewound(p)
    BY <1>3 DEF Rewind, Messages!Rewound
  <1>4. ASSUME NEW p \in Parcels, Reset(p) PROVE Messages!Emptied(p)
    BY <1>4 DEF Reset, Emptied, Messages!Emptied
  <1>5. ASSUME NEW p \in Parcels, NEW f \in Fields,
               ReadValue(p, f) \/ ReadString(p, f) \/ ReadBytes(p, f)
        PROVE  Messages!Get(p) \/ Messages!GetNothing(p)
    BY <1>5, ReadMaps
  <1>6. CASE SendBegins
    <2>1. Messages!Rewound("out")
      BY <1>6 DEF SendBegins, Messages!Rewound
    <2> QED
      BY <1>1, <2>1 DEF Messages!ParcelNext
  <1>7. CASE WriteHeader
    <2>1. at["out"] = 0
      BY <1>7 DEF WriteHeader, ParcelInv, Outgoing
    <2>2. Messages!Sent
      BY <1>7, <2>1 DEF WriteHeader, parcels, Messages!Sent
    <2> QED
      BY <2>2 DEF Messages!ParcelNext
  <1>8. CASE WriteData \/ SendReturns \/ SendFails \/ Close
    <2>1. UNCHANGED seen
      BY <1>8 DEF WriteData, SendReturns, SendFails, Close, parcels
    <2> QED
      BY <2>1
  <1>9. CASE RecvBegins \/ RecvFails
    <2>1. Messages!Emptied("in")
      BY <1>9 DEF RecvBegins, RecvFails, Emptied, Messages!Emptied
    <2> QED
      BY <1>1, <2>1 DEF Messages!ParcelNext
  <1>10. CASE ReadHeader \/ RecvWithoutMemory \/ ReadNoHeader \/ ReadData
    <2>1. UNCHANGED seen
      BY <1>10 DEF ReadHeader, RecvWithoutMemory, ReadNoHeader, ReadData, parcels
    <2> QED
      BY <2>1
  <1>11. CASE RecvReturns
    BY <1>11, RecvReturnsMaps DEF Messages!ParcelNext
  <1>12. CASE UNCHANGED vars
    BY <1>12 DEF vars, parcels
  <1>14. ASSUME NEW p \in Parcels, NEW f \in Fields, StringFaults(p, f)
         PROVE  UNCHANGED seen
    BY <1>14 DEF StringFaults, parcels
  <1>13. /\ (\E f \in Fields : Write(f)) => Messages!ParcelNext
         /\ (\E p \in Parcels : \/ Rewind(p) \/ Reset(p)
                                \/ \E f \in Fields : \/ ReadValue(p, f)
                                                     \/ ReadString(p, f)
                                                     \/ ReadBytes(p, f)) => Messages!ParcelNext
    BY <1>1, <1>2, <1>3, <1>4, <1>5 DEF Messages!ParcelNext
  <1> HIDE DEF seen
  <1> QED
    BY <1>6, <1>7, <1>8, <1>9, <1>10, <1>11, <1>12, <1>13, <1>14
    DEF Next, Sender, Receiver

\* Fields arrive as they were written, in order and message by message,
\* although the pipe carries bytes only.  A read beyond them that returns is
\* refused; readString() may instead not return.
THEOREM ParcelsKeepMessages == Spec => KeepsMessages
  BY ParcelInvariant, MessagesInit, MessagesNext, PTL
  DEF Spec, KeepsMessages, Messages!ParcelSpec

----------------------------------------------------------------------------
(* Where readString() runs on *)

LEMMA FaultsNext ==
  ASSUME ParcelInv, NEW p \in Parcels, NEW f \in Fields, StringFaults(p, f)
  PROVE  at[p] = Len(fields[p])
  <1>1. TypeOK /\ Holds(p) /\ Expects(p, f) /\ f.kind = "string" /\ Unended(p)
    BY FreeHolds DEF ParcelInv, StringFaults
  <1>2. ~(at[p] < Len(fields[p]))
    BY <1>1, StringEnds DEF Expects
  <1>3. at[p] \in Nat /\ Len(fields[p]) \in Nat /\ at[p] <= Len(fields[p])
    BY <1>1, LenProperties DEF TypeOK
  <1> QED
    BY <1>2, <1>3

\* The strlen() of readString() leaves the parcel only behind the last field:
\* a string that is read in its turn ends inside, wherever the block has been
\* moved to, the pipe has cut it and other fields with 0 in them lie.
THEOREM StringsEndInside == Spec => FaultsOnlyAtTheEnd
  <1>1. ParcelInv => \A p \in Parcels, f \in Fields :
                       StringFaults(p, f) => at[p] = Len(fields[p])
    BY FaultsNext
  <1> QED
    BY <1>1, ParcelInvariant, PTL DEF FaultsOnlyAtTheEnd

=============================================================================
