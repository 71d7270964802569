-------------------------- MODULE ListenersProofs --------------------------
(***************************************************************************)
(* For any set of listeners, any bound on their number and on the changes  *)
(* a callback makes: a walk calls who is due, and never leaves the list.   *)
(***************************************************************************)
EXTENDS Listeners, Integers, SequenceTheorems, WellFoundedInduction, TLAPS

----------------------------------------------------------------------------
(* Sequences and what is taken out of them *)

\* The order of the natural numbers is well founded.
LEMMA LessThan ==
  \E R : IsWellFoundedOn(R, Nat) /\ \A k, m \in Nat : k < m => <<k, m>> \in R
  <1>1. IsWellFoundedOn(OpToRel(<, Nat), Nat)
    BY NatLessThanWellFounded
  <1>2. \A k, m \in Nat : k < m => <<k, m>> \in OpToRel(<, Nat)
    BY DEF OpToRel
  <1> QED
    BY <1>1, <1>2

\* A set of natural numbers that is not empty has a least element.
LEMMA LeastElement ==
  ASSUME NEW T \in SUBSET Nat, T # {}
  PROVE  \E m \in T : \A k \in T : m <= k
  <1>1. PICK R : /\ IsWellFoundedOn(R, Nat)
                 /\ \A k, m \in Nat : k < m => <<k, m>> \in R
    BY LessThan
  <1>2. T \subseteq Nat
    OBVIOUS
  <1>3. IsWellFoundedOn(R, Nat)
    BY <1>1
  <1>4. PICK m \in T : \A k \in T : ~(<<k, m>> \in R)
    BY <1>2, <1>3, WFMin, Zenon
  <1>5. \A k \in T : ~(k < m)
    BY <1>1, <1>2, <1>4, Zenon
  <1>6. \A k \in T : m <= k
    BY <1>2, <1>5
  <1> QED
    BY <1>6

\* RemoveFirst() takes elements away only.
LEMMA RemoveFirstType ==
  ASSUME NEW D, NEW s \in Seq(D), NEW e
  PROVE  RemoveFirst(s, e) \in Seq(D)
  <1> DEFINE T == {i \in 1..Len(s) : s[i] = e}
  <1>1. CASE T = {}
    BY <1>1 DEF RemoveFirst
  <1>2. CASE T # {}
    <2>1. Len(s) \in Nat /\ T \in SUBSET Nat
      BY LenProperties
    <2>2. PICK m \in T : \A k \in T : m <= k
      <3> HIDE DEF T
      <3> QED
        BY <1>2, <2>1, LeastElement
    <2> DEFINE first == SelectInSeq(s, LAMBDA v : v = e)
    <2>3. first \in 1..Len(s)
      BY <1>2, <2>2 DEF SelectInSeq, Min
    <2>4. RemoveFirst(s, e) = SubSeq(s, 1, first - 1) \o SubSeq(s, first + 1, Len(s))
      BY <1>2 DEF RemoveFirst, RemoveAt
    <2> HIDE DEF first
    <2>5. SubSeq(s, 1, first - 1) \in Seq(D) /\ SubSeq(s, first + 1, Len(s)) \in Seq(D)
      <3>1. \A i \in 1..Len(s) : s[i] \in D
        BY ElementOfSeq
      <3> QED
        BY <2>1, <2>3, <3>1, SubSeqProperties
    <2> QED
      BY <2>4, <2>5, ConcatProperties
  <1> QED
    BY <1>1, <1>2

\* A part of a sequence, element by element.
LEMMA Part ==
  ASSUME NEW D, NEW s \in Seq(D), NEW a \in Nat \ {0}, NEW b \in 0..Len(s)
  PROVE  /\ SubSeq(s, a, b) \in Seq(D)
         /\ Len(SubSeq(s, a, b)) = IF a <= b THEN b - a + 1 ELSE 0
         /\ \A i \in 1..(b - a + 1) : SubSeq(s, a, b)[i] = s[a + i - 1]
  <1>1. Len(s) \in Nat
    BY LenProperties
  <1>2. \A i \in a..b : s[i] \in D
    <2> TAKE i \in a..b
    <2>1. i \in 1..Len(s)
      BY <1>1
    <2> QED
      BY <2>1, ElementOfSeq
  <1>3. a \in Int /\ b \in Int
    BY <1>1
  <1> QED
    BY <1>2, <1>3, SubSeqProperties

\* The order in which three sequences are put together does not matter.
LEMMA Associative ==
  ASSUME NEW D PROVE \A x, y, z \in Seq(D) : (x \o y) \o z = x \o (y \o z)
  <1> TAKE x, y, z \in Seq(D)
  <1>1. (x \o y) \o z \in Seq(D) /\ x \o (y \o z) \in Seq(D)
    BY ConcatProperties
  <1> QED
    BY ConcatAssociative

\* The first element of a part goes over to the sequence before it.
LEMMA PassOver ==
  ASSUME NEW D
  PROVE  \A s, c \in Seq(D) : \A b \in 1..Len(s) : \A a \in 1..b :
           Append(c, s[a]) \o SubSeq(s, a + 1, b) = c \o SubSeq(s, a, b)
  <1>0. \A x, y, z \in Seq(D) : (x \o y) \o z = x \o (y \o z)
    BY Associative
  <1> TAKE s, c \in Seq(D)
  <1> TAKE b \in 1..Len(s)
  <1> TAKE a \in 1..b
  <1>1. Len(s) \in Nat /\ a \in 1..Len(s) /\ b \in a..Len(s)
    BY LenProperties
  <1> DEFINE u == <<s[a]>>
             v == SubSeq(s, a + 1, b)
  <1>2. SubSeq(s, a, b) = u \o v
    BY <1>1, SubSeqRecursiveFirst
  <1>3. s[a] \in D
    BY <1>1, ElementOfSeq
  <1>4. u \in Seq(D) /\ Append(c, s[a]) = c \o u
    BY <1>3, AppendIsConcat
  <1>5. v \in Seq(D)
    BY <1>1, Part
  <1> HIDE DEF u, v
  <1>6. (c \o u) \o v = c \o (u \o v)
    BY <1>0, <1>4, <1>5, Zenon
  <1> QED
    BY <1>2, <1>4, <1>6 DEF v

\* An element at the back does not change what is before it ...
LEMMA BackKeeps ==
  ASSUME NEW D, NEW s \in Seq(D), NEW x \in D, NEW a \in Nat \ {0}, NEW b \in 0..Len(s)
  PROVE  SubSeq(Append(s, x), a, b) = SubSeq(s, a, b)
  <1> DEFINE t == Append(s, x)
  <1>1. /\ t \in Seq(D) /\ Len(t) = Len(s) + 1 /\ Len(s) \in Nat
        /\ \A i \in 1..Len(s) : t[i] = s[i]
    BY AppendProperties, LenProperties
  <1> HIDE DEF t
  <1>2. b \in 0..Len(t)
    BY <1>1
  <1>3. /\ SubSeq(t, a, b) \in Seq(D) /\ Len(SubSeq(t, a, b)) = IF a <= b THEN b - a + 1 ELSE 0
        /\ \A i \in 1..(b - a + 1) : SubSeq(t, a, b)[i] = t[a + i - 1]
    BY <1>1, <1>2, Part
  <1>4. /\ SubSeq(s, a, b) \in Seq(D) /\ Len(SubSeq(s, a, b)) = IF a <= b THEN b - a + 1 ELSE 0
        /\ \A i \in 1..(b - a + 1) : SubSeq(s, a, b)[i] = s[a + i - 1]
    BY Part
  <1>5. \A i \in 1..Len(SubSeq(t, a, b)) : SubSeq(t, a, b)[i] = SubSeq(s, a, b)[i]
    <2> TAKE i \in 1..Len(SubSeq(t, a, b))
    <2>1. i \in 1..(b - a + 1) /\ a + i - 1 \in 1..Len(s)
      BY <1>1, <1>3
    <2> QED
      BY <1>1, <1>3, <1>4, <2>1
  <1>6. SubSeq(t, a, b) = SubSeq(s, a, b)
    BY <1>3, <1>4, <1>5, SeqEqual
  <1> QED
    BY <1>6 DEF t

\* ... and one at the front moves everything by one.
LEMMA FrontMoves ==
  ASSUME NEW D, NEW s \in Seq(D), NEW x \in D, NEW a \in Nat \ {0}
  PROVE  /\ <<x>> \o s \in Seq(D)
         /\ Len(<<x>> \o s) = Len(s) + 1
         /\ \A i \in 1..Len(s) : (<<x>> \o s)[i + 1] = s[i]
         /\ (<<x>> \o s)[1] = x
         /\ SubSeq(<<x>> \o s, a + 1, Len(s) + 1) = SubSeq(s, a, Len(s))
  <1> DEFINE t == <<x>> \o s
  <1>1. Len(s) \in Nat
    BY LenProperties
  <1>2. <<x>> \in Seq(D) /\ Len(<<x>>) = 1 /\ <<x>>[1] = x
    OBVIOUS
  <1>3. /\ t \in Seq(D) /\ Len(t) = Len(s) + 1
        /\ \A i \in 1..(1 + Len(s)) : t[i] = IF i <= 1 THEN <<x>>[i] ELSE s[i - 1]
    BY <1>2, ConcatProperties
  <1> HIDE DEF t
  <1>4. t[1] = x /\ \A i \in 1..Len(s) : t[i + 1] = s[i]
    <2>1. t[1] = x
      BY <1>1, <1>2, <1>3
    <2>2. ASSUME NEW i \in 1..Len(s) PROVE t[i + 1] = s[i]
      <3>1. i + 1 \in 1..(1 + Len(s)) /\ ~(i + 1 <= 1) /\ (i + 1) - 1 = i
        BY <1>1
      <3> QED
        BY <1>3, <3>1
    <2> QED
      BY <2>1, <2>2
  <1>5. a + 1 \in Nat \ {0} /\ Len(s) + 1 \in 0..Len(t)
    BY <1>1, <1>3
  <1>6. /\ SubSeq(t, a + 1, Len(s) + 1) \in Seq(D)
        /\ Len(SubSeq(t, a + 1, Len(s) + 1)) = IF a <= Len(s) THEN Len(s) - a + 1 ELSE 0
        /\ \A i \in 1..(Len(s) - a + 1) : SubSeq(t, a + 1, Len(s) + 1)[i] = t[a + i]
    <2>1. /\ SubSeq(t, a + 1, Len(s) + 1) \in Seq(D)
          /\ Len(SubSeq(t, a + 1, Len(s) + 1))
               = IF a + 1 <= Len(s) + 1 THEN (Len(s) + 1) - (a + 1) + 1 ELSE 0
          /\ \A i \in 1..((Len(s) + 1) - (a + 1) + 1) :
               SubSeq(t, a + 1, Len(s) + 1)[i] = t[(a + 1) + i - 1]
      BY <1>3, <1>5, Part
    <2>2. \A i \in 1..(Len(s) - a + 1) : (a + 1) + i - 1 = a + i
      OBVIOUS
    <2>3. (Len(s) + 1) - (a + 1) + 1 = Len(s) - a + 1 /\ (a + 1 <= Len(s) + 1 <=> a <= Len(s))
      BY <1>1
    <2> QED
      BY <2>1, <2>2, <2>3
  <1>7. /\ SubSeq(s, a, Len(s)) \in Seq(D)
        /\ Len(SubSeq(s, a, Len(s))) = IF a <= Len(s) THEN Len(s) - a + 1 ELSE 0
        /\ \A i \in 1..(Len(s) - a + 1) : SubSeq(s, a, Len(s))[i] = s[a + i - 1]
    BY <1>1, Part
  <1>8. \A i \in 1..Len(SubSeq(s, a, Len(s))) :
          SubSeq(t, a + 1, Len(s) + 1)[i] = SubSeq(s, a, Len(s))[i]
    <2> TAKE i \in 1..Len(SubSeq(s, a, Len(s)))
    <2>1. i \in 1..(Len(s) - a + 1) /\ a + i - 1 \in 1..Len(s) /\ (a + i - 1) + 1 = a + i
      BY <1>1, <1>7
    <2> QED
      BY <1>4, <1>6, <1>7, <2>1
  <1>9. SubSeq(t, a + 1, Len(s) + 1) = SubSeq(s, a, Len(s))
    BY <1>6, <1>7, <1>8, SeqEqual
  <1> QED
    BY <1>3, <1>4, <1>9 DEF t

\* The two halves of a concatenation.
LEMMA Halves ==
  ASSUME NEW D, NEW c \in Seq(D), NEW x \in Seq(D)
  PROVE  /\ SubSeq(c \o x, 1, Len(c)) = c
         /\ SubSeq(c \o x, Len(c) + 1, Len(c \o x)) = x
  <1> DEFINE s == c \o x
  <1>1. /\ s \in Seq(D) /\ Len(s) = Len(c) + Len(x)
        /\ Len(c) \in Nat /\ Len(x) \in Nat
        /\ \A i \in 1..(Len(c) + Len(x)) : s[i] = IF i <= Len(c) THEN c[i] ELSE x[i - Len(c)]
    BY ConcatProperties, LenProperties
  <1> HIDE DEF s
  <1>2. SubSeq(s, 1, Len(c)) = c
    <2>1. /\ SubSeq(s, 1, Len(c)) \in Seq(D) /\ Len(SubSeq(s, 1, Len(c))) = Len(c)
          /\ \A i \in 1..Len(c) : SubSeq(s, 1, Len(c))[i] = s[i]
      <3>1. 1 \in Nat \ {0} /\ Len(c) \in 0..Len(s)
        BY <1>1
      <3>2. /\ SubSeq(s, 1, Len(c)) \in Seq(D)
            /\ Len(SubSeq(s, 1, Len(c))) = IF 1 <= Len(c) THEN Len(c) - 1 + 1 ELSE 0
            /\ \A i \in 1..(Len(c) - 1 + 1) : SubSeq(s, 1, Len(c))[i] = s[1 + i - 1]
        BY <1>1, <3>1, Part
      <3> QED
        BY <1>1, <3>2
    <2>2. \A i \in 1..Len(c) : SubSeq(s, 1, Len(c))[i] = c[i]
      BY <1>1, <2>1
    <2> QED
      BY <2>1, <2>2, SeqEqual
  <1>3. SubSeq(s, Len(c) + 1, Len(s)) = x
    <2>1. Len(c) + 1 \in Nat \ {0} /\ Len(s) \in 0..Len(s)
      BY <1>1
    <2>2. /\ SubSeq(s, Len(c) + 1, Len(s)) \in Seq(D)
          /\ Len(SubSeq(s, Len(c) + 1, Len(s)))
               = IF Len(c) + 1 <= Len(s) THEN Len(s) - (Len(c) + 1) + 1 ELSE 0
          /\ \A i \in 1..(Len(s) - (Len(c) + 1) + 1) :
               SubSeq(s, Len(c) + 1, Len(s))[i] = s[(Len(c) + 1) + i - 1]
      BY <1>1, <2>1, Part
    <2>3. Len(SubSeq(s, Len(c) + 1, Len(s))) = Len(x)
      BY <1>1, <2>2
    <2>4. ASSUME NEW i \in 1..Len(x) PROVE SubSeq(s, Len(c) + 1, Len(s))[i] = x[i]
      <3>1. /\ i \in 1..(Len(s) - (Len(c) + 1) + 1)
            /\ (Len(c) + 1) + i - 1 = Len(c) + i
            /\ Len(c) + i \in 1..(Len(c) + Len(x)) /\ ~(Len(c) + i <= Len(c))
            /\ (Len(c) + i) - Len(c) = i
        BY <1>1
      <3> QED
        BY <1>1, <2>2, <3>1
    <2> QED
      BY <2>2, <2>3, <2>4, SeqEqual
  <1> QED
    BY <1>2, <1>3 DEF s

\* What is not in a sequence is not taken out of it.
LEMMA RemoveNone ==
  ASSUME NEW s, NEW e, \A i \in 1..Len(s) : s[i] # e PROVE RemoveFirst(s, e) = s
  BY DEF RemoveFirst

\* An element that is there once is taken out, and the others move up.
LEMMA RemoveAlone ==
  ASSUME NEW D, NEW s \in Seq(D), NEW j \in 1..Len(s),
         \A i \in 1..Len(s) : s[i] = s[j] => i = j
  PROVE  /\ RemoveFirst(s, s[j]) \in Seq(D)
         /\ Len(RemoveFirst(s, s[j])) = Len(s) - 1
         /\ \A i \in 1..(Len(s) - 1) :
              RemoveFirst(s, s[j])[i] = IF i < j THEN s[i] ELSE s[i + 1]
  <1> DEFINE I == {i \in 1..Len(s) : s[i] = s[j]}
             first == SelectInSeq(s, LAMBDA v : v = s[j])
             u == SubSeq(s, 1, j - 1)
             v == SubSeq(s, j + 1, Len(s))
  <1>0. Len(s) \in Nat
    BY LenProperties
  <1>1. I = {j}
    OBVIOUS
  <1>2. first = j
    BY <1>0, <1>1 DEF SelectInSeq, Min
  <1>3. RemoveFirst(s, s[j]) = u \o v
    BY <1>2 DEF RemoveFirst, RemoveAt
  <1>4. /\ u \in Seq(D) /\ Len(u) = j - 1
        /\ \A i \in 1..(j - 1) : u[i] = s[i]
    <2>1. 1 \in Nat \ {0} /\ j - 1 \in 0..Len(s)
      BY <1>0
    <2>2. /\ u \in Seq(D) /\ Len(u) = IF 1 <= j - 1 THEN (j - 1) - 1 + 1 ELSE 0
          /\ \A i \in 1..((j - 1) - 1 + 1) : u[i] = s[1 + i - 1]
      BY <2>1, Part
    <2> QED
      BY <1>0, <2>2
  <1>5. /\ v \in Seq(D) /\ Len(v) = Len(s) - j
        /\ \A i \in 1..(Len(s) - j) : v[i] = s[j + i]
    <2>1. j + 1 \in Nat \ {0} /\ Len(s) \in 0..Len(s)
      BY <1>0
    <2>2. /\ v \in Seq(D) /\ Len(v) = IF j + 1 <= Len(s) THEN Len(s) - (j + 1) + 1 ELSE 0
          /\ \A i \in 1..(Len(s) - (j + 1) + 1) : v[i] = s[(j + 1) + i - 1]
      BY <2>1, Part
    <2> QED
      BY <1>0, <2>2
  <1> HIDE DEF u, v
  <1>6. /\ u \o v \in Seq(D) /\ Len(u \o v) = Len(u) + Len(v)
        /\ \A i \in 1..(Len(u) + Len(v)) :
             (u \o v)[i] = IF i <= Len(u) THEN u[i] ELSE v[i - Len(u)]
    BY <1>4, <1>5, ConcatProperties
  <1>7. ASSUME NEW i \in 1..(Len(s) - 1)
        PROVE  (u \o v)[i] = IF i < j THEN s[i] ELSE s[i + 1]
    <2>0. i \in 1..(Len(u) + Len(v))
      BY <1>0, <1>4, <1>5
    <2>1. CASE i < j
      BY <1>0, <1>4, <1>6, <2>0, <2>1
    <2>2. CASE ~(i < j)
      <3>1. i - Len(u) \in 1..(Len(s) - j) /\ j + (i - Len(u)) = i + 1 /\ ~(i <= Len(u))
        BY <1>0, <1>4, <2>2
      <3> QED
        BY <1>5, <1>6, <2>0, <2>2, <3>1
    <2> QED
      BY <2>1, <2>2
  <1> QED
    BY <1>0, <1>3, <1>4, <1>5, <1>6, <1>7

\* When it is taken out before a part, the part moves up ...
LEMMA RemoveBefore ==
  ASSUME NEW D, NEW s \in Seq(D), NEW j \in 1..Len(s), NEW a \in Nat, j <= a, a <= Len(s),
         NEW r \in Seq(D), Len(r) = Len(s) - 1,
         \A i \in 1..(Len(s) - 1) : r[i] = IF i < j THEN s[i] ELSE s[i + 1]
  PROVE  SubSeq(r, a, Len(r)) = SubSeq(s, a + 1, Len(s))
  <1>0. Len(s) \in Nat /\ a \in Nat \ {0} /\ Len(r) \in 0..Len(r) /\ Len(s) \in 0..Len(s)
    BY LenProperties
  <1> DEFINE x == SubSeq(r, a, Len(r))  y == SubSeq(s, a + 1, Len(s))
  <1>1. /\ x \in Seq(D) /\ Len(x) = Len(s) - a
        /\ \A i \in 1..(Len(s) - a) : x[i] = r[a + i - 1]
    <2>1. /\ x \in Seq(D) /\ Len(x) = IF a <= Len(r) THEN Len(r) - a + 1 ELSE 0
          /\ \A i \in 1..(Len(r) - a + 1) : x[i] = r[a + i - 1]
      BY <1>0, Part
    <2> QED
      BY <1>0, <2>1
  <1>2. /\ y \in Seq(D) /\ Len(y) = Len(s) - a
        /\ \A i \in 1..(Len(s) - a) : y[i] = s[a + i]
    <2>1. /\ y \in Seq(D) /\ Len(y) = IF a + 1 <= Len(s) THEN Len(s) - (a + 1) + 1 ELSE 0
          /\ \A i \in 1..(Len(s) - (a + 1) + 1) : y[i] = s[(a + 1) + i - 1]
      BY <1>0, Part
    <2> QED
      BY <1>0, <2>1
  <1> HIDE DEF x, y
  <1>3. ASSUME NEW i \in 1..Len(x) PROVE x[i] = y[i]
    <2>1. /\ i \in 1..(Len(s) - a) /\ a + i - 1 \in 1..(Len(s) - 1)
          /\ ~(a + i - 1 < j) /\ (a + i - 1) + 1 = a + i
      BY <1>0, <1>1
    <2> QED
      BY <1>1, <1>2, <2>1
  <1>4. x = y
    BY <1>1, <1>2, <1>3, SeqEqual
  <1> QED
    BY <1>4 DEF x, y

\* ... and inside of it, the part loses it, too.
LEMMA RemoveInside ==
  ASSUME NEW D, NEW s \in Seq(D), NEW a \in Nat, NEW j \in (a + 1)..Len(s),
         \A i \in 1..Len(s) : s[i] = s[j] => i = j,
         NEW r \in Seq(D), Len(r) = Len(s) - 1,
         \A i \in 1..(Len(s) - 1) : r[i] = IF i < j THEN s[i] ELSE s[i + 1]
  PROVE  RemoveFirst(SubSeq(s, a + 1, Len(s)), s[j]) = SubSeq(r, a + 1, Len(r))
  <1> DEFINE y == SubSeq(s, a + 1, Len(s))
             x == SubSeq(r, a + 1, Len(r))
             z == RemoveFirst(y, s[j])
  <1>0. Len(s) \in Nat /\ a + 1 \in Nat \ {0} /\ Len(r) \in 0..Len(r) /\ Len(s) \in 0..Len(s)
    BY LenProperties
  <1>1. /\ y \in Seq(D) /\ Len(y) = Len(s) - a
        /\ \A i \in 1..(Len(s) - a) : y[i] = s[a + i]
    <2>1. /\ y \in Seq(D) /\ Len(y) = IF a + 1 <= Len(s) THEN Len(s) - (a + 1) + 1 ELSE 0
          /\ \A i \in 1..(Len(s) - (a + 1) + 1) : y[i] = s[(a + 1) + i - 1]
      BY <1>0, Part
    <2> QED
      BY <1>0, <2>1
  <1>2. /\ x \in Seq(D) /\ Len(x) = Len(s) - a - 1
        /\ \A i \in 1..(Len(s) - a - 1) : x[i] = r[a + i]
    <2>1. /\ x \in Seq(D) /\ Len(x) = IF a + 1 <= Len(r) THEN Len(r) - (a + 1) + 1 ELSE 0
          /\ \A i \in 1..(Len(r) - (a + 1) + 1) : x[i] = r[(a + 1) + i - 1]
      BY <1>0, Part
    <2> HIDE DEF x, y
    <2>2. Len(r) - (a + 1) + 1 = Len(s) - a - 1 /\ Len(s) - a - 1 \in Nat
      BY <1>0
    <2>3. Len(x) = Len(s) - a - 1
      BY <1>0, <2>1, <2>2
    <2>4. ASSUME NEW i \in 1..(Len(s) - a - 1) PROVE x[i] = r[a + i]
      <3>1. (a + 1) + i - 1 = a + i
        BY <1>0
      <3> QED
        BY <2>1, <2>2, <3>1
    <2> QED
      BY <2>1, <2>3, <2>4
  <1> HIDE DEF x, y
  <1>3. j - a \in 1..Len(y) /\ y[j - a] = s[j]
    <2>1. j - a \in 1..(Len(s) - a) /\ a + (j - a) = j
      BY <1>0
    <2> QED
      BY <1>1, <2>1
  <1>4. \A i \in 1..Len(y) : y[i] = y[j - a] => i = j - a
    <2> SUFFICES ASSUME NEW i \in 1..Len(y), y[i] = y[j - a] PROVE i = j - a
      OBVIOUS
    <2>1. i \in 1..(Len(s) - a) /\ a + i \in 1..Len(s)
      BY <1>0, <1>1
    <2>2. s[a + i] = s[j]
      BY <1>1, <1>3, <2>1
    <2> QED
      BY <2>1, <2>2
  <1>5. /\ z \in Seq(D) /\ Len(z) = Len(y) - 1
        /\ \A i \in 1..(Len(y) - 1) : z[i] = IF i < j - a THEN y[i] ELSE y[i + 1]
    <2> DEFINE n == j - a
    <2>1. n \in 1..Len(y) /\ y[n] = s[j] /\ \A i \in 1..Len(y) : y[i] = y[n] => i = n
      BY <1>3, <1>4
    <2>2. z = RemoveFirst(y, y[n])
      BY <2>1
    <2>3. y \in Seq(D)
      BY <1>1
    <2> HIDE DEF n, z
    <2>4. /\ z \in Seq(D) /\ Len(z) = Len(y) - 1
          /\ \A i \in 1..(Len(y) - 1) : z[i] = IF i < n THEN y[i] ELSE y[i + 1]
      BY <2>1, <2>2, <2>3, RemoveAlone
    <2> QED
      BY <2>4 DEF n
  <1> HIDE DEF z
  <1>6. ASSUME NEW i \in 1..Len(z) PROVE z[i] = x[i]
    <2>1. /\ i \in 1..(Len(y) - 1) /\ i \in 1..(Len(s) - a) /\ i + 1 \in 1..(Len(s) - a)
          /\ i \in 1..(Len(s) - a - 1) /\ a + i \in 1..(Len(s) - 1)
          /\ (i < j - a <=> a + i < j) /\ a + (i + 1) = (a + i) + 1
      BY <1>0, <1>1, <1>5
    <2>2. z[i] = IF a + i < j THEN s[a + i] ELSE s[(a + i) + 1]
      BY <1>1, <1>5, <2>1
    <2>3. x[i] = IF a + i < j THEN s[a + i] ELSE s[(a + i) + 1]
      BY <1>2, <2>1
    <2> QED
      BY <2>2, <2>3
  <1>7. z = x
    <2>1. Len(z) = Len(x)
      BY <1>1, <1>2, <1>5
    <2> QED
      BY <1>2, <1>5, <1>6, <2>1, SeqEqual
  <1> QED
    BY <1>7 DEF x, y, z
----------------------------------------------------------------------------
(* The types *)

LEMMA EventTypes ==
  /\ NoEvent \in Events
  /\ \A m \in WifiMessages : \A e \in {EventType(m)} \X Extra(m) :
       e \in Events /\ e[1] = EventType(m)
  <1>1. <<"", "other">> \in WifiMessages
    BY DEF WifiMessages
  <1>2. EventType(<<"", "other">>) = "UNKNOWN" /\ Extra(<<"", "other">>) = {"none"}
    BY DEF EventType, Extra, OtherMessages
  <1>3. NoEvent \in {EventType(<<"", "other">>)} \X Extra(<<"", "other">>)
    BY <1>2 DEF NoEvent
  <1>4. NoEvent \in Events
    BY <1>1, <1>3 DEF Events
  <1>5. ASSUME NEW m \in WifiMessages, NEW e \in {EventType(m)} \X Extra(m)
        PROVE  e \in Events /\ e[1] = EventType(m)
    BY <1>5 DEF Events
  <1> QED
    BY <1>4, <1>5

\* A change keeps the types of what it changes.
LEMMA ChangeTypes ==
  ASSUME TypeOK, Len(called) <= Len(due),
         NEW l \in Listener, addListener(l) \/ removeListener(l)
  PROVE  mListeners' \in Seq(Listener) /\ due' \in Seq(Listener)
  <1>1. CASE addListener(l)
    <2>1. due' = due /\ mListeners' = Added(l)
      BY <1>1 DEF addListener
    <2>2. Append(mListeners, l) \in Seq(Listener) /\ <<l>> \o mListeners \in Seq(Listener)
      <3>1. <<l>> \in Seq(Listener)
        OBVIOUS
      <3> QED
        BY <3>1, AppendProperties, ConcatProperties DEF TypeOK
    <2> QED
      BY <2>1, <2>2 DEF Added, TypeOK
  <1>2. CASE removeListener(l)
    <2>1. mListeners' = RemoveFirst(mListeners, l) /\ due' = NotDue(l)
      BY <1>2 DEF removeListener, Removed
    <2>2. RemoveFirst(mListeners, l) \in Seq(Listener)
      BY RemoveFirstType DEF TypeOK
    <2> DEFINE done == SubSeq(due, 1, Len(called))
               rest == SubSeq(due, Len(called) + 1, Len(due))
    <2>3. done \in Seq(Listener) /\ rest \in Seq(Listener)
      <3>1. Len(called) \in 0..Len(due) /\ Len(due) \in 0..Len(due) /\ 1 \in Nat \ {0}
            /\ Len(called) + 1 \in Nat \ {0} /\ due \in Seq(Listener)
        BY LenProperties DEF TypeOK
      <3> QED
        BY <3>1, Part
    <2> HIDE DEF done, rest
    <2>4. RemoveFirst(rest, l) \in Seq(Listener)
      BY <2>3, RemoveFirstType
    <2>5. NotDue(l) = done \o RemoveFirst(rest, l)
      BY DEF NotDue, done, rest
    <2> QED
      BY <2>1, <2>2, <2>3, <2>4, <2>5, ConcatProperties
  <1> QED
    BY <1>1, <1>2
----------------------------------------------------------------------------
(* What the invariant says *)

\* In a walk there is a place, and the calls so far are a beginning of those
\* that are due.
LEMMA PlaceIs ==
  ASSUME WalkInv, Walking
  PROVE  /\ LastOne \in 0..Len(mListeners)
         /\ Len(called) <= Len(due)
         /\ \E k \in 1..(LastOne + 1) :
              /\ IsAt(k)
              /\ at = "callback" => k <= LastOne
              /\ LET rest == SubSeq(mListeners, IF at = "walk" THEN k ELSE k + 1, LastOne)
                 IN  /\ rest \in Seq(Listener)
                     /\ called \o rest = due
  <1> USE DEF WalkInv, TypeOK
  <1>1. LastOne \in 0..Len(mListeners)
    BY LenProperties DEF Aligned, LastOne
  <1>2. PICK k \in 1..(LastOne + 1) :
          /\ IsAt(k)
          /\ at = "callback" => k <= LastOne
          /\ called \o SubSeq(mListeners, IF at = "walk" THEN k ELSE k + 1, LastOne) = due
    BY DEF Aligned
  <1> DEFINE a == IF at = "walk" THEN k ELSE k + 1
             rest == SubSeq(mListeners, a, LastOne)
  <1>3. a \in Nat \ {0}
    BY <1>1, LenProperties
  <1> HIDE DEF a
  <1>4. rest \in Seq(Listener)
    BY <1>1, <1>3, Part
  <1> HIDE DEF rest
  <1>5. Len(called) <= Len(due)
    <2>1. Len(called \o rest) = Len(called) + Len(rest)
      BY <1>4, ConcatProperties
    <2>2. called \o rest = due
      BY <1>2 DEF rest, a
    <2> QED
      BY <1>4, <2>1, <2>2, LenProperties
  <1> QED
    BY <1>1, <1>2, <1>4, <1>5 DEF rest, a

\* From the place alone: the next call finds its listener.
LEMMA PlaceFollows == TypeOK /\ Aligned => PlaceIsValid
  <1> SUFFICES ASSUME TypeOK, Aligned PROVE PlaceIsValid
    OBVIOUS
  <1> SUFFICES ASSUME at = "callback" \/ (at = "walk" /\ ~AtEnd)
               PROVE  IF manager \in Vectors THEN ii \in 1..Len(mListeners)
                                             ELSE it \in Elements(mListeners)
    BY DEF PlaceIsValid
  <1>1. Walking
    BY DEF Walking
  <1>2. /\ LastOne \in 0..Len(mListeners) /\ Len(mListeners) \in Nat
    BY <1>1, LenProperties DEF Aligned, LastOne, TypeOK
  <1>3. PICK k \in 1..(LastOne + 1) : IsAt(k) /\ (at = "callback" => k <= LastOne)
    BY <1>1 DEF Aligned
  <1>4. CASE manager \in Vectors
    <2>1. ii = k /\ LastOne = count
      BY <1>3, <1>4 DEF IsAt, LastOne
    <2>2. k <= LastOne
      BY <1>2, <1>3, <1>4, <2>1 DEF AtEnd
    <2> QED
      BY <1>2, <1>3, <1>4, <2>1, <2>2
  <1>5. CASE manager \notin Vectors
    <2>1. k <= LastOne /\ LastOne = Len(mListeners)
      BY <1>2, <1>3, <1>5 DEF IsAt, LastOne, AtEnd
    <2>2. it = mListeners[k] /\ k \in 1..Len(mListeners)
      BY <1>2, <1>3, <1>5, <2>1 DEF IsAt
    <2> QED
      BY <1>5, <2>2 DEF Elements
  <1> QED
    BY <1>4, <1>5

\* From the invariant: the walk calls who is due.
LEMMA CallsFollow == ASSUME WalkInv PROVE CallsWhatIsDue
  <1> USE DEF WalkInv, TypeOK
  <1>1. CASE ~Walking
    <2>1. due = <<>> /\ called = <<>> /\ at # "walk"
      BY <1>1 DEF Walking
    <2>2. IsPrefix(<<>>, <<>>)
      BY DEF IsPrefix
    <2> QED
      BY <2>1, <2>2 DEF CallsWhatIsDue
  <1>2. CASE Walking
    <2>1. PICK k \in 1..(LastOne + 1) :
            /\ IsAt(k)
            /\ at = "callback" => k <= LastOne
            /\ LET rest == SubSeq(mListeners, IF at = "walk" THEN k ELSE k + 1, LastOne)
               IN  /\ rest \in Seq(Listener)
                   /\ called \o rest = due
      BY <1>2, PlaceIs
    <2> DEFINE rest == SubSeq(mListeners, IF at = "walk" THEN k ELSE k + 1, LastOne)
    <2>2. rest \in Seq(Listener) /\ called \o rest = due
      BY <2>1
    <2>3. IsPrefix(called, due)
      <3> HIDE DEF rest
      <3>1. Len(called) <= Len(due)
        BY <1>2, PlaceIs
      <3>2. SubSeq(due, 1, Len(called)) = called
        BY <2>2, Halves
      <3>3. SubSeq(called, 1, Len(called)) = called
        BY SubSeqFull
      <3> QED
        BY <3>1, <3>2, <3>3 DEF IsPrefix
    <2>4. ASSUME at = "walk", AtEnd PROVE called = due
      <3>1. k = LastOne + 1
        <4>0. LastOne \in 0..Len(mListeners) /\ Len(mListeners) \in Nat
          BY <1>2, PlaceIs, LenProperties
        <4>1. CASE manager \in Vectors
          BY <2>1, <2>4, <4>0, <4>1 DEF IsAt, AtEnd, LastOne
        <4>2. CASE manager \notin Vectors
          <5> SUFFICES ASSUME k <= Len(mListeners) PROVE FALSE
            BY <4>0, <4>2 DEF LastOne
          <5>1. mListeners[k] \in Listener /\ mListeners[k] = None
            BY <2>1, <2>4, <4>0, <4>2, ElementOfSeq DEF IsAt, AtEnd
          <5> QED
            BY <5>1, ListenersAssumption
        <4> QED
          BY <4>1, <4>2
      <3>2. rest = <<>>
        <4>1. LastOne \in Int /\ LastOne < k
          BY <1>2, <3>1, PlaceIs
        <4> QED
          BY <2>4, <4>1, SubSeqEmpty
      <3> QED
        BY <2>2, <3>2, ConcatEmptySeq
    <2> QED
      BY <2>3, <2>4 DEF CallsWhatIsDue
  <1> QED
    BY <1>1, <1>2
----------------------------------------------------------------------------
(* The steps *)

\* A walk begins at its first listener, and nobody was called.
LEMMA BeginsAligned ==
  ASSUME WalkInv, ~Walking, Notify
  PROVE  Aligned' /\ ListedOnce'
  <1> USE DEF WalkInv, TypeOK
  <1>1. /\ at' = "walk" /\ due' = mListeners /\ called' = <<>>
        /\ UNCHANGED <<manager, mListeners>>
        /\ IF manager \in Vectors
             THEN count' = Len(mListeners) /\ ii' = 1
             ELSE it' = IF mListeners = <<>> THEN None ELSE Head(mListeners)
    BY DEF Notify, Begin
  <1>2. Len(mListeners) \in Nat
    BY LenProperties
  <1>3. LastOne' = Len(mListeners)
    BY <1>1 DEF LastOne
  <1>4. IsAt(1)'
    <2>1. CASE manager \in Vectors
      BY <1>1, <2>1 DEF IsAt
    <2>2. CASE manager \notin Vectors /\ mListeners = <<>>
      BY <1>1, <1>2, <2>2, EmptySeq DEF IsAt
    <2>3. CASE manager \notin Vectors /\ mListeners # <<>>
      <3>1. 1 <= Len(mListeners) /\ Head(mListeners) = mListeners[1]
        BY <2>3, EmptySeq
      <3> QED
        BY <1>1, <2>3, <3>1 DEF IsAt
    <2> QED
      BY <2>1, <2>2, <2>3
  <1>5. called' \o SubSeq(mListeners', 1, LastOne') = due'
    BY <1>1, <1>3, SubSeqFull, ConcatEmptySeq
  <1>6. Aligned'
    BY <1>1, <1>2, <1>3, <1>4, <1>5 DEF Aligned
  <1> QED
    BY <1>1, <1>6 DEF ListedOnce

\* A call is the next one that is due.
LEMMA CallAligned == ASSUME WalkInv, Call PROVE Aligned' /\ called' \in Seq(Listener)
  <1> USE DEF WalkInv, TypeOK
  <1>0. at = "walk" /\ ~AtEnd /\ Walking
    BY DEF Call, Walking
  <1>1. /\ at' = "callback" /\ called' = Append(called, Calling)
        /\ UNCHANGED <<manager, mListeners, count, ii, it, due>>
    BY DEF Call, place
  <1>2. PICK k \in 1..(LastOne + 1) :
          /\ IsAt(k)
          /\ called \o SubSeq(mListeners, k, LastOne) = due
    BY <1>0 DEF Aligned
  <1>3. LastOne \in 0..Len(mListeners) /\ Len(mListeners) \in Nat
    BY <1>0, PlaceIs, LenProperties
  <1>4. k <= LastOne
    BY <1>0, <1>2, <1>3 DEF IsAt, AtEnd, LastOne
  <1>5. Calling = mListeners[k] /\ k \in 1..Len(mListeners)
    BY <1>2, <1>3, <1>4 DEF IsAt, Calling
  <1>6. mListeners[k] \in Listener
    BY <1>5, ElementOfSeq
  <1>7. called' \in Seq(Listener)
    BY <1>1, <1>5, <1>6, AppendProperties
  <1>8. called' \o SubSeq(mListeners, k + 1, LastOne) = due
    <2>1. LastOne \in 1..Len(mListeners) /\ k \in 1..LastOne
      BY <1>3, <1>4
    <2>2. Append(called, mListeners[k]) \o SubSeq(mListeners, k + 1, LastOne)
            = called \o SubSeq(mListeners, k, LastOne)
      BY <2>1, PassOver
    <2> QED
      BY <1>1, <1>2, <1>5, <2>2
  <1>9. LastOne' = LastOne /\ IsAt(k)'
    BY <1>1, <1>2 DEF LastOne, IsAt
  <1>10. Aligned'
    <2>1. at' = "callback" /\ called' \o SubSeq(mListeners', k + 1, LastOne') = due'
      BY <1>1, <1>8, <1>9
    <2>2. k <= LastOne' /\ k \in 1..(LastOne' + 1) /\ LastOne' <= Len(mListeners')
      BY <1>1, <1>3, <1>4, <1>9
    <2> QED
      BY <1>9, <2>1, <2>2 DEF Aligned
  <1> QED
    BY <1>7, <1>10

\* A list has the element behind x where the one behind its only copy is.
LEMMA BehindIs ==
  ASSUME TypeOK, ListedOnce, manager \notin Vectors, NEW k \in 1..Len(mListeners)
  PROVE  Behind(mListeners[k]) = IF k < Len(mListeners) THEN mListeners[k + 1] ELSE None
  <1>1. \A j \in 1..Len(mListeners) : mListeners[j] = mListeners[k] => j = k
    BY DEF ListedOnce
  <1>2. (CHOOSE j \in 1..Len(mListeners) : mListeners[j] = mListeners[k]) = k
    BY <1>1
  <1> QED
    BY <1>2 DEF Behind

\* The walk goes on to the next place.
LEMMA ReturnAligned == ASSUME WalkInv, Return PROVE Aligned'
  <1> USE DEF WalkInv, TypeOK
  <1>0. at = "callback" /\ Walking
    BY DEF Return, Walking
  <1>1. /\ at' = "walk"
        /\ UNCHANGED <<manager, mListeners, count, due, called>>
        /\ IF manager \in Vectors THEN ii' = ii + 1 ELSE it' = Behind(it)
    BY DEF Return
  <1>2. PICK k \in 1..(LastOne + 1) :
          /\ IsAt(k)
          /\ k <= LastOne
          /\ called \o SubSeq(mListeners, k + 1, LastOne) = due
    BY <1>0 DEF Aligned
  <1>3. LastOne \in 0..Len(mListeners) /\ Len(mListeners) \in Nat
    BY <1>0, PlaceIs, LenProperties
  <1>4. LastOne' = LastOne
    BY <1>1 DEF LastOne
  <1>5. IsAt(k + 1)'
    <2>1. CASE manager \in Vectors
      BY <1>1, <1>2, <2>1 DEF IsAt
    <2>2. CASE manager \notin Vectors
      <3>1. k \in 1..Len(mListeners) /\ it = mListeners[k]
        BY <1>2, <1>3, <2>2 DEF IsAt
      <3>2. it' = IF k < Len(mListeners) THEN mListeners[k + 1] ELSE None
        BY <1>1, <2>2, <3>1, BehindIs
      <3>3. k < Len(mListeners) <=> k + 1 <= Len(mListeners)
        BY <1>3
      <3> QED
        BY <1>1, <2>2, <3>2, <3>3 DEF IsAt
    <2> QED
      BY <2>1, <2>2
  <1>6. k + 1 \in 1..(LastOne' + 1) /\ LastOne' <= Len(mListeners')
    BY <1>1, <1>2, <1>3, <1>4
  <1>7. at' = "walk" /\ called' \o SubSeq(mListeners', k + 1, LastOne') = due'
    BY <1>1, <1>2, <1>4
  <1> QED
    BY <1>5, <1>6, <1>7 DEF Aligned

\* A listener that is added, by whoever is called, does not change who is due.
LEMMA AddAligned ==
  ASSUME WalkInv, NEW l \in Listener, addListener(l)
  PROVE  Aligned' /\ ListedOnce'
  <1> USE DEF WalkInv, TypeOK
  <1>1. /\ mListeners' = Added(l)
        /\ UNCHANGED <<manager, at, count, ii, it, due, called>>
    BY DEF addListener, place
  <1>2. Len(mListeners) \in Nat
    BY LenProperties
  <1>3. CASE manager \in Vectors
    <2>1. mListeners' = Append(mListeners, l)
      BY <1>1, <1>3 DEF Added
    <2>2. Len(mListeners') = Len(mListeners) + 1
      BY <2>1, AppendProperties
    <2>3. ASSUME Walking PROVE Aligned'
      <3>1. PICK k \in 1..(LastOne + 1) :
              /\ IsAt(k)
              /\ at = "callback" => k <= LastOne
              /\ called \o SubSeq(mListeners, IF at = "walk" THEN k ELSE k + 1, LastOne) = due
        BY <2>3 DEF Aligned
      <3>2. LastOne \in 0..Len(mListeners) /\ LastOne' = LastOne
        BY <1>1, <1>3, <2>3, PlaceIs DEF LastOne
      <3> DEFINE a == IF at = "walk" THEN k ELSE k + 1
      <3>3. a \in Nat \ {0}
        BY <1>2, <3>2
      <3>4. SubSeq(mListeners', a, LastOne) = SubSeq(mListeners, a, LastOne)
        <4> HIDE DEF a
        <4> QED
          BY <2>1, <3>2, <3>3, BackKeeps
      <3>5. IsAt(k)' /\ LastOne' <= Len(mListeners')
        BY <1>1, <1>2, <1>3, <2>2, <3>1, <3>2 DEF IsAt
      <3>6. called' \o SubSeq(mListeners', IF at' = "walk" THEN k ELSE k + 1, LastOne') = due'
        BY <1>1, <3>1, <3>2, <3>4
      <3> QED
        BY <1>1, <3>1, <3>2, <3>5, <3>6 DEF Aligned
    <2> QED
      BY <1>1, <1>3, <2>3 DEF Aligned, Walking, ListedOnce
  <1>4. CASE manager \notin Vectors /\ l \in Elements(mListeners)
    <2>1. UNCHANGED mListeners
      BY <1>1, <1>4 DEF Added
    <2> QED
      BY <1>1, <2>1 DEF Aligned, Walking, LastOne, IsAt, ListedOnce
  <1>5. CASE manager \notin Vectors /\ l \notin Elements(mListeners)
    <2>1. mListeners' = <<l>> \o mListeners
      BY <1>1, <1>5 DEF Added
    <2>2. /\ Len(mListeners') = Len(mListeners) + 1
          /\ mListeners'[1] = l
          /\ \A i \in 1..Len(mListeners) : mListeners'[i + 1] = mListeners[i]
          /\ \A a \in Nat \ {0} : SubSeq(mListeners', a + 1, Len(mListeners) + 1)
                                    = SubSeq(mListeners, a, Len(mListeners))
      <3>1. 1 \in Nat \ {0}
        OBVIOUS
      <3> QED
        BY <2>1, <3>1, FrontMoves
    <2>3. ListedOnce'
      <3> SUFFICES ASSUME NEW i \in 1..Len(mListeners'), NEW j \in 1..Len(mListeners'),
                          mListeners'[i] = mListeners'[j], i < j
                   PROVE  FALSE
        BY <1>2, <2>2 DEF ListedOnce
      <3>1. j - 1 \in 1..Len(mListeners) /\ mListeners'[j] = mListeners[j - 1]
        <4>1. j - 1 \in 1..Len(mListeners) /\ (j - 1) + 1 = j
          BY <1>2, <2>2
        <4> QED
          BY <2>2, <4>1
      <3>2. CASE i = 1
        BY <1>5, <2>2, <3>1, <3>2 DEF Elements
      <3>3. CASE i # 1
        <4>1. i - 1 \in 1..Len(mListeners) /\ (i - 1) + 1 = i
          BY <1>2, <2>2, <3>3
        <4>2. mListeners'[i] = mListeners[i - 1]
          BY <2>2, <4>1
        <4> QED
          BY <1>5, <3>1, <4>1, <4>2 DEF ListedOnce
      <3> QED
        BY <3>2, <3>3
    <2>4. ASSUME Walking PROVE Aligned'
      <3>1. PICK k \in 1..(LastOne + 1) :
              /\ IsAt(k)
              /\ at = "callback" => k <= LastOne
              /\ called \o SubSeq(mListeners, IF at = "walk" THEN k ELSE k + 1, LastOne) = due
        BY <2>4 DEF Aligned
      <3>2. LastOne = Len(mListeners) /\ LastOne' = LastOne + 1
        BY <1>1, <1>5, <2>2 DEF LastOne
      <3> DEFINE a == IF at = "walk" THEN k ELSE k + 1
      <3>3. a \in Nat \ {0} /\ (IF at = "walk" THEN k + 1 ELSE (k + 1) + 1) = a + 1
        BY <1>2, <3>2
      <3>4. SubSeq(mListeners', a + 1, LastOne') = SubSeq(mListeners, a, LastOne)
        <4> HIDE DEF a
        <4> QED
          BY <2>2, <3>2, <3>3
      <3>5. IsAt(k + 1)'
        <4>1. k + 1 <= Len(mListeners') <=> k <= Len(mListeners)
          BY <1>2, <2>2, <3>2
        <4>2. k <= Len(mListeners) => mListeners'[k + 1] = mListeners[k]
          BY <1>2, <2>2, <3>2
        <4> QED
          BY <1>1, <1>5, <3>1, <4>1, <4>2 DEF IsAt
      <3>6. called' \o SubSeq(mListeners', IF at' = "walk" THEN k + 1 ELSE (k + 1) + 1, LastOne')
              = due'
        BY <1>1, <3>1, <3>3, <3>4
      <3>7. /\ k + 1 \in 1..(LastOne' + 1)
            /\ at' = "callback" => k + 1 <= LastOne'
            /\ LastOne' <= Len(mListeners')
        BY <1>1, <1>2, <2>2, <3>1, <3>2
      <3> QED
        BY <3>5, <3>6, <3>7 DEF Aligned
    <2> QED
      BY <1>1, <2>3, <2>4 DEF Aligned, Walking
  <1> QED
    BY <1>3, <1>4, <1>5

\* What a list is without a listener it had.
LEMMA ListWithout ==
  ASSUME TypeOK, ListedOnce, manager \notin Vectors, NEW j \in 1..Len(mListeners)
  PROVE  LET r == RemoveFirst(mListeners, mListeners[j]) IN
         /\ r \in Seq(Listener)
         /\ Len(r) = Len(mListeners) - 1
         /\ \A i \in 1..(Len(mListeners) - 1) :
              r[i] = IF i < j THEN mListeners[i] ELSE mListeners[i + 1]
         /\ \A i, k \in 1..Len(r) : r[i] = r[k] => i = k
  <1> DEFINE r == RemoveFirst(mListeners, mListeners[j])
  <1>0. mListeners \in Seq(Listener) /\ Len(mListeners) \in Nat
    BY LenProperties DEF TypeOK
  <1>1. \A i \in 1..Len(mListeners) : mListeners[i] = mListeners[j] => i = j
    BY DEF ListedOnce
  <1>2. /\ r \in Seq(Listener)
        /\ Len(r) = Len(mListeners) - 1
        /\ \A i \in 1..(Len(mListeners) - 1) :
             r[i] = IF i < j THEN mListeners[i] ELSE mListeners[i + 1]
    BY <1>0, <1>1, RemoveAlone
  <1> HIDE DEF r
  <1>3. ASSUME NEW i \in 1..Len(r), NEW k \in 1..Len(r), r[i] = r[k] PROVE i = k
    <2> DEFINE At(n) == IF n < j THEN n ELSE n + 1
    <2>1. At(i) \in 1..Len(mListeners) /\ At(k) \in 1..Len(mListeners)
      BY <1>0, <1>2
    <2>2. r[i] = mListeners[At(i)] /\ r[k] = mListeners[At(k)]
      BY <1>0, <1>2
    <2>3. At(i) = At(k)
      BY <1>3, <2>1, <2>2 DEF ListedOnce
    <2> QED
      BY <1>0, <1>2, <2>3
  <1> QED
    BY <1>2, <1>3 DEF r

\* Without the listener that is removed a list still has each one once.
LEMMA RemoveListedOnce ==
  ASSUME TypeOK, ListedOnce, NEW l \in Listener, removeListener(l)
  PROVE  ListedOnce'
  <1>1. mListeners' = RemoveFirst(mListeners, l) /\ manager' = manager
    BY DEF removeListener, Removed
  <1> SUFFICES ASSUME manager \notin Vectors
               PROVE \A i, k \in 1..Len(mListeners') : mListeners'[i] = mListeners'[k] => i = k
    BY <1>1 DEF ListedOnce
  <1>2. CASE l \in Elements(mListeners)
    <2>1. PICK j \in 1..Len(mListeners) : l = mListeners[j]
      BY <1>2 DEF Elements
    <2> QED
      BY <1>1, <2>1, ListWithout
  <1>3. CASE l \notin Elements(mListeners)
    <2>1. mListeners' = mListeners
      BY <1>1, <1>3, RemoveNone DEF Elements
    <2> QED
      BY <2>1 DEF ListedOnce
  <1> QED
    BY <1>2, <1>3

\* A listener that the called one removes is not due any more, and nothing
\* else changes for the walk.
LEMMA RemoveAligned ==
  ASSUME WalkInv, at = "callback", NEW l \in Listener,
         MayRemove(Calling, l), removeListener(l)
  PROVE  Aligned'
  <1> USE DEF WalkInv, TypeOK
  <1>1. /\ mListeners' = RemoveFirst(mListeners, l) /\ due' = NotDue(l)
        /\ UNCHANGED <<manager, at, count, ii, it, called>>
    BY DEF removeListener, Removed, place
  <1>2. Len(mListeners) \in Nat /\ Walking
    BY LenProperties DEF Walking
  <1>3. PICK k \in 1..(LastOne + 1) :
          /\ IsAt(k)
          /\ k <= LastOne
          /\ SubSeq(mListeners, k + 1, LastOne) \in Seq(Listener)
          /\ called \o SubSeq(mListeners, k + 1, LastOne) = due
    BY <1>2, PlaceIs
  <1>4. LastOne \in 0..Len(mListeners) /\ k \in 1..Len(mListeners)
    BY <1>2, <1>3, PlaceIs
  <1> DEFINE rest == SubSeq(mListeners, k + 1, LastOne)
  <1>5. due' = called \o RemoveFirst(rest, l)
    <2>1. rest \in Seq(Listener) /\ called \o rest = due
      BY <1>3
    <2> HIDE DEF rest
    <2>2. SubSeq(due, 1, Len(called)) = called /\ SubSeq(due, Len(called) + 1, Len(due)) = rest
      BY <2>1, Halves
    <2> QED
      BY <1>1, <2>2 DEF NotDue
  <1>6. CASE l \notin Elements(mListeners)
    <2>1. mListeners' = mListeners
      BY <1>1, <1>6, RemoveNone DEF Elements
    <2>2. RemoveFirst(rest, l) = rest
      <3>1. k + 1 \in Nat \ {0}
        BY <1>4
      <3>2. \A i \in 1..Len(rest) : rest[i] # l
        <4>1. /\ Len(rest) = IF k + 1 <= LastOne THEN LastOne - (k + 1) + 1 ELSE 0
              /\ \A i \in 1..(LastOne - (k + 1) + 1) : rest[i] = mListeners[(k + 1) + i - 1]
          BY <1>4, <3>1, Part
        <4> HIDE DEF rest
        <4> TAKE i \in 1..Len(rest)
        <4>2. i \in 1..(LastOne - (k + 1) + 1)
          BY <1>4, <4>1
        <4>3. (k + 1) + i - 1 \in 1..Len(mListeners)
          BY <1>2, <1>4, <4>2
        <4> QED
          BY <1>6, <4>1, <4>2, <4>3 DEF Elements
      <3> HIDE DEF rest
      <3> QED
        BY <3>2, RemoveNone
    <2>3. due' = due
      BY <1>3, <1>5, <2>2
    <2> QED
      BY <1>1, <2>1, <2>3 DEF Aligned, Walking, LastOne, IsAt
  <1>7. CASE l \in Elements(mListeners)
    <2>1. manager \notin Vectors /\ l # it
      BY <1>7 DEF MayRemove, Calling
    <2>2. PICK j \in 1..Len(mListeners) : l = mListeners[j]
      BY <1>7 DEF Elements
    <2>3. it = mListeners[k] /\ LastOne = Len(mListeners) /\ j # k
      BY <1>3, <1>4, <2>1, <2>2 DEF IsAt, LastOne
    <2> DEFINE r == mListeners'
    <2>4. /\ r \in Seq(Listener)
          /\ Len(r) = Len(mListeners) - 1
          /\ \A i \in 1..(Len(mListeners) - 1) :
               r[i] = IF i < j THEN mListeners[i] ELSE mListeners[i + 1]
      BY <1>1, <2>1, <2>2, ListWithout
    <2>5. \A i \in 1..Len(mListeners) : mListeners[i] = mListeners[j] => i = j
      BY <2>1 DEF ListedOnce
    <2>6. LastOne' = Len(r) /\ at' = "callback"
      BY <1>1, <2>1 DEF LastOne
    <2>7. CASE j < k
      <3>1. SubSeq(r, k, Len(r)) = rest
        <4>1. k \in Nat /\ j <= k /\ k <= Len(mListeners)
          BY <1>4, <2>7
        <4> HIDE DEF r
        <4>2. SubSeq(r, k, Len(r)) = SubSeq(mListeners, k + 1, Len(mListeners))
          BY <2>4, <4>1, RemoveBefore
        <4> QED
          BY <2>3, <4>2
      <3>2. RemoveFirst(rest, l) = rest
        <4>1. k + 1 \in Nat \ {0} /\ Len(mListeners) \in 0..Len(mListeners)
          BY <1>2, <1>4
        <4>2. \A i \in 1..Len(rest) : rest[i] # l
          <5>1. /\ Len(rest) = IF k + 1 <= LastOne THEN LastOne - (k + 1) + 1 ELSE 0
                /\ \A i \in 1..(LastOne - (k + 1) + 1) : rest[i] = mListeners[(k + 1) + i - 1]
            BY <1>4, <4>1, Part
          <5> HIDE DEF rest
          <5> TAKE i \in 1..Len(rest)
          <5>2. i \in 1..(LastOne - (k + 1) + 1)
            BY <1>4, <5>1
          <5>3. (k + 1) + i - 1 \in 1..Len(mListeners) /\ (k + 1) + i - 1 # j
            BY <1>2, <1>4, <2>7, <5>2
          <5> QED
            BY <2>2, <2>5, <5>1, <5>2, <5>3
        <4> HIDE DEF rest
        <4> QED
          BY <4>2, RemoveNone
      <3>3. called' \o SubSeq(r, (k - 1) + 1, LastOne') = due'
        <4>1. (k - 1) + 1 = k
          BY <1>4
        <4> QED
          BY <1>1, <1>5, <2>6, <3>1, <3>2, <4>1
      <3>4. k - 1 \in 1..(LastOne' + 1) /\ k - 1 <= LastOne'
        BY <1>2, <1>4, <2>4, <2>6, <2>7
      <3>5. IsAt(k - 1)'
        <4>1. k - 1 \in 1..(Len(mListeners) - 1) /\ ~(k - 1 < j) /\ (k - 1) + 1 = k
          BY <1>2, <1>4, <2>7
        <4>2. r[k - 1] = it
          BY <2>3, <2>4, <4>1
        <4> QED
          BY <1>1, <2>1, <2>4, <4>1, <4>2 DEF IsAt
      <3>6. at' # "walk" /\ LastOne' <= Len(mListeners')
        BY <1>2, <2>4, <2>6
      <3>7. called' \o SubSeq(mListeners', IF at' = "walk" THEN k - 1 ELSE (k - 1) + 1, LastOne')
              = due'
        BY <3>3, <3>6
      <3> HIDE DEF r
      <3> QED
        BY <3>4, <3>5, <3>6, <3>7 DEF Aligned
    <2>8. CASE j > k
      <3>1. RemoveFirst(rest, l) = SubSeq(r, k + 1, Len(r))
        <4>1. k \in Nat /\ j \in (k + 1)..Len(mListeners)
          BY <1>2, <1>4, <2>8
        <4> HIDE DEF r
        <4>2. RemoveFirst(SubSeq(mListeners, k + 1, Len(mListeners)), mListeners[j])
                = SubSeq(r, k + 1, Len(r))
          BY <2>4, <2>5, <4>1, RemoveInside
        <4> QED
          BY <2>2, <2>3, <4>2
      <3>2. called' \o SubSeq(r, k + 1, LastOne') = due'
        BY <1>1, <1>5, <2>6, <3>1
      <3>3. k \in 1..(LastOne' + 1) /\ k <= LastOne'
        BY <1>2, <1>4, <2>4, <2>6, <2>8
      <3>4. IsAt(k)'
        <4>1. k \in 1..(Len(mListeners) - 1) /\ k < j
          BY <1>2, <1>4, <2>8
        <4>2. r[k] = it
          BY <2>3, <2>4, <4>1
        <4> QED
          BY <1>1, <2>1, <2>4, <4>1, <4>2 DEF IsAt
      <3>5. at' # "walk" /\ LastOne' <= Len(mListeners')
        BY <1>2, <2>4, <2>6
      <3>6. called' \o SubSeq(mListeners', IF at' = "walk" THEN k ELSE k + 1, LastOne') = due'
        BY <3>2, <3>5
      <3> HIDE DEF r
      <3> QED
        BY <3>3, <3>4, <3>5, <3>6 DEF Aligned
    <2> QED
      BY <1>4, <2>3, <2>7, <2>8
  <1> QED
    BY <1>6, <1>7
----------------------------------------------------------------------------
(* Every step keeps the invariant *)

LEMMA InvInit == Init => WalkInv
  <1> SUFFICES ASSUME Init PROVE WalkInv
    OBVIOUS
  <1>1. TypeOK
    <2>1. 0 \in 0..MaxMessages /\ 0 \in 0..MaxOps
      BY BoundsAssumption
    <2>2. event \in Events
      BY EventTypes DEF Init
    <2>3. event[1] = "UNKNOWN"
      BY DEF Init, NoEvent
    <2>4. <<>> \in Seq(Listener)
      OBVIOUS
    <2> QED
      BY <2>1, <2>2, <2>3, <2>4 DEF Init, TypeOK
  <1> QED
    BY <1>1 DEF Init, WalkInv, PlaceIsValid, Aligned, Walking, ListedOnce

\* The place is valid after a step, where the types and the alignment are.
LEMMA Assemble ==
  ASSUME TypeOK', Aligned', ListedOnce',
         Walking' \/ (due' = <<>> /\ called' = <<>>), consumed' => at' = "walk"
  PROVE  WalkInv'
  <1>1. TypeOK' /\ Aligned' => PlaceIsValid'
    BY PlaceFollows, PTL
  <1> QED
    BY <1>1 DEF WalkInv

\* A walk begins.
LEMMA BeginStep ==
  ASSUME WalkInv, ~Walking, Notify, messages' \in 0..MaxMessages, event' \in Events,
         manager = "wifi" <=> event'[1] # "UNKNOWN"
  PROVE  WalkInv'
  <1>1. Aligned' /\ ListedOnce' /\ Walking'
    BY BeginsAligned DEF Notify, Begin, Walking
  <1>2. TypeOK'
    <2>1. Len(mListeners) \in Nat /\ mListeners # <<>> => Head(mListeners) \in Listener
      BY LenProperties, HeadTailProperties DEF WalkInv, TypeOK
    <2> QED
      BY <2>1 DEF WalkInv, TypeOK, Notify, Begin
  <1>3. ~consumed'
    BY DEF WalkInv, Walking, Notify, Begin
  <1> QED
    BY <1>1, <1>2, <1>3, Assemble

LEMMA CallStep == ASSUME WalkInv, Call PROVE WalkInv'
  <1>1. Aligned' /\ called' \in Seq(Listener)
    BY CallAligned
  <1>2. ListedOnce' /\ Walking' /\ ~consumed'
    BY DEF WalkInv, TypeOK, Call, ListedOnce, Walking
  <1>3. TypeOK'
    <2>1. MaxOps \in 0..MaxOps
      BY BoundsAssumption
    <2> QED
      BY <1>1, <2>1 DEF WalkInv, TypeOK, Call, place
  <1> QED
    BY <1>1, <1>2, <1>3, Assemble

LEMMA ReturnStep == ASSUME WalkInv, Return PROVE WalkInv'
  <1>1. Aligned'
    BY ReturnAligned
  <1>2. ListedOnce' /\ Walking' /\ at' = "walk"
    BY DEF WalkInv, Return, ListedOnce, Walking
  <1>3. manager \notin Vectors => Behind(it) \in Listener \cup {None}
    <2>1. SUFFICES ASSUME manager \notin Vectors PROVE Behind(it) \in Listener \cup {None}
      OBVIOUS
    <2>2. PICK k \in 1..Len(mListeners) : it = mListeners[k]
      BY <2>1 DEF WalkInv, PlaceIsValid, Return, Elements
    <2>3. Len(mListeners) \in Nat /\ \A i \in 1..Len(mListeners) : mListeners[i] \in Listener
      BY LenProperties, ElementOfSeq DEF WalkInv, TypeOK
    <2>4. Behind(it) = IF k < Len(mListeners) THEN mListeners[k + 1] ELSE None
      BY <2>1, <2>2, BehindIs DEF WalkInv
    <2> QED
      BY <2>3, <2>4
  <1>4. TypeOK'
    <2>1. 0 \in 0..MaxOps
      BY BoundsAssumption
    <2>2. it' \in Listener \cup {None} /\ ii' \in Nat
      BY <1>3 DEF WalkInv, TypeOK, Return
    <2>3. consumed' \in BOOLEAN
      BY DEF Return
    <2>4. at # "idle" /\ at' # "idle"
      BY DEF Return
    <2> QED
      BY <2>1, <2>2, <2>3, <2>4 DEF WalkInv, TypeOK, Return
  <1> QED
    BY <1>1, <1>2, <1>4, Assemble

LEMMA FinishStep == ASSUME WalkInv, Finish PROVE WalkInv'
  <1>1. ~Walking' /\ due' = <<>> /\ called' = <<>> /\ ~consumed'
    BY DEF Finish, Walking
  <1>2. Aligned' /\ ListedOnce'
    BY <1>1 DEF WalkInv, Finish, Aligned, ListedOnce
  <1>3. TypeOK'
    <2>1. event' \in Events /\ event'[1] = "UNKNOWN"
      BY EventTypes DEF Finish, NoEvent
    <2>2. at' = (IF manager = "netlink" THEN "parse" ELSE "idle") /\ <<>> \in Seq(Listener)
      BY DEF Finish
    <2>3. manager' = "wifi" /\ at' # "idle" <=> FALSE
      BY <2>2 DEF Finish
    <2> QED
      BY <2>1, <2>2, <2>3 DEF WalkInv, TypeOK, Finish
  <1> QED
    BY <1>1, <1>2, <1>3, Assemble

\* Without a walk nobody is due, whoever is removed.
LEMMA ChangeStep == ASSUME WalkInv, Change PROVE WalkInv'
  <1>1. PICK l \in Listener : addListener(l) \/ removeListener(l)
    BY DEF Change
  <1>2. /\ at = "idle" /\ due = <<>> /\ called = <<>> /\ ~consumed
        /\ UNCHANGED <<manager, at, messages, count, ii, it, ops, called, consumed, event>>
    BY <1>1 DEF Change, WalkInv, Walking, addListener, removeListener, place
  <1>3. due' = <<>>
    <2>1. SubSeq(due, 1, Len(called)) = <<>> /\ SubSeq(due, Len(called) + 1, Len(due)) = <<>>
      BY <1>2
    <2>2. RemoveFirst(<<>>, l) = <<>> /\ <<>> \o <<>> = <<>>
      BY RemoveNone
    <2>3. NotDue(l) = <<>>
      BY <2>1, <2>2, Zenon DEF NotDue
    <2> QED
      BY <1>1, <1>2, <2>3 DEF addListener, removeListener
  <1>4. ListedOnce'
    BY <1>1, AddAligned, RemoveListedOnce DEF WalkInv
  <1>5. Len(called) <= Len(due)
    BY <1>2
  <1>6. mListeners' \in Seq(Listener) /\ due' \in Seq(Listener)
    BY <1>1, <1>5, ChangeTypes DEF WalkInv
  <1>7. TypeOK'
    BY <1>2, <1>6 DEF WalkInv, TypeOK
  <1>8. Aligned' /\ ~Walking'
    BY <1>2 DEF Aligned, Walking
  <1> QED
    BY <1>2, <1>3, <1>4, <1>7, <1>8, Assemble

LEMMA ChangeInCallbackStep == ASSUME WalkInv, ChangeInCallback PROVE WalkInv'
  <1>1. PICK l \in Listener : addListener(l) \/ (MayRemove(Calling, l) /\ removeListener(l))
    BY DEF ChangeInCallback
  <1>2. /\ at = "callback" /\ Walking /\ ops' = ops - 1 /\ ops > 0
        /\ UNCHANGED <<manager, at, messages, count, ii, it, called, consumed, event>>
    BY <1>1 DEF ChangeInCallback, Walking, addListener, removeListener, place
  <1>3. Aligned' /\ ListedOnce'
    BY <1>1, <1>2, AddAligned, RemoveAligned, RemoveListedOnce DEF WalkInv
  <1>4. mListeners' \in Seq(Listener) /\ due' \in Seq(Listener)
    BY <1>1, <1>2, PlaceIs, ChangeTypes DEF WalkInv
  <1>5. TypeOK'
    <2>1. ops' \in 0..MaxOps
      BY <1>2, BoundsAssumption DEF WalkInv, TypeOK
    <2> QED
      BY <1>2, <1>4, <2>1 DEF WalkInv, TypeOK
  <1>6. Walking' /\ ~consumed'
    BY <1>2 DEF WalkInv, Walking
  <1> QED
    BY <1>3, <1>5, <1>6, Assemble

\* Steps that leave the list and the walk alone, between two walks.
LEMMA IdleStep ==
  ASSUME WalkInv, ~Walking, at' \in {"idle", "parse"}, messages' \in 0..MaxMessages,
         manager = "netlink" \/ at' = at,
         UNCHANGED <<manager, mListeners, place, ops, due, called, consumed, event>>
  PROVE  WalkInv'
  <1>1. ~Walking' /\ due' = <<>> /\ called' = <<>> /\ ~consumed'
    BY DEF WalkInv, Walking
  <1>2. Aligned' /\ ListedOnce'
    BY <1>1 DEF WalkInv, Aligned, ListedOnce
  <1>3. TypeOK'
    BY DEF WalkInv, TypeOK, place
  <1> QED
    BY <1>1, <1>2, <1>3, Assemble

LEMMA InvNext == WalkInv /\ [Next]_vars => WalkInv'
  <1> SUFFICES ASSUME WalkInv, [Next]_vars PROVE WalkInv'
    OBVIOUS
  <1>0. /\ TypeOK /\ messages \in 0..MaxMessages
        /\ \A n \in 0..MaxMessages : n > 0 => n - 1 \in 0..MaxMessages
        /\ 0 \in 0..MaxMessages /\ 1..MaxMessages \subseteq 0..MaxMessages
    BY BoundsAssumption DEF WalkInv, TypeOK
  <1>1. CASE ReceiveNetlink
    BY <1>0, <1>1, IdleStep DEF ReceiveNetlink, Walking
  <1>2. CASE ParseMessage
    <2>1. /\ ~Walking /\ Notify /\ messages' \in 0..MaxMessages /\ event' \in Events
          /\ manager = "wifi" <=> event'[1] # "UNKNOWN"
      BY <1>0, <1>2 DEF ParseMessage, Walking, TypeOK
    <2> QED
      BY <2>1, BeginStep
  <1>3. CASE IgnoreMessage
    BY <1>0, <1>3, IdleStep DEF IgnoreMessage, Walking
  <1>4. CASE EndOfDatagram
    <2>1. manager = "netlink" \/ at' = at
      BY <1>0, <1>4 DEF EndOfDatagram, TypeOK
    <2> QED
      BY <1>0, <1>4, <2>1, IdleStep DEF EndOfDatagram, Walking
  <1>5. CASE ReceiveUsb \/ ReceiveKey
    <2>1. /\ ~Walking /\ Notify /\ messages' \in 0..MaxMessages /\ event' \in Events
          /\ manager = "wifi" <=> event'[1] # "UNKNOWN"
      BY <1>0, <1>5 DEF ReceiveUsb, ReceiveKey, Receive, Walking, TypeOK
    <2> QED
      BY <2>1, BeginStep
  <1>6. CASE ReceiveWifi
    <2>1. PICK m \in WifiMessages : /\ EventType(m) # "UNKNOWN"
                                    /\ event' \in {EventType(m)} \X Extra(m)
                                    /\ Receive("wifi")
      BY <1>6 DEF ReceiveWifi
    <2>2. event' \in Events /\ event'[1] # "UNKNOWN"
      BY <2>1, EventTypes
    <2> QED
      BY <1>0, <2>1, <2>2, BeginStep DEF Receive, Walking
  <1>7. CASE Call
    BY <1>7, CallStep
  <1>8. CASE Return
    BY <1>8, ReturnStep
  <1>9. CASE Finish
    BY <1>9, FinishStep
  <1>10. CASE Change
    BY <1>10, ChangeStep
  <1>11. CASE ChangeInCallback
    BY <1>11, ChangeInCallbackStep
  <1>12. CASE UNCHANGED vars
    BY <1>12 DEF vars, place, WalkInv, TypeOK, PlaceIsValid, Aligned, Walking, LastOne, IsAt,
                 AtEnd, ListedOnce
  <1> QED
    BY <1>1, <1>2, <1>3, <1>4, <1>5, <1>6, <1>7, <1>8, <1>9, <1>10, <1>11, <1>12 DEF Next

\* Whatever the listeners add and remove while they are called, the place of
\* the walk is inside the list, and who was called and who is behind the
\* place are together those that are due.
THEOREM WalkInvariant == Spec => []WalkInv
  BY InvInit, InvNext, PTL DEF Spec

\* A walk calls those that are due, in their order, and no others; only a
\* key listener that consumes its key ends it early.
THEOREM CallsAreDue == Spec => []CallsWhatIsDue
  <1>1. WalkInv => CallsWhatIsDue
    BY CallsFollow
  <1> QED
    BY <1>1, WalkInvariant, PTL
=============================================================================
