-------------------------- MODULE EventLoopProofs --------------------------
(***************************************************************************)
(* The event loop's timers and watchers, for any sets of threads, timers   *)
(* and descriptors, any intervals and any bounds.                          *)
(***************************************************************************)
EXTENDS EventLoop, SequenceTheorems, FiniteSetTheorems,
        WellFoundedInduction, TLAPS

----------------------------------------------------------------------------
(* Sorting the list of timers *)

\* The terms of SortTimers: element i goes before element j; how many go
\* before i; and the element that takes the k-th place.
Before(list, expiry, i, j) ==
  \/ expiry[list[i]] < expiry[list[j]]
  \/ expiry[list[i]] = expiry[list[j]] /\ i < j

Ahead(list, expiry, i) == {j \in 1..Len(list) : Before(list, expiry, j, i)}

Rank(list, expiry, i) == Cardinality(Ahead(list, expiry, i)) + 1

Taken(list, expiry, k) == CHOOSE i \in 1..Len(list) : Rank(list, expiry, i) = k

\* An element is ranked by a place in the list, and behind all that go before
\* it: no two elements have one rank.
LEMMA Ranks ==
  ASSUME NEW D, NEW list \in Seq(D), NEW expiry \in [D -> Int]
  PROVE  /\ \A i \in 1..Len(list) : Rank(list, expiry, i) \in 1..Len(list)
         /\ \A i, j \in 1..Len(list) :
              Before(list, expiry, i, j) => Rank(list, expiry, i) < Rank(list, expiry, j)
         /\ \A i, j \in 1..Len(list) :
              i # j => Before(list, expiry, i, j) \/ Before(list, expiry, j, i)
  <1> DEFINE n == Len(list)
             e(i) == expiry[list[i]]
             A(i) == Ahead(list, expiry, i)
  <1>1. n \in Nat /\ \A i \in 1..n : list[i] \in D
    BY LenProperties, ElementOfSeq
  <1>2. \A i \in 1..n : e(i) \in Int
    BY <1>1
  <1>3. \A i, j \in 1..n : Before(list, expiry, i, j) <=>
          (e(i) < e(j) \/ (e(i) = e(j) /\ i < j))
    BY DEF Before
  <1>4. \A i \in 1..n : A(i) \subseteq 1..n /\ i \notin A(i)
    BY <1>1, <1>2, <1>3 DEF Ahead
  <1>5. IsFiniteSet(1..n) /\ Cardinality(1..n) = n
    <2>1. IsFiniteSet(1..n) /\ Cardinality(1..n) = IF 1 > n THEN 0 ELSE n-1+1
      BY <1>1, FS_Interval
    <2>2. n \in Nat
      BY <1>1
    <2>3. (IF 1 > n THEN 0 ELSE n-1+1) = n
      <3> HIDE DEF n
      <3> QED
        BY <2>2
    <2> QED
      BY <2>1, <2>3
  <1>6. \A i \in 1..n : IsFiniteSet(A(i)) /\ Cardinality(A(i)) \in Nat
    BY <1>4, <1>5, FS_Subset, FS_CardinalityType
  <1>7. ASSUME NEW i \in 1..n, NEW j \in 1..n, Before(list, expiry, i, j)
        PROVE  Rank(list, expiry, i) < Rank(list, expiry, j)
    <2>1. A(i) \cup {i} \subseteq A(j)
      <3>1. i \in A(j)
        BY <1>7 DEF Ahead
      <3>2. ASSUME NEW k \in A(i) PROVE k \in A(j)
        <4>1. k \in 1..n /\ Before(list, expiry, k, i)
          BY <3>2 DEF Ahead
        <4>2. e(k) < e(i) \/ (e(k) = e(i) /\ k < i)
          BY <4>1, <1>3
        <4>3. e(i) < e(j) \/ (e(i) = e(j) /\ i < j)
          BY <1>3, <1>7
        <4>4. e(k) \in Int /\ e(i) \in Int /\ e(j) \in Int
          BY <4>1, <1>2
        <4> HIDE DEF e
        <4>5. e(k) < e(j) \/ (e(k) = e(j) /\ k < j)
          BY <4>1, <4>2, <4>3, <4>4, <1>1
        <4>6. Before(list, expiry, k, j)
          BY <4>1, <4>5, <1>3
        <4> QED
          BY <4>1, <4>6 DEF Ahead
      <3> QED
        BY <3>1, <3>2
    <2>2. IsFiniteSet(A(i) \cup {i}) /\ Cardinality(A(i) \cup {i}) = Cardinality(A(i)) + 1
      BY <1>4, <1>6, FS_AddElement
    <2>3. Cardinality(A(i) \cup {i}) <= Cardinality(A(j))
      BY <2>1, <1>6, FS_Subset
    <2>4. Cardinality(A(i)) + 1 <= Cardinality(A(j))
      BY <2>2, <2>3
    <2> QED
      BY <2>4, <1>6 DEF Rank
  <1>8. ASSUME NEW i \in 1..n PROVE Rank(list, expiry, i) \in 1..n
    <2>1. IsFiniteSet(A(i) \cup {i}) /\ Cardinality(A(i) \cup {i}) = Cardinality(A(i)) + 1
      BY <1>4, <1>6, FS_AddElement
    <2>2. A(i) \cup {i} \subseteq 1..n
      BY <1>4
    <2>3. Cardinality(A(i) \cup {i}) <= n
      BY <2>2, <1>5, FS_Subset
    <2>4. Cardinality(A(i)) + 1 <= n
      BY <2>1, <2>3
    <2> QED
      BY <2>4, <1>1, <1>6 DEF Rank
  <1>9. ASSUME NEW i \in 1..n, NEW j \in 1..n, i # j
        PROVE  Before(list, expiry, i, j) \/ Before(list, expiry, j, i)
    <2>1. e(i) \in Int /\ e(j) \in Int
      BY <1>2
    <2> HIDE DEF e
    <2> QED
      BY <2>1, <1>1, <1>3, <1>9
  <1> QED
    BY <1>7, <1>8, <1>9

\* Every place is taken by one element, whose rank it is.
LEMMA EveryPlaceIsTaken ==
  ASSUME NEW D, NEW list \in Seq(D), NEW expiry \in [D -> Int]
  PROVE  /\ \A k \in 1..Len(list) : /\ Taken(list, expiry, k) \in 1..Len(list)
                                    /\ Rank(list, expiry, Taken(list, expiry, k)) = k
         /\ \A i \in 1..Len(list) : Taken(list, expiry, Rank(list, expiry, i)) = i
  <1> DEFINE n == Len(list)
             R == [i \in 1..n |-> Rank(list, expiry, i)]
  <1>1. n \in Nat
    BY LenProperties
  <1>2. /\ \A i \in 1..n : Rank(list, expiry, i) \in 1..n
        /\ \A i, j \in 1..n :
             Before(list, expiry, i, j) => Rank(list, expiry, i) < Rank(list, expiry, j)
        /\ \A i, j \in 1..n :
             i # j => Before(list, expiry, i, j) \/ Before(list, expiry, j, i)
    BY Ranks
  <1>3. \A i, j \in 1..n : Rank(list, expiry, i) = Rank(list, expiry, j) => i = j
    <2> SUFFICES ASSUME NEW i \in 1..n, NEW j \in 1..n, i # j
                 PROVE  Rank(list, expiry, i) # Rank(list, expiry, j)
      OBVIOUS
    <2>1. Rank(list, expiry, i) \in Nat /\ Rank(list, expiry, j) \in Nat
      <3>1. Rank(list, expiry, i) \in 1..n /\ Rank(list, expiry, j) \in 1..n
        BY <1>2
      <3> QED
        BY <3>1, <1>1
    <2>2. \/ Rank(list, expiry, i) < Rank(list, expiry, j)
          \/ Rank(list, expiry, j) < Rank(list, expiry, i)
      BY <1>2
    <2> QED
      BY <2>1, <2>2
  <1>4. R \in [1..n -> 1..n]
    BY <1>2
  <1>5. R \in Injection(1..n, 1..n)
    <2>1. \A i, j \in 1..n : R[i] = R[j] => i = j
      BY <1>3
    <2> QED
      BY <1>4, <2>1 DEF Injection, IsInjective
  <1>6. IsFiniteSet(1..n)
    BY <1>1, FS_Interval
  <1>7. R \in Surjection(1..n, 1..n)
    <2> HIDE DEF R
    <2> QED
      BY <1>5, <1>6, FS_Injection
  <1>8. \A k \in 1..n : \E i \in 1..n : Rank(list, expiry, i) = k
    <2>1. \A k \in 1..n : \E i \in 1..n : R[i] = k
      <3> HIDE DEF R
      <3> QED
        BY <1>7 DEF Surjection
    <2> QED
      BY <2>1
  <1>9. \A k \in 1..n : /\ Taken(list, expiry, k) \in 1..n
                        /\ Rank(list, expiry, Taken(list, expiry, k)) = k
    BY <1>8 DEF Taken
  <1>10. \A i \in 1..n : Taken(list, expiry, Rank(list, expiry, i)) = i
    BY <1>2, <1>3, <1>9
  <1> QED
    BY <1>9, <1>10

Once(list) == \A i, j \in 1..Len(list) : list[i] = list[j] => i = j
In(list, x) == \E i \in 1..Len(list) : list[i] = x
Ordered(list, expiry) ==
  \A i, j \in 1..Len(list) : i < j => expiry[list[i]] <= expiry[list[j]]

LEMMA AFunction ==
  ASSUME NEW D, NEW n \in Nat, NEW s \in [1..n -> D] PROVE s \in Seq(D) /\ Len(s) = n
  OBVIOUS

\* SortTimers permutes the list, orders it, and leaves a first element that is
\* nowhere preceded where it is.
LEMMA Sorts ==
  ASSUME NEW D, NEW list \in Seq(D), NEW expiry \in [D -> Int]
  PROVE  LET s == SortTimers(list, expiry)
         IN  /\ s \in Seq(D) /\ Len(s) = Len(list) /\ Ordered(s, expiry)
             /\ \A x : In(s, x) <=> In(list, x)
             /\ Once(list) => Once(s)
             /\ (list # <<>> /\ \A x \in D : In(list, x) => expiry[list[1]] <= expiry[x])
                  => s[1] = list[1]
  <1> DEFINE n == Len(list)
             s == SortTimers(list, expiry)
             T(k) == Taken(list, expiry, k)
             r(i) == Rank(list, expiry, i)
  <1>1. n \in Nat /\ \A i \in 1..n : list[i] \in D
    BY LenProperties, ElementOfSeq
  <1>2. /\ \A k \in 1..n : T(k) \in 1..n /\ r(T(k)) = k
        /\ \A i \in 1..n : T(r(i)) = i
    BY EveryPlaceIsTaken
  <1>3. /\ \A i \in 1..n : r(i) \in 1..n
        /\ \A i, j \in 1..n : Before(list, expiry, i, j) => r(i) < r(j)
        /\ \A i, j \in 1..n :
             i # j => Before(list, expiry, i, j) \/ Before(list, expiry, j, i)
    BY Ranks
  <1>4. s = [k \in 1..n |-> list[T(k)]]
    BY DEF SortTimers, Taken, Rank, Ahead, Before
  <1> HIDE DEF s, T, r
  <1>5. s \in Seq(D) /\ Len(s) = n /\ \A k \in 1..n : s[k] = list[T(k)]
    <2>1. \A k \in 1..n : list[T(k)] \in D
      BY <1>1, <1>2
    <2>2. s \in [1..n -> D] /\ \A k \in 1..n : s[k] = list[T(k)]
      BY <1>4, <2>1
    <2>3. s \in Seq(D) /\ Len(s) = n
      <3> HIDE DEF n
      <3> QED
        BY <1>1, <2>2, AFunction
    <2> QED
      BY <2>2, <2>3
  <1>6. Ordered(s, expiry)
    <2> SUFFICES ASSUME NEW i \in 1..n, NEW j \in 1..n, i < j
                 PROVE  expiry[s[i]] <= expiry[s[j]]
      BY <1>5 DEF Ordered
    <2>1. ~Before(list, expiry, T(j), T(i))
      <3>1. r(T(i)) = i /\ r(T(j)) = j /\ i \in Nat /\ j \in Nat
        BY <1>1, <1>2
      <3>2. ~(r(T(j)) < r(T(i)))
        BY <3>1
      <3> QED
        BY <3>2, <1>2, <1>3
    <2>2. T(i) # T(j)
      BY <1>1, <1>2
    <2>3. Before(list, expiry, T(i), T(j))
      BY <1>2, <1>3, <2>1, <2>2
    <2>4. /\ expiry[list[T(i)]] < expiry[list[T(j)]] \/ expiry[list[T(i)]] = expiry[list[T(j)]]
          /\ expiry[list[T(i)]] \in Int /\ expiry[list[T(j)]] \in Int
      BY <1>1, <1>2, <2>3 DEF Before
    <2>5. expiry[list[T(i)]] <= expiry[list[T(j)]]
      BY <2>4
    <2> QED
      BY <1>5, <2>5
  <1>7. \A x : In(s, x) <=> In(list, x)
    <2> TAKE x
    <2>1. ASSUME NEW k \in 1..n, s[k] = x PROVE \E i \in 1..n : list[i] = x
      BY <1>2, <1>5, <2>1
    <2>2. ASSUME NEW i \in 1..n, list[i] = x PROVE \E k \in 1..n : s[k] = x
      <3>1. r(i) \in 1..n /\ s[r(i)] = list[i]
        BY <1>2, <1>3, <1>5
      <3> QED
        BY <2>2, <3>1
    <2> QED
      BY <1>5, <2>1, <2>2 DEF In
  <1>8. ASSUME Once(list) PROVE Once(s)
    <2> SUFFICES ASSUME NEW i \in 1..n, NEW j \in 1..n, s[i] = s[j] PROVE i = j
      BY <1>5 DEF Once
    <2>1. T(i) \in 1..n /\ T(j) \in 1..n /\ list[T(i)] = list[T(j)]
      BY <1>2, <1>5
    <2>2. T(i) = T(j)
      BY <1>8, <2>1 DEF Once
    <2>3. r(T(i)) = i /\ r(T(j)) = j
      BY <1>2
    <2> QED
      BY <2>2, <2>3
  <1>9. ASSUME list # <<>>, \A x \in D : In(list, x) => expiry[list[1]] <= expiry[x]
        PROVE  s[1] = list[1]
    <2>1. 1 \in 1..n
      <3>1. n # 0
        BY <1>9, EmptySeq
      <3> QED
        BY <1>1, <3>1
    <2>2. ASSUME NEW j \in 1..n, Before(list, expiry, j, 1) PROVE FALSE
      <3>1. list[1] \in D /\ list[j] \in D /\ In(list, list[j])
        BY <1>1, <2>1 DEF In
      <3>2. expiry[list[1]] <= expiry[list[j]]
        BY <1>9, <3>1
      <3>3. \/ expiry[list[j]] < expiry[list[1]]
            \/ expiry[list[j]] = expiry[list[1]] /\ j < 1
        BY <2>2 DEF Before
      <3>4. expiry[list[1]] \in Int /\ expiry[list[j]] \in Int /\ j \in Nat /\ ~(j < 1)
        BY <3>1, <1>1
      <3> QED
        BY <3>2, <3>3, <3>4
    <2>3. T(1) = 1
      <3>1. T(1) \in 1..n /\ r(T(1)) = 1
        BY <1>2, <2>1
      <3>2. CASE T(1) # 1
        <4>1. Before(list, expiry, 1, T(1))
          BY <1>3, <2>1, <2>2, <3>1, <3>2
        <4>2. r(1) < 1 /\ r(1) \in 1..n
          BY <1>3, <2>1, <3>1, <4>1
        <4> QED
          BY <1>1, <4>2
      <3> QED
        BY <3>2
    <2>4. s[1] = list[T(1)]
      BY <1>5, <2>1
    <2> QED
      BY <2>3, <2>4
  <1> QED
    BY <1>5, <1>6, <1>7, <1>8, <1>9 DEF s

----------------------------------------------------------------------------
(* Erasing an element of a list *)

\* The order of the natural numbers is well founded.
LEMMA LessThan ==
  \E R : IsWellFoundedOn(R, Nat) /\ \A k, m \in Nat : k < m => <<k, m>> \in R
  <1>1. IsWellFoundedOn(OpToRel(<, Nat), Nat)
    BY NatLessThanWellFounded
  <1>2. \A k, m \in Nat : k < m => <<k, m>> \in OpToRel(<, Nat)
    BY DEF OpToRel
  <1> QED
    BY <1>1, <1>2

\* Where SelectInSeq finds the first copy of x.
FirstAt(list, x) == SelectInSeq(list, LAMBDA y : y = x)

LEMMA FirstCopy ==
  ASSUME NEW D, NEW list \in Seq(D), NEW x
  PROVE  /\ In(list, x) => FirstAt(list, x) \in 1..Len(list) /\ list[FirstAt(list, x)] = x
         /\ ~In(list, x) => FirstAt(list, x) = 0
  <1> DEFINE I == {i \in 1..Len(list) : list[i] = x}
  <1>1. FirstAt(list, x) = IF I # {} THEN Min(I) ELSE 0
    BY DEF FirstAt, SelectInSeq
  <1>2. In(list, x) <=> I # {}
    BY DEF In
  <1>3. I \in SUBSET Nat
    <2>1. Len(list) \in Nat
      BY LenProperties
    <2> QED
      BY <2>1
  <1>4. ASSUME I # {} PROVE Min(I) \in I
    <2>1. PICK R : /\ IsWellFoundedOn(R, Nat)
                   /\ \A k, m \in Nat : k < m => <<k, m>> \in R
      BY LessThan
    <2> HIDE DEF I
    <2>2. I \subseteq Nat
      BY <1>3
    <2>3. IsWellFoundedOn(R, Nat)
      BY <2>1
    <2>4. PICK m \in I : \A k \in I : ~(<<k, m>> \in R)
      BY <2>3, <2>2, <1>4, WFMin, Zenon
    <2>5. \A k \in I : ~(k < m)
      BY <2>1, <2>2, <2>4, Zenon
    <2>6. \A k \in I : m <= k
      BY <2>2, <2>5
    <2> QED
      BY <2>6 DEF Min
  <1> QED
    BY <1>1, <1>2, <1>4

\* A sequence less its k-th element.
LEMMA Without ==
  ASSUME NEW D, NEW s \in Seq(D), NEW k \in 1..Len(s)
  PROVE  LET t == RemoveAt(s, k)
         IN  /\ t \in Seq(D) /\ Len(t) = Len(s) - 1
             /\ \A i \in 1..Len(t) : t[i] = IF i < k THEN s[i] ELSE s[i + 1]
  <1>1. Len(s) \in Nat /\ \A i \in 1..Len(s) : s[i] \in D
    BY LenProperties, ElementOfSeq
  <1> DEFINE front == SubSeq(s, 1, k - 1)
             back == SubSeq(s, k + 1, Len(s))
             t == front \o back
  <1>2. /\ front \in Seq(D) /\ Len(front) = k - 1
        /\ \A i \in 1..k - 1 : front[i] = s[i]
    BY <1>1, SubSeqProperties
  <1>3. /\ back \in Seq(D) /\ Len(back) = Len(s) - k
        /\ \A i \in 1..Len(s) - k : back[i] = s[k + i]
    <2>1. \A i \in k + 1..Len(s) : s[i] \in D
      BY <1>1
    <2>2. k + 1 \in Int /\ Len(s) \in Int
      BY <1>1
    <2>3. /\ back \in Seq(D)
          /\ Len(back) = IF k + 1 <= Len(s) THEN Len(s) - (k + 1) + 1 ELSE 0
          /\ \A i \in 1..Len(s) - (k + 1) + 1 : back[i] = s[k + 1 + i - 1]
      BY <2>1, <2>2, SubSeqProperties
    <2>4. Len(s) - (k + 1) + 1 = Len(s) - k
      BY <1>1
    <2>5. \A i \in 1..Len(s) - k : k + 1 + i - 1 = k + i
      BY <1>1
    <2> HIDE DEF back, t
    <2>6. Len(back) = Len(s) - k
      <3>1. k \in Nat /\ Len(s) \in Nat /\ k <= Len(s)
        BY <1>1
      <3>2. k + 1 <= Len(s) \/ k = Len(s)
        BY <3>1
      <3>3. k + 1 <= Len(s) => Len(back) = Len(s) - (k + 1) + 1
        BY <2>3
      <3>4. k = Len(s) => Len(back) = 0 /\ Len(s) - k = 0
        BY <1>1, <2>3
      <3> QED
        BY <2>4, <3>2, <3>3, <3>4
    <2>7. ASSUME NEW i \in 1..Len(s) - k PROVE back[i] = s[k + i]
      BY <2>3, <2>4, <2>5
    <2> QED
      BY <2>3, <2>6, <2>7
  <1> HIDE DEF front, back
  <1>4. /\ t \in Seq(D) /\ Len(t) = Len(front) + Len(back)
        /\ \A i \in 1..Len(front) + Len(back) :
             t[i] = IF i <= Len(front) THEN front[i] ELSE back[i - Len(front)]
    BY <1>2, <1>3, ConcatProperties
  <1> HIDE DEF t
  <1>5. Len(t) = Len(s) - 1
    BY <1>1, <1>2, <1>3, <1>4
  <1>6. ASSUME NEW i \in 1..Len(t), i < k PROVE t[i] = s[i]
    <2>1. i \in 1..k - 1 /\ i <= Len(front)
      BY <1>1, <1>2, <1>5, <1>6
    <2>2. i \in 1..Len(front) + Len(back)
      BY <1>2, <1>3, <1>4, <1>5, <2>1
    <2>3. t[i] = front[i]
      BY <1>4, <2>1, <2>2
    <2> QED
      BY <1>2, <2>1, <2>3
  <1>7. ASSUME NEW i \in 1..Len(t), ~(i < k) PROVE t[i] = s[i + 1]
    <2>1. /\ i - (k - 1) \in 1..Len(s) - k
          /\ k + (i - (k - 1)) = i + 1 /\ ~(i <= k - 1)
      BY <1>1, <1>5, <1>7
    <2>2. i \in 1..Len(front) + Len(back)
      BY <1>4
    <2>3. t[i] = back[i - (k - 1)]
      BY <1>2, <1>4, <2>1, <2>2
    <2>4. back[i - (k - 1)] = s[k + (i - (k - 1))]
      BY <1>3, <2>1
    <2> QED
      BY <2>1, <2>3, <2>4
  <1> QED
    BY <1>4, <1>5, <1>6, <1>7 DEF t, front, back, RemoveAt

\* What is left: each other element, at its place or one before.
LEMMA Erased ==
  ASSUME NEW D, NEW s \in Seq(D), NEW k \in 1..Len(s)
  PROVE  /\ RemoveAt(s, k) \in Seq(D) /\ Len(RemoveAt(s, k)) = Len(s) - 1
         /\ \A i \in 1..Len(RemoveAt(s, k)) :
              \E j \in 1..Len(s) : /\ RemoveAt(s, k)[i] = s[j] /\ j # k
                                   /\ j = IF i < k THEN i ELSE i + 1
         /\ \A x : In(RemoveAt(s, k), x) => In(s, x)
         /\ Once(s) => /\ Once(RemoveAt(s, k))
                       /\ \A x : In(RemoveAt(s, k), x) <=> In(s, x) /\ x # s[k]
         /\ k > 1 => RemoveAt(s, k) # <<>> /\ RemoveAt(s, k)[1] = s[1]
  <1> DEFINE t == RemoveAt(s, k)
  <1>0. Len(s) \in Nat
    BY LenProperties
  <1>1. /\ t \in Seq(D) /\ Len(t) = Len(s) - 1
        /\ \A i \in 1..Len(t) : t[i] = IF i < k THEN s[i] ELSE s[i + 1]
    BY Without
  <1> HIDE DEF t
  <1>2. \A i \in 1..Len(t) :
          \E j \in 1..Len(s) : t[i] = s[j] /\ j # k /\ j = IF i < k THEN i ELSE i + 1
    <2> SUFFICES ASSUME NEW i \in 1..Len(t)
                 PROVE  \E j \in 1..Len(s) :
                          t[i] = s[j] /\ j # k /\ j = IF i < k THEN i ELSE i + 1
      OBVIOUS
    <2>1. CASE i < k
      <3>1. i \in 1..Len(s) /\ i # k
        BY <1>0, <1>1, <2>1
      <3> QED
        BY <1>1, <2>1, <3>1
    <2>2. CASE ~(i < k)
      <3>1. i + 1 \in 1..Len(s) /\ i + 1 # k
        BY <1>0, <1>1, <2>2
      <3> QED
        BY <1>1, <2>2, <3>1
    <2> QED
      BY <2>1, <2>2
  <1>3. \A x : In(t, x) => In(s, x)
    BY <1>2 DEF In
  <1>4. ASSUME Once(s) PROVE Once(t)
    <2> SUFFICES ASSUME NEW i \in 1..Len(t), NEW j \in 1..Len(t), t[i] = t[j]
                 PROVE  i = j
      BY DEF Once
    <2>1. PICK a \in 1..Len(s) : t[i] = s[a] /\ a # k /\ a = IF i < k THEN i ELSE i + 1
      BY <1>2
    <2>2. PICK b \in 1..Len(s) : t[j] = s[b] /\ b # k /\ b = IF j < k THEN j ELSE j + 1
      BY <1>2
    <2>3. a = b
      BY <2>1, <2>2, <1>4 DEF Once
    <2> QED
      BY <1>0, <1>1, <2>1, <2>2, <2>3
  <1>5. ASSUME Once(s), NEW x PROVE In(t, x) <=> In(s, x) /\ x # s[k]
    <2>1. ASSUME In(t, x) PROVE x # s[k]
      BY <1>2, <1>5, <2>1 DEF In, Once
    <2>2. ASSUME NEW j \in 1..Len(s), s[j] = x, x # s[k] PROVE In(t, x)
      <3>1. CASE j < k
        <4>1. j \in 1..Len(t)
          BY <1>0, <1>1, <3>1
        <4> QED
          BY <1>1, <2>2, <3>1, <4>1 DEF In
      <3>2. CASE j > k
        <4>1. j - 1 \in 1..Len(t) /\ ~(j - 1 < k) /\ (j - 1) + 1 = j
          BY <1>0, <1>1, <3>2
        <4>2. t[j - 1] = s[j]
          BY <1>1, <4>1
        <4> QED
          BY <2>2, <4>1, <4>2 DEF In
      <3> QED
        BY <2>2, <3>1, <3>2
    <2> QED
      BY <1>3, <2>1, <2>2 DEF In
  <1>6. ASSUME k > 1 PROVE t # <<>> /\ t[1] = s[1]
    <2>1. 1 \in 1..Len(t)
      BY <1>0, <1>1, <1>6
    <2>2. t[1] = s[1]
      BY <1>1, <1>6, <2>1
    <2> QED
      BY <2>1, <2>2, EmptySeq
  <1> QED
    BY <1>1, <1>2, <1>3, <1>4, <1>5, <1>6 DEF t

LEMMA FirstErased ==
  ASSUME NEW D, NEW list \in Seq(D), NEW x
  PROVE  RemoveFirstCopy(list, x) = IF In(list, x) THEN RemoveAt(list, FirstAt(list, x))
                                                   ELSE list
  <1>1. FirstAt(list, x) = 0 <=> ~In(list, x)
    <2>1. Len(list) \in Nat
      BY LenProperties
    <2> QED
      BY <2>1, FirstCopy
  <1> QED
    BY <1>1 DEF RemoveFirstCopy, FirstAt

----------------------------------------------------------------------------
(* Queues, and the conversion of a timeout *)

LEMMA Queue ==
  ASSUME NEW D, NEW q \in Seq(D), NEW x \in D
  PROVE  /\ Append(q, x) \in Seq(D) /\ Len(Append(q, x)) = Len(q) + 1
         /\ Len(q) \in Nat
         /\ \A i \in 1..Len(q) : Append(q, x)[i] = q[i]
         /\ Append(q, x)[Len(q) + 1] = x
  BY AppendProperties, LenProperties

LEMMA Unqueue ==
  ASSUME NEW D, NEW q \in Seq(D), q # <<>>
  PROVE  /\ Tail(q) \in Seq(D) /\ Len(Tail(q)) = Len(q) - 1
         /\ Len(q) \in Nat \ {0}
         /\ \A i \in 1..Len(q) - 1 : Tail(q)[i] = q[i + 1]
         /\ Head(q) = q[1] /\ Head(q) \in D
  <1>1. Len(q) \in Nat /\ Len(q) # 0
    BY LenProperties, EmptySeq
  <1>2. /\ Tail(q) \in Seq(D) /\ Head(q) \in D /\ Len(Tail(q)) = Len(q) - 1
        /\ \A i \in 1..Len(Tail(q)) : Tail(q)[i] = q[i + 1]
        /\ Head(q) = q[1]
    BY HeadTailProperties
  <1> QED
    BY <1>1, <1>2

\* The timeout is between 0 and WAIT_TIME, no later than what is waited for
\* unless that is very late, and not 0 for what is to come.
LEMMA Timeouts ==
  ASSUME NEW d \in Int
  PROVE  /\ Timeout(d) \in 0..WaitTime
         /\ d >= -Half => Timeout(d) = 0 \/ Timeout(d) <= d
         /\ d > 0 /\ d < Half => Timeout(d) > 0
  <1> DEFINE x == d + Half
             n == 2 * Half
             y == x % n
  <1>1. WaitTime \in Nat \ {0} /\ Half \in Nat \ {0}
    BY LoopAssumption
  <1>2. x \in Int /\ n \in Nat \ {0}
    BY <1>1
  <1> HIDE DEF x, n
  <1>3. y \in 0..n - 1 /\ (x >= 0 => y <= x) /\ (x >= 0 /\ x < n => y = x)
    BY <1>2
  <1> HIDE DEF y
  <1>4. Timeout(d) = IF y - Half < 0 THEN 0
                     ELSE IF y - Half > WaitTime THEN WaitTime ELSE y - Half
    BY DEF Timeout, y, x, n
  <1>5. y \in Int
    BY <1>2, <1>3
  <1> QED
    BY <1>1, <1>3, <1>4, <1>5 DEF x, n

----------------------------------------------------------------------------
(* The programs of the calls *)

Wake == <<<<"wake">>>>
Terminate == <<<<"terminate">>>>
WakeAgain(t) == <<<<"wake">>, <<"again", t>>>>
Again(t) == <<<<"again", t>>>>

LEMMA Changes ==
  ASSUME NEW t
  PROVE  /\ Starting(t) = {Added(t), RemovedThenAgain(t), WakeAgain(t), Again(t)}
         /\ Changing(t) = Starting(t) \cup {Removed(t)}
  BY DEF Starting, Changing, WakeAgain, Again

\* A call is a sequence of steps, and what is left of it after its first one.
LEMMA Programs ==
  ASSUME NEW t \in Timers
  PROVE  /\ \A c \in {Added(t), Removed(t), RemovedThenAgain(t), WakeAgain(t), Again(t),
                      Wake, Terminate, <<>>} : c \in Seq(Steps)
         /\ \A c \in {Added(t), Removed(t), RemovedThenAgain(t), WakeAgain(t), Again(t),
                      Wake, Terminate} : c # <<>>
         /\ Head(Added(t)) = <<"add", t>> /\ Tail(Added(t)) = Wake
         /\ Head(Removed(t)) = <<"remove", t>> /\ Tail(Removed(t)) = Wake
         /\ Head(RemovedThenAgain(t)) = <<"remove", t>>
         /\ Tail(RemovedThenAgain(t)) = WakeAgain(t)
         /\ Head(WakeAgain(t)) = <<"wake">> /\ Tail(WakeAgain(t)) = Again(t)
         /\ Head(Again(t)) = <<"again", t>> /\ Tail(Again(t)) = <<>>
  <1>1. {<<"add", t>>, <<"remove", t>>, <<"again", t>>, <<"wake">>, <<"terminate">>}
          \subseteq Steps
    BY DEF Steps
  <1>2. /\ \A c \in {Added(t), Removed(t), Wake, Terminate, <<>>} : c \in Seq(Steps)
        /\ \A c \in {RemovedThenAgain(t), WakeAgain(t), Again(t)} : c \in Seq(Steps)
    BY <1>1 DEF Added, Removed, RemovedThenAgain, WakeAgain, Again, Wake, Terminate
  <1>3. /\ \A c \in {Added(t), Removed(t), Wake, Terminate} : c # <<>>
        /\ \A c \in {RemovedThenAgain(t), WakeAgain(t), Again(t)} : c # <<>>
    BY DEF Added, Removed, RemovedThenAgain, WakeAgain, Again, Wake, Terminate
  <1>4. Head(Added(t)) = <<"add", t>> /\ Tail(Added(t)) = Wake
    BY DEF Added, Wake
  <1>5. Head(Removed(t)) = <<"remove", t>> /\ Tail(Removed(t)) = Wake
    BY DEF Removed, Wake
  <1>6. /\ Head(RemovedThenAgain(t)) = <<"remove", t>>
        /\ Tail(RemovedThenAgain(t)) = WakeAgain(t)
    BY DEF RemovedThenAgain, WakeAgain
  <1>7. Head(WakeAgain(t)) = <<"wake">> /\ Tail(WakeAgain(t)) = Again(t)
    BY DEF WakeAgain, Again
  <1>8. Head(Again(t)) = <<"again", t>> /\ Tail(Again(t)) = <<>>
    BY DEF Again
  <1> QED
    BY <1>2, <1>3, <1>4, <1>5, <1>6, <1>7, <1>8

LEMMA ShortPrograms ==
  /\ Head(Wake) = <<"wake">> /\ Tail(Wake) = <<>> /\ Wake # <<>>
  /\ Head(Terminate) = <<"terminate">> /\ Tail(Terminate) = <<>> /\ Terminate # <<>>
  BY DEF Wake, Terminate

LEMMA StepsDiffer ==
  ASSUME NEW t, NEW u
  PROVE  /\ <<"add", t>> # <<"remove", u>> /\ <<"add", t>> # <<"again", u>>
         /\ <<"add", t>> # <<"wake">> /\ <<"add", t>> # <<"terminate">>
         /\ <<"remove", t>> # <<"again", u>> /\ <<"remove", t>> # <<"wake">>
         /\ <<"remove", t>> # <<"terminate">> /\ <<"again", t>> # <<"wake">>
         /\ <<"again", t>> # <<"terminate">> /\ <<"wake">> # <<"terminate">>
         /\ <<"add", t>> = <<"add", u>> => t = u
         /\ <<"remove", t>> = <<"remove", u>> => t = u
         /\ <<"again", t>> = <<"again", u>> => t = u
  OBVIOUS

\* Which call a program is: the first steps differ, or the rest does.
LEMMA CallsDiffer ==
  ASSUME NEW t \in Timers, NEW u \in Timers
  PROVE  /\ <<>> \notin Changing(t) /\ Wake \notin Changing(t)
         /\ Terminate \notin Changing(t)
         /\ Added(t) \notin {Removed(u), RemovedThenAgain(u), WakeAgain(u), Again(u)}
         /\ Removed(t) \notin {RemovedThenAgain(u), WakeAgain(u), Again(u)}
         /\ RemovedThenAgain(t) \notin {WakeAgain(u), Again(u)}
         /\ WakeAgain(t) # Again(u)
         /\ Changing(t) \cap Changing(u) # {} => t = u
  <1>1. /\ \A c \in {Added(t), Removed(t), RemovedThenAgain(t), WakeAgain(t), Again(t)} :
             c # <<>>
        /\ Head(Added(t)) = <<"add", t>> /\ Tail(Added(t)) = Wake
        /\ Head(Removed(t)) = <<"remove", t>> /\ Tail(Removed(t)) = Wake
        /\ Head(RemovedThenAgain(t)) = <<"remove", t>>
        /\ Tail(RemovedThenAgain(t)) = WakeAgain(t)
        /\ Head(WakeAgain(t)) = <<"wake">> /\ Tail(WakeAgain(t)) = Again(t)
        /\ Head(Again(t)) = <<"again", t>> /\ Again(t) # <<>>
    BY Programs
  <1>2. /\ Head(Removed(u)) = <<"remove", u>> /\ Tail(Removed(u)) = Wake
        /\ Head(RemovedThenAgain(u)) = <<"remove", u>>
        /\ Tail(RemovedThenAgain(u)) = WakeAgain(u)
        /\ Head(WakeAgain(u)) = <<"wake">> /\ Tail(WakeAgain(u)) = Again(u)
        /\ Head(Again(u)) = <<"again", u>> /\ Again(u) # <<>>
        /\ Head(Added(u)) = <<"add", u>>
    BY Programs
  <1>3. /\ Head(Wake) = <<"wake">> /\ Tail(Wake) = <<>>
        /\ Head(Terminate) = <<"terminate">> /\ Tail(Terminate) = <<>>
    BY ShortPrograms
  <1>4. Wake # WakeAgain(t) /\ Wake # WakeAgain(u)
    BY <1>1, <1>2, <1>3
  <1>5. /\ <<>> \notin Changing(t) /\ Wake \notin Changing(t)
        /\ Terminate \notin Changing(t)
    <2>1. Changing(t) = {Added(t), RemovedThenAgain(t), WakeAgain(t), Again(t), Removed(t)}
      BY Changes
    <2>2. \A c \in Changing(t) :
            c # <<>> /\ (c = WakeAgain(t) \/ Head(c) \in {<<"add", t>>, <<"remove", t>>, <<"again", t>>})
      BY <1>1, <2>1
    <2>3. \A c \in Changing(t) : Head(c) # <<"terminate">>
      BY <1>1, <2>2, StepsDiffer
    <2>4. Wake \notin Changing(t)
      BY <1>3, <1>4, <2>2, StepsDiffer
    <2> QED
      BY <1>3, <2>2, <2>3, <2>4
  <1>6. /\ Added(t) \notin {Removed(u), RemovedThenAgain(u), WakeAgain(u), Again(u)}
        /\ RemovedThenAgain(t) \notin {WakeAgain(u), Again(u)}
        /\ WakeAgain(t) # Again(u)
    <2>1. Added(t) \notin {Removed(u), RemovedThenAgain(u), WakeAgain(u), Again(u)}
      <3>1. /\ Head(Added(t)) # Head(Removed(u)) /\ Head(Added(t)) # Head(RemovedThenAgain(u))
            /\ Head(Added(t)) # Head(WakeAgain(u)) /\ Head(Added(t)) # Head(Again(u))
        <4>1. /\ <<"add", t>> # <<"remove", u>> /\ <<"add", t>> # <<"again", u>>
              /\ <<"add", t>> # <<"wake">>
          BY StepsDiffer
        <4>2. Head(Added(t)) = <<"add", t>>
          BY <1>1
        <4> QED
          BY <1>2, <4>1, <4>2, Zenon
      <3> QED
        BY <3>1
    <2>2. RemovedThenAgain(t) \notin {WakeAgain(u), Again(u)}
      <3>1. /\ Head(RemovedThenAgain(t)) # Head(WakeAgain(u))
            /\ Head(RemovedThenAgain(t)) # Head(Again(u))
        <4>1. <<"remove", t>> # <<"wake">> /\ <<"remove", t>> # <<"again", u>>
          BY StepsDiffer
        <4>2. Head(RemovedThenAgain(t)) = <<"remove", t>>
          BY <1>1
        <4> QED
          BY <1>2, <4>1, <4>2, Zenon
      <3> QED
        BY <3>1
    <2>3. WakeAgain(t) # Again(u)
      BY <1>1, <1>2, StepsDiffer
    <2> QED
      BY <2>1, <2>2, <2>3
  <1>7. Removed(t) \notin {RemovedThenAgain(u), WakeAgain(u), Again(u)}
    <2>1. Removed(t) # RemovedThenAgain(u)
      BY <1>1, <1>2, <1>4
    <2>2. Removed(t) # WakeAgain(u) /\ Removed(t) # Again(u)
      BY <1>1, <1>2, StepsDiffer
    <2> QED
      BY <2>1, <2>2
  <1>8. ASSUME NEW c \in Changing(t), c \in Changing(u) PROVE t = u
    <2>1. ASSUME NEW v \in {t, u}, NEW w \in {t, u}, WakeAgain(v) = WakeAgain(w)
          PROVE  v = w
      <3>1. Again(v) = Again(w)
        BY <1>1, <1>2, <2>1
      <3> QED
        BY <3>1, <1>1, <1>2, StepsDiffer
    <2>2. c \in {Added(t), RemovedThenAgain(t), WakeAgain(t), Again(t), Removed(t)}
      BY <1>8, Changes
    <2>3. c \in {Added(u), RemovedThenAgain(u), WakeAgain(u), Again(u), Removed(u)}
      BY <1>8, Changes
    <2> QED
      BY <1>1, <1>2, <2>1, <2>2, <2>3, StepsDiffer
  <1> QED
    BY <1>5, <1>6, <1>7, <1>8

\* Some step that is left wakes the loop.
Wakes(c) == \E k \in 1..Len(c) : c[k] = <<"wake">>

LEMMA WhoWakes ==
  ASSUME NEW t \in Timers
  PROVE  Wakes(Wake) /\ Wakes(Added(t)) /\ Wakes(Removed(t)) /\ Wakes(RemovedThenAgain(t))
         /\ Wakes(WakeAgain(t))
  <1>1. Wakes(Wake)
    <2>1. Len(Wake) = 1 /\ Wake[1] = <<"wake">>
      BY DEF Wake
    <2> QED
      BY <2>1 DEF Wakes
  <1>2. Wakes(Added(t))
    <2>1. Len(Added(t)) = 2 /\ Added(t)[2] = <<"wake">>
      BY DEF Added
    <2> QED
      BY <2>1 DEF Wakes
  <1>3. Wakes(Removed(t))
    <2>1. Len(Removed(t)) = 2 /\ Removed(t)[2] = <<"wake">>
      BY DEF Removed
    <2> QED
      BY <2>1 DEF Wakes
  <1>4. Wakes(RemovedThenAgain(t))
    <2>1. Len(RemovedThenAgain(t)) = 3 /\ RemovedThenAgain(t)[2] = <<"wake">>
      BY DEF RemovedThenAgain
    <2> QED
      BY <2>1 DEF Wakes
  <1>5. Wakes(WakeAgain(t))
    <2>1. Len(WakeAgain(t)) = 2 /\ WakeAgain(t)[1] = <<"wake">>
      BY DEF WakeAgain
    <2> QED
      BY <2>1 DEF Wakes
  <1> QED
    BY <1>1, <1>2, <1>3, <1>4, <1>5

----------------------------------------------------------------------------
(* Types *)

\* The types, and that what is executed is some timer.
Typed == TypeOK /\ (Executing => loop.timer \in Timers)

\* The types of what the loop thread alone changes, and of what calls change.
LoopTyped ==
  /\ mTimerLock \in {Loop, None} /\ mFdWatchers \in Seq(Fds) /\ readable \subseteq Fds
  /\ loop \in LoopStates /\ (Executing => loop.timer \in Timers)

TimersTyped ==
  /\ left \in [Timers -> Int] /\ interval \in [Timers -> Intervals \cup {TimerInfinite}]
  /\ repeat \in [Timers -> BOOLEAN] /\ running \in [Timers -> BOOLEAN]
  /\ mTimers \in Seq(Timers)

CallsTyped ==
  /\ pipe \in Seq({"S", "T"}) /\ todo \in [Threads -> Seq(Steps)]
  /\ calls \in [Clients -> 0..MaxCalls] /\ ops \in 0..MaxOps

LEMMA TypedParts ==
  /\ Typed <=> LoopTyped /\ TimersTyped /\ CallsTyped
  /\ Typed' <=> LoopTyped' /\ TimersTyped' /\ CallsTyped'
  BY DEF Typed, TypeOK, LoopTyped, TimersTyped, CallsTyped

LEMMA IntervalTypes ==
  /\ TimerInfinite \in Nat /\ 0 \in 0..MaxOps /\ MaxOps \in 0..MaxOps
  /\ Intervals \subseteq Nat /\ Intervals \cup {TimerInfinite} \subseteq Int
  BY LoopAssumption DEF TimerInfinite

LEMMA BeginTypes ==
  ASSUME Typed, NEW p \in Threads, Begins(p) PROVE Typed'
  <1>0. /\ LoopTyped /\ TimersTyped /\ CallsTyped
        /\ MaxCalls \in Nat /\ MaxOps \in Nat /\ Loop \notin Clients
    BY TypedParts, LoopAssumption
  <1>1. ASSUME MayCall(p), NEW c \in Seq(Steps), Calls(p, c) PROVE LoopTyped' /\ CallsTyped'
    <2>1. todo' = [todo EXCEPT ![p] = c] /\ UNCHANGED <<mTimerLock, mFdWatchers, pipe, readable, loop>>
      BY <1>1 DEF Calls
    <2>2. todo' \in [Threads -> Seq(Steps)]
      BY <2>1, <1>0 DEF CallsTyped
    <2>3. ops' \in 0..MaxOps /\ calls' \in [Clients -> 0..MaxCalls]
      <3>1. CASE p = Loop
        BY <1>0, <1>1, <3>1 DEF CallsTyped, Calls, MayCall
      <3>2. CASE p # Loop
        <4>1. /\ p \in Clients /\ ops' = ops /\ calls' = [calls EXCEPT ![p] = @ + 1]
              /\ calls[p] < MaxCalls
          BY <1>1, <3>2 DEF Calls, MayCall, Threads
        <4> QED
          BY <1>0, <4>1 DEF CallsTyped
      <3> QED
        BY <3>1, <3>2
    <2> QED
      BY <1>0, <2>1, <2>2, <2>3 DEF LoopTyped, CallsTyped, Executing
  <1>2. ASSUME NEW t \in Timers, NEW i \in Intervals \cup {TimerInfinite}, NEW r \in BOOLEAN,
               Arms(t, i, r), mTimers' = mTimers
        PROVE  TimersTyped'
    BY <1>0, <1>2, IntervalTypes DEF TimersTyped, Arms
  <1>3. ASSUME NEW t \in Timers
        PROVE  /\ Added(t) \in Seq(Steps) /\ Removed(t) \in Seq(Steps)
               /\ RemovedThenAgain(t) \in Seq(Steps) /\ <<>> \in Seq(Steps)
    BY Programs
  <1>4. ASSUME NEW t \in Timers, StopTimer(p, t) PROVE Typed'
    <2>1. TimersTyped'
      BY <1>0, <1>4 DEF StopTimer, Calls, TimersTyped
    <2> QED
      BY <1>1, <1>3, <1>4, <2>1, TypedParts DEF StopTimer
  <1>5. ASSUME NEW t \in Timers, RestartTimer(p, t) PROVE Typed'
    <2>1. CASE running[t]
      <3>1. TimersTyped'
        BY <1>0, <1>5, <2>1 DEF RestartTimer, Calls, TimersTyped
      <3> QED
        BY <1>1, <1>3, <1>5, <2>1, <3>1, TypedParts DEF RestartTimer
    <2>2. CASE ~running[t]
      <3>1. /\ Arms(t, interval[t], repeat[t]) /\ Calls(p, Added(t)) /\ MayCall(p)
            /\ mTimers' = mTimers
        BY <1>5, <2>2 DEF RestartTimer, Calls
      <3>2. interval[t] \in Intervals \cup {TimerInfinite} /\ repeat[t] \in BOOLEAN
        BY <1>0 DEF TimersTyped
      <3>3. TimersTyped'
        BY <1>2, <3>1, <3>2
      <3> QED
        BY <1>1, <1>3, <3>1, <3>3, TypedParts
    <2> QED
      BY <2>1, <2>2
  <1>6. ASSUME NEW t \in Timers, NEW i \in Intervals, SetInterval(p, t, i) PROVE Typed'
    <2>1. TimersTyped'
      BY <1>0, <1>6 DEF SetInterval, Calls, TimersTyped
    <2> QED
      BY <1>1, <1>3, <1>6, <2>1, TypedParts DEF SetInterval
  <1>7. ASSUME NEW t \in Timers, NEW r \in BOOLEAN, SetRepeat(p, t, r) PROVE Typed'
    <2>1. TimersTyped'
      BY <1>0, <1>7 DEF SetRepeat, Calls, TimersTyped
    <2> QED
      BY <1>1, <1>3, <1>7, <2>1, TypedParts DEF SetRepeat
  <1>8. ASSUME NEW t \in Timers, NEW i \in Intervals, NEW r \in BOOLEAN, StartTimer(p, t, i, r)
        PROVE  Typed'
    <2>1. Arms(t, i, r) /\ Calls(p, Added(t)) /\ MayCall(p) /\ mTimers' = mTimers
      BY <1>8 DEF StartTimer, Calls
    <2>2. TimersTyped'
      BY <1>2, <2>1
    <2> QED
      BY <1>1, <1>3, <2>1, <2>2, TypedParts
  <1>9. CASE CallTerminate(p)
    <2>1. TimersTyped'
      BY <1>0, <1>9 DEF CallTerminate, Calls, TimersTyped, timerFields
    <2>2. Terminate \in Seq(Steps)
      BY DEF Terminate, Steps
    <2>3. MayCall(p) /\ Calls(p, Terminate)
      BY <1>9 DEF CallTerminate, Terminate
    <2> QED
      BY <1>1, <2>1, <2>2, <2>3, TypedParts
  <1> QED
    BY <1>4, <1>5, <1>6, <1>7, <1>8, <1>9 DEF Begins

LEMMA ContinueTypes ==
  ASSUME Typed, NEW p \in Threads, Continues(p) PROVE Typed'
  <1>0. LoopTyped /\ TimersTyped /\ CallsTyped
    BY TypedParts
  <1>1. ASSUME NEW s, Does(p, s)
        PROVE  /\ LoopTyped' /\ todo' \in [Threads -> Seq(Steps)]
               /\ calls' \in [Clients -> 0..MaxCalls] /\ ops' \in 0..MaxOps
    <2>1. /\ todo[p] # <<>> /\ todo' = [todo EXCEPT ![p] = Tail(@)]
          /\ UNCHANGED <<mTimerLock, mFdWatchers, readable, loop, calls, ops>>
      BY <1>1 DEF Does
    <2>2. Tail(todo[p]) \in Seq(Steps)
      <3>1. todo[p] \in Seq(Steps)
        BY <1>0 DEF CallsTyped
      <3> QED
        BY <2>1, <3>1, Unqueue
    <2>3. todo' \in [Threads -> Seq(Steps)]
      BY <1>0, <2>1, <2>2 DEF CallsTyped
    <2> QED
      BY <1>0, <2>1, <2>3 DEF LoopTyped, CallsTyped, Executing
  <1>2. ASSUME NEW t \in Timers, DoAdd(p, t) PROVE Typed'
    <2>1. mTimers' \in Seq(Timers)
      <3> DEFINE list == Append(mTimers, t)
      <3>1. list \in Seq(Timers) /\ left \in [Timers -> Int]
        BY <1>0, Queue DEF TimersTyped
      <3>2. mTimers' = SortTimers(list, left)
        BY <1>2 DEF DoAdd
      <3> HIDE DEF list
      <3> QED
        BY <3>1, <3>2, Sorts
    <2>2. TimersTyped'
      BY <1>0, <1>2, <2>1 DEF DoAdd, TimersTyped
    <2>3. CallsTyped' /\ LoopTyped'
      BY <1>0, <1>1, <1>2 DEF DoAdd, CallsTyped
    <2> QED
      BY <2>2, <2>3, TypedParts
  <1>3. ASSUME NEW t \in Timers, DoRemove(p, t) PROVE Typed'
    <2>1. mTimers' \in Seq(Timers)
      <3> DEFINE list == RemoveFirstCopy(mTimers, t)
      <3>1. mTimers \in Seq(Timers) /\ left \in [Timers -> Int]
        BY <1>0 DEF TimersTyped
      <3>2. list \in Seq(Timers)
        <4>1. In(mTimers, t) => FirstAt(mTimers, t) \in 1..Len(mTimers)
          BY <3>1, FirstCopy
        <4>2. In(mTimers, t) => RemoveAt(mTimers, FirstAt(mTimers, t)) \in Seq(Timers)
          BY <3>1, <4>1, Erased
        <4>3. list = IF In(mTimers, t) THEN RemoveAt(mTimers, FirstAt(mTimers, t)) ELSE mTimers
          BY <3>1, FirstErased
        <4> QED
          BY <3>1, <4>2, <4>3
      <3>3. mTimers' = IF Listed(t) THEN SortTimers(list, left) ELSE mTimers
        BY <1>3 DEF DoRemove
      <3> HIDE DEF list
      <3> QED
        BY <3>1, <3>2, <3>3, Sorts
    <2>2. TimersTyped'
      BY <1>0, <1>3, <2>1 DEF DoRemove, TimersTyped
    <2>3. CallsTyped' /\ LoopTyped'
      BY <1>0, <1>1, <1>3 DEF DoRemove, CallsTyped
    <2> QED
      BY <2>2, <2>3, TypedParts
  <1>4. ASSUME NEW t \in Timers, DoAgain(p, t) PROVE Typed'
    <2>1. UNCHANGED <<mTimers, mTimerLock, mFdWatchers, pipe, readable, loop, calls, ops>>
      BY <1>4 DEF DoAgain
    <2>2. TimersTyped'
      <3>1. CASE running[t]
        BY <1>0, <1>4, <2>1, <3>1 DEF DoAgain, timerFields, TimersTyped
      <3>2. CASE ~running[t]
        <4>1. interval[t] \in Int /\ Arms(t, interval[t], repeat[t])
          BY <1>0, <1>4, <3>2, IntervalTypes DEF TimersTyped, DoAgain
        <4> QED
          BY <1>0, <2>1, <4>1 DEF TimersTyped, Arms
      <3> QED
        BY <3>1, <3>2
    <2>3. todo' \in [Threads -> Seq(Steps)]
      <3>1. Added(t) \in Seq(Steps) /\ <<>> \in Seq(Steps)
        BY Programs
      <3>2. todo' = [todo EXCEPT ![p] = <<>>] \/ todo' = [todo EXCEPT ![p] = Added(t)]
        BY <1>4 DEF DoAgain
      <3> QED
        BY <1>0, <3>1, <3>2 DEF CallsTyped
    <2> QED
      BY <1>0, <2>1, <2>2, <2>3, TypedParts DEF CallsTyped, LoopTyped, Executing
  <1>5. ASSUME DoWake(p) \/ DoTerminate(p) PROVE Typed'
    <2>1. PICK b \in {"S", "T"} : pipe' = Append(pipe, b)
      BY <1>5 DEF DoWake, DoTerminate
    <2>2. pipe' \in Seq({"S", "T"})
      BY <1>0, <2>1, Queue DEF CallsTyped
    <2>3. TimersTyped'
      BY <1>0, <1>5 DEF DoWake, DoTerminate, TimersTyped
    <2>4. Does(p, <<"wake">>) \/ Does(p, <<"terminate">>)
      BY <1>5 DEF DoWake, DoTerminate
    <2> QED
      BY <1>1, <2>2, <2>3, <2>4, TypedParts DEF CallsTyped
  <1> QED
    BY <1>2, <1>3, <1>4, <1>5 DEF Continues

LEMMA WatcherTypes ==
  ASSUME Typed, NEW f \in Fds, AddFdWatcher(f) \/ RemoveFdWatcher(f) \/ DataArrives(f)
  PROVE  Typed'
  <1>0. LoopTyped /\ TimersTyped /\ CallsTyped /\ Loop \in Threads /\ MaxOps \in Nat
    BY TypedParts, LoopAssumption DEF Threads
  <1>1. ASSUME WatcherCall
        PROVE  /\ TimersTyped' /\ CallsTyped' /\ UNCHANGED <<mTimerLock, readable>>
               /\ loop.at \in {"handler", "callback"}
    <2>1. ops' = ops - 1 /\ ops > 0 /\ loop.at \in {"handler", "callback"}
      BY <1>1 DEF WatcherCall, MayCall
    <2>2. UNCHANGED <<left, interval, repeat, running, mTimers, mTimerLock, pipe,
                      readable, todo, calls>>
      BY <1>1 DEF WatcherCall
    <2>3. ops' \in 0..MaxOps
      BY <1>0, <2>1 DEF CallsTyped
    <2> QED
      BY <1>0, <2>1, <2>2, <2>3 DEF TimersTyped, CallsTyped
  <1>2. CASE AddFdWatcher(f)
    <2>1. mFdWatchers' = Append(mFdWatchers, f) /\ loop' = loop /\ WatcherCall
      BY <1>2 DEF AddFdWatcher
    <2>2. mFdWatchers' \in Seq(Fds)
      BY <1>0, <2>1, Queue DEF LoopTyped
    <2> QED
      BY <1>0, <1>1, <2>1, <2>2, TypedParts DEF LoopTyped, Executing
  <1>3. CASE RemoveFdWatcher(f)
    <2> DEFINE i == FirstAt(mFdWatchers, f)
    <2>1. /\ mFdWatchers' = RemoveAt(mFdWatchers, i) /\ Watched(f) /\ WatcherCall
          /\ loop' = IF At("callback") /\ i < loop.pos
                       THEN [loop EXCEPT !.pos = @ - 1] ELSE loop
      BY <1>3 DEF RemoveFdWatcher, FirstAt
    <2>2. i \in 1..Len(mFdWatchers)
      <3>1. mFdWatchers \in Seq(Fds) /\ In(mFdWatchers, f)
        BY <1>0, <2>1 DEF LoopTyped, Watched, In
      <3> QED
        BY <3>1, FirstCopy
    <2> HIDE DEF i
    <2>3. mFdWatchers' \in Seq(Fds) /\ i \in Nat \ {0}
      <3>1. mFdWatchers \in Seq(Fds)
        BY <1>0 DEF LoopTyped
      <3>2. RemoveAt(mFdWatchers, i) \in Seq(Fds)
        BY <2>2, <3>1, Erased
      <3> QED
        BY <2>1, <2>2, <3>2
    <2>4. loop' \in LoopStates /\ (loop'.at \in {"handler", "ran"} => loop'.timer \in Timers)
      <3>1. CASE At("callback") /\ i < loop.pos
        <4>1. loop \in LoopStates
          BY <1>0 DEF LoopTyped
        <4>2. loop.pos - 1 \in Nat
          BY <2>3, <3>1, <4>1 DEF LoopStates
        <4>3. loop' = [loop EXCEPT !.pos = loop.pos - 1]
          BY <2>1, <3>1
        <4> QED
          BY <3>1, <4>1, <4>2, <4>3 DEF LoopStates, At
      <3>2. CASE ~(At("callback") /\ i < loop.pos)
        BY <1>0, <2>1, <3>2 DEF LoopTyped, Executing
      <3> QED
        BY <3>1, <3>2
    <2> QED
      BY <1>0, <1>1, <2>1, <2>3, <2>4, TypedParts DEF LoopTyped, Executing
  <1>4. CASE DataArrives(f)
    <2>1. readable' \subseteq Fds
      BY <1>0, <1>4 DEF DataArrives, LoopTyped
    <2>2. UNCHANGED <<left, interval, repeat, running, mTimers, mTimerLock,
                      mFdWatchers, pipe, loop, todo, calls, ops>>
      BY <1>4 DEF DataArrives
    <2> QED
      BY <1>0, <2>1, <2>2, TypedParts DEF LoopTyped, TimersTyped, CallsTyped, Executing
  <1> QED
    BY <1>2, <1>3, <1>4

\* The record loop, by the names of its fields' sets.
Places ==
  {"build", "timers", "handler", "ran", "select", "dispatch", "callback", "ended"}
AnyTimer == Timers \cup {None}
AnyFds == SUBSET Fds
Lags == 0..MaxLag
Waiting == 0..WaitTime

LEMMA LoopRecord ==
  /\ LoopStates = [at : Places, timer : AnyTimer, polled : AnyFds, pos : Nat, lag : Lags,
                   wait : Waiting]
  /\ {"build", "timers", "handler", "ran", "select", "dispatch", "callback", "ended"}
       \subseteq Places
  /\ 0 \in Lags /\ 0 \in Waiting /\ None \in AnyTimer /\ Timers \subseteq AnyTimer
  /\ {} \in AnyFds /\ 0 \in Nat /\ 1 \in Nat
  BY LoopAssumption DEF LoopStates, Places, AnyTimer, AnyFds, Lags, Waiting

\* What loop' is made of where the loop thread goes on.
LEMMA WaitsTypes ==
  ASSUME NEW l \in LoopStates, NEW d \in 0..WaitTime
  PROVE  /\ Waits(l, d) \in LoopStates /\ Waits(l, d).at \in {"timers", "select"}
         /\ Waits(l, d).at = "timers" <=> d = 0
         /\ Waits(l, d).timer = None /\ Waits(l, d).wait = d /\ Waits(l, d).lag = l.lag
         /\ Waits(l, d).polled = l.polled /\ Waits(l, d).pos = l.pos
  BY DEF Waits, LoopStates

LEMMA WaitsTimer ==
  ASSUME NEW l \in LoopStates, NEW d PROVE Waits(l, d).timer = None
  BY DEF Waits, LoopStates

LEMMA RunTypes ==
  ASSUME Typed, RunNoTimer \/ RunTimer \/ HandlerReturns \/ ExecuteReturns PROVE Typed'
  <1>0. /\ LoopTyped /\ TimersTyped /\ CallsTyped /\ WaitTime \in 0..WaitTime
        /\ MaxLag \in Nat /\ MaxOps \in Nat
    BY TypedParts, LoopAssumption
  <1>1. CASE RunNoTimer
    <2> DEFINE l == [loop EXCEPT !.lag = 0]
               d == IF mTimers = <<>> THEN WaitTime ELSE Timeout(left[Head(mTimers)])
    <2>1. l \in LoopStates
      BY <1>0 DEF LoopTyped, LoopStates
    <2>2. d \in 0..WaitTime
      <3>1. mTimers # <<>> => left[Head(mTimers)] \in Int
        BY <1>0, Unqueue DEF TimersTyped
      <3> QED
        BY <1>0, <3>1, Timeouts
    <2>3. loop' = Waits(l, d)
      BY <1>1 DEF RunNoTimer
    <2> HIDE DEF l, d
    <2>4. loop' \in LoopStates /\ loop'.at \notin {"handler", "ran"}
      BY <2>1, <2>2, <2>3, WaitsTypes
    <2>5. UNCHANGED <<left, interval, repeat, running, mTimers, mTimerLock,
                      mFdWatchers, pipe, readable, todo, calls, ops>>
      BY <1>1 DEF RunNoTimer
    <2> QED
      BY <1>0, <2>4, <2>5, TypedParts DEF LoopTyped, TimersTyped, CallsTyped, Executing
  <1>2. CASE RunTimer
    <2>1. Head(mTimers) \in Timers
      BY <1>0, <1>2, Unqueue DEF TimersTyped, RunTimer
    <2>2. loop' = [loop EXCEPT !.at = "handler", !.timer = Head(mTimers), !.lag = 0]
      BY <1>2 DEF RunTimer
    <2>3. loop' \in LoopStates /\ loop'.timer \in Timers
      <3>1. loop \in LoopStates
        BY <1>0 DEF LoopTyped
      <3> QED
        BY <2>1, <2>2, <3>1, LoopRecord
    <2>4. /\ mTimerLock' = Loop /\ ops' = MaxOps
          /\ UNCHANGED <<left, interval, repeat, running, mTimers, mFdWatchers, pipe,
                         readable, todo, calls>>
      BY <1>2 DEF RunTimer
    <2> QED
      BY <1>0, <2>3, <2>4, TypedParts DEF LoopTyped, TimersTyped, CallsTyped, Executing
  <1>3. CASE HandlerReturns
    <2> DEFINE t == loop.timer
    <2>1. /\ ops' = 0 /\ loop' = [loop EXCEPT !.at = "ran"]
          /\ left' = IF repeat[t] THEN [left EXCEPT ![t] = @ + interval[t]] ELSE left
          /\ running' = IF repeat[t] THEN running ELSE [running EXCEPT ![t] = FALSE]
          /\ UNCHANGED <<interval, repeat, mTimers, mTimerLock, mFdWatchers, pipe,
                         readable, todo, calls>>
      BY <1>3 DEF HandlerReturns
    <2>2. t \in Timers /\ loop \in LoopStates
      BY <1>0, <1>3 DEF LoopTyped, HandlerReturns, Executing, At
    <2>3. loop' \in LoopStates /\ loop'.timer = t
      BY <2>1, <2>2, LoopRecord
    <2> HIDE DEF t
    <2>4. left' \in [Timers -> Int] /\ running' \in [Timers -> BOOLEAN]
      <3>1. interval[t] \in Int
        BY <1>0, <2>2, IntervalTypes DEF TimersTyped
      <3>2. left' \in [Timers -> Int]
        BY <1>0, <2>1, <2>2, <3>1 DEF TimersTyped
      <3>3. running' \in [Timers -> BOOLEAN]
        BY <1>0, <2>1, <2>2 DEF TimersTyped
      <3> QED
        BY <3>2, <3>3
    <2> QED
      BY <1>0, <2>1, <2>2, <2>3, <2>4, TypedParts
      DEF LoopTyped, TimersTyped, CallsTyped, Executing
  <1>4. CASE ExecuteReturns
    <2> DEFINE kept == IF /\ ~repeat[loop.timer] /\ mTimers # <<>>
                          /\ Head(mTimers) = loop.timer
                         THEN Tail(mTimers) ELSE mTimers
               next == SortTimers(kept, left)
               d == IF next = <<>> THEN WaitTime ELSE Timeout(left[Head(next)] + loop.lag)
    <2>1. /\ mTimerLock' = None /\ mTimers' = next /\ loop' = Waits(loop, d)
          /\ UNCHANGED <<left, interval, repeat, running, mFdWatchers, pipe, readable,
                         todo, calls, ops>>
      BY <1>4 DEF ExecuteReturns, TimersRun
    <2>2. loop \in LoopStates /\ loop.lag \in Nat /\ left \in [Timers -> Int]
      BY <1>0 DEF LoopTyped, LoopStates, TimersTyped
    <2>3. kept \in Seq(Timers)
      BY <1>0, Unqueue DEF TimersTyped
    <2> HIDE DEF kept
    <2>4. next \in Seq(Timers)
      BY <2>2, <2>3, Sorts
    <2> HIDE DEF next
    <2>5. d \in 0..WaitTime
      <3>1. next # <<>> => left[Head(next)] \in Int
        BY <2>2, <2>4, Unqueue
      <3>2. next # <<>> => left[Head(next)] + loop.lag \in Int
        BY <2>2, <3>1
      <3> QED
        BY <1>0, <3>2, Timeouts
    <2> HIDE DEF d
    <2>6. loop' \in LoopStates /\ loop'.at \notin {"handler", "ran"}
      BY <2>1, <2>2, <2>5, WaitsTypes
    <2> QED
      BY <1>0, <2>1, <2>4, <2>6, TypedParts DEF LoopTyped, TimersTyped, CallsTyped, Executing
  <1> QED
    BY <1>1, <1>2, <1>3, <1>4

LEMMA LoopTypes ==
  ASSUME Typed, BuildFdSet \/ ReadCommand \/ SelectReady \/ SelectReturns \/ Visit
                \/ CallbackReturns
  PROVE  Typed'
  <1>0. /\ LoopTyped /\ TimersTyped /\ CallsTyped /\ loop \in LoopStates
        /\ MaxLag \in Nat /\ MaxOps \in Nat /\ WaitTime \in Nat
    BY TypedParts, LoopAssumption DEF LoopTyped
  <1>1. ASSUME UNCHANGED <<left, interval, repeat, running, mTimers, mTimerLock,
                           mFdWatchers, todo, calls>>,
               readable' \subseteq readable, ops' \in {0, ops, MaxOps},
               pipe' \in Seq({"S", "T"}), loop' \in LoopStates, loop'.at \notin {"handler", "ran"}
        PROVE  Typed'
    <2>1. ops' \in 0..MaxOps
      BY <1>0, <1>1 DEF CallsTyped
    <2> QED
      BY <1>0, <1>1, <2>1, TypedParts DEF LoopTyped, TimersTyped, CallsTyped, Executing
  <1>2. pipe \in Seq({"S", "T"}) /\ readable \subseteq Fds
    BY <1>0 DEF CallsTyped, LoopTyped
  <1>3. CASE BuildFdSet
    <2>1. loop' \in LoopStates /\ loop'.at \notin {"handler", "ran"}
      <3> DEFINE w == {f \in Fds : Watched(f)}
      <3>1. w \in SUBSET Fds
        OBVIOUS
      <3>2. loop' = [loop EXCEPT !.at = "timers", !.polled = w]
        BY <1>3 DEF BuildFdSet
      <3> HIDE DEF w
      <3> QED
        BY <1>0, <3>1, <3>2, LoopRecord DEF AnyFds
    <2> QED
      BY <1>1, <1>2, <1>3, <2>1 DEF BuildFdSet
  <1>4. CASE ReadCommand
    <2>1. loop' \in LoopStates /\ loop'.at \notin {"handler", "ran"}
      BY <1>0, <1>4, LoopRecord DEF ReadCommand
    <2>2. pipe' \in Seq({"S", "T"})
      BY <1>2, <1>4, Unqueue DEF ReadCommand
    <2> QED
      BY <1>1, <1>4, <2>1, <2>2 DEF ReadCommand
  <1>5. CASE SelectReady
    <2>1. Ready \in SUBSET Fds
      BY <1>2 DEF Ready
    <2>2. loop' \in LoopStates /\ loop'.at \notin {"handler", "ran"}
      BY <1>0, <1>5, <2>1, LoopRecord DEF SelectReady, AnyFds
    <2> QED
      BY <1>1, <1>2, <1>5, <2>2 DEF SelectReady
  <1>6. CASE SelectReturns
    <2>1. loop' \in LoopStates /\ loop'.at \notin {"handler", "ran"}
      BY <1>0, <1>6, LoopRecord DEF SelectReturns
    <2> QED
      BY <1>1, <1>2, <1>6, <2>1 DEF SelectReturns
  <1>7. CASE Visit
    <2>1. \/ loop' = [loop EXCEPT !.at = "build", !.polled = {}, !.pos = 0]
          \/ loop' = [loop EXCEPT !.at = "callback"]
          \/ loop' = [loop EXCEPT !.pos = @ + 1]
      BY <1>7 DEF Visit
    <2>2. loop' \in LoopStates /\ loop'.at \notin {"handler", "ran"}
      <3>1. loop.pos + 1 \in Nat /\ loop.at = "dispatch"
        BY <1>0, <1>7, LoopRecord DEF Visit, At
      <3>2. \/ loop' = [loop EXCEPT !.at = "build", !.polled = {}, !.pos = 0]
            \/ loop' = [loop EXCEPT !.at = "callback"]
            \/ loop' = [loop EXCEPT !.pos = loop.pos + 1]
        BY <2>1
      <3> QED
        BY <1>0, <3>1, <3>2, LoopRecord
    <2>3. ops' \in {0, MaxOps}
      BY <1>7 DEF Visit
    <2> QED
      BY <1>1, <1>2, <1>7, <2>2, <2>3 DEF Visit
  <1>8. CASE CallbackReturns
    <2>1. loop' \in LoopStates /\ loop'.at \notin {"handler", "ran"}
      <3>1. loop.pos + 1 \in Nat
        BY <1>0, LoopRecord
      <3>2. loop' = [loop EXCEPT !.at = "dispatch", !.pos = loop.pos + 1]
        BY <1>8 DEF CallbackReturns
      <3> QED
        BY <1>0, <3>1, <3>2, LoopRecord
    <2> QED
      BY <1>1, <1>2, <1>8, <2>1 DEF CallbackReturns
  <1> QED
    BY <1>3, <1>4, <1>5, <1>6, <1>7, <1>8

LEMMA TickTypes == ASSUME Typed, Tick PROVE Typed'
  <1>0. /\ LoopTyped /\ TimersTyped /\ CallsTyped /\ loop \in LoopStates
        /\ MaxLag \in Nat /\ WaitTime \in Nat
    BY TypedParts, LoopAssumption DEF LoopTyped
  <1>1. left' \in [Timers -> Int]
    BY <1>0 DEF Tick, TimersTyped
  <1>2. /\ loop' \in LoopStates /\ loop'.at = loop.at /\ loop'.timer = loop.timer
    <2>1. CASE At("select")
      BY <1>0, <2>1 DEF Tick, LoopStates
    <2>2. CASE ~At("select")
      BY <1>0, <2>2 DEF Tick, LoopStates
    <2> QED
      BY <2>1, <2>2
  <1>3. UNCHANGED <<interval, repeat, running, mTimers, mTimerLock, mFdWatchers,
                    pipe, readable, todo, calls, ops>>
    BY DEF Tick
  <1> QED
    BY <1>0, <1>1, <1>2, <1>3, TypedParts DEF LoopTyped, TimersTyped, CallsTyped, Executing

\* SetToSeq is a list of the elements of a finite set, each once.
LEMMA ListOfFds ==
  SetToSeq(Fds) \in Seq(Fds) /\ Once(SetToSeq(Fds))
  <1> DEFINE n == Cardinality(Fds)
             s == SetToSeq(Fds)
  <1>1. n \in Nat /\ ExistsBijection(1..n, Fds)
    BY LoopAssumption, FS_CardinalityType
  <1>2. \E f \in [1..n -> Fds] : IsInjective(f)
    BY <1>1 DEF ExistsBijection, Bijection, Injection
  <1>3. s \in [1..n -> Fds] /\ IsInjective(s)
    BY <1>2 DEF SetToSeq
  <1> HIDE DEF s, n
  <1>4. s \in Seq(Fds) /\ Len(s) = n
    BY <1>1, <1>3, AFunction
  <1>5. Once(s)
    BY <1>3, <1>4 DEF Once, IsInjective
  <1> QED
    BY <1>4, <1>5 DEF s

LEMMA TypeInit == ASSUME Init PROVE Typed
  <1>0. Loop \in Threads /\ MaxCalls \in Nat /\ MaxOps \in Nat /\ MaxLag \in Nat
    BY LoopAssumption DEF Threads
  <1>1. TimersTyped
    BY IntervalTypes, EmptySeq DEF Init, TimersTyped
  <1>2. CallsTyped
    BY <1>0, EmptySeq DEF Init, CallsTyped
  <1>3. mFdWatchers \in Seq(Fds)
    BY ListOfFds, EmptySeq DEF Init
  <1>4. LoopTyped
    BY <1>0, <1>3, LoopAssumption DEF Init, LoopTyped, LoopStates, Executing
  <1> QED
    BY <1>1, <1>2, <1>4, TypedParts

LEMMA TypeStep == ASSUME Typed, [Next]_vars PROVE Typed'
  <1>1. CASE vars' = vars
    BY <1>1, TypedParts DEF vars, LoopTyped, TimersTyped, CallsTyped, Executing
  <1>2. CASE Next
    BY <1>2, BeginTypes, ContinueTypes, WatcherTypes, RunTypes, LoopTypes, TickTypes
       DEF Next, LoopStep, SelectTimesOut
  <1> QED
    BY <1>1, <1>2

\* Types: every call keeps the types of the loop's and the timers' variables.
THEOREM Types == Spec => []Typed
  BY TypeInit, TypeStep, PTL DEF Spec

----------------------------------------------------------------------------
(* The watchers *)

\* What the walk over the watchers keeps: no watcher is in the list twice, and
\* the ready ones from loop.pos on still have data.
Walking ==
  /\ Once(mFdWatchers)
  /\ loop.at \in {"dispatch", "callback"} =>
       /\ loop.pos >= 1
       /\ \A i \in 1..Len(mFdWatchers) : i >= loop.pos /\ mFdWatchers[i] \in loop.polled
            => mFdWatchers[i] \in readable
  /\ At("callback") =>
       loop.pos \in 1..Len(mFdWatchers) /\ mFdWatchers[loop.pos] \in loop.polled

LEMMA WalkUnchanged ==
  ASSUME Walking, UNCHANGED <<mFdWatchers>>, readable \subseteq readable',
         \/ UNCHANGED <<loop.at, loop.pos, loop.polled>>
         \/ loop'.at \notin {"dispatch", "callback"}
  PROVE  Walking'
  BY DEF Walking, Once, At

LEMMA WalkAdd ==
  ASSUME Typed, Walking, ~Duplicates, NEW f \in Fds, AddFdWatcher(f) PROVE Walking'
  <1> DEFINE w == mFdWatchers
  <1>1. /\ mFdWatchers' = Append(w, f) /\ loop' = loop /\ readable' = readable
        /\ ~In(w, f) /\ loop.at \in {"handler", "callback"}
        /\ At("callback") => f \notin loop.polled
    BY DEF AddFdWatcher, WatcherCall, MayCall, Watched, In
  <1>2. w \in Seq(Fds)
    BY DEF Typed, TypeOK
  <1>3. /\ Len(Append(w, f)) = Len(w) + 1 /\ Len(w) \in Nat
        /\ \A i \in 1..Len(w) : Append(w, f)[i] = w[i]
        /\ Append(w, f)[Len(w) + 1] = f
    BY <1>2, Queue
  <1> DEFINE n == Append(w, f)
  <1>4. /\ Once(w)
        /\ At("callback") =>
             /\ loop.pos \in 1..Len(w) /\ w[loop.pos] \in loop.polled /\ loop.pos >= 1
             /\ \A i \in 1..Len(w) : i >= loop.pos /\ w[i] \in loop.polled => w[i] \in readable
    BY DEF Walking, At
  <1> HIDE DEF w, n
  <1>5. \A i \in 1..Len(n) : (i \in 1..Len(w) /\ n[i] = w[i]) \/ (i = Len(w) + 1 /\ n[i] = f)
    BY <1>3 DEF n
  <1>6. Once(n)
    BY <1>1, <1>4, <1>5 DEF Once, In
  <1>7. At("callback") =>
          /\ loop.pos \in 1..Len(n) /\ n[loop.pos] \in loop.polled
          /\ \A i \in 1..Len(n) : i >= loop.pos /\ n[i] \in loop.polled => n[i] \in readable
    BY <1>1, <1>3, <1>4, <1>5 DEF n
  <1>8. loop.at # "dispatch" /\ loop'.at # "dispatch" /\ mFdWatchers' = n
    BY <1>1 DEF n
  <1> QED
    BY <1>1, <1>4, <1>6, <1>7, <1>8 DEF Walking, At

LEMMA WalkRemove ==
  ASSUME Typed, Walking, NEW f \in Fds, RemoveFdWatcher(f) PROVE Walking'
  <1> DEFINE w == mFdWatchers
             k == FirstAt(w, f)
             n == RemoveAt(w, k)
  <1>1. /\ mFdWatchers' = n /\ readable' = readable /\ In(w, f)
        /\ loop.at \in {"handler", "callback"}
        /\ At("callback") => k # loop.pos
        /\ loop' = IF At("callback") /\ k < loop.pos THEN [loop EXCEPT !.pos = @ - 1] ELSE loop
    BY DEF RemoveFdWatcher, FirstAt, WatcherCall, MayCall, Watched, In
  <1>2. w \in Seq(Fds) /\ Len(w) \in Nat
    BY LenProperties DEF Typed, TypeOK
  <1>3. k \in 1..Len(w)
    BY <1>1, <1>2, FirstCopy
  <1>4. /\ Once(w)
        /\ At("callback") =>
             /\ loop.pos \in 1..Len(w) /\ w[loop.pos] \in loop.polled
             /\ \A i \in 1..Len(w) : i >= loop.pos /\ w[i] \in loop.polled => w[i] \in readable
    BY DEF Walking, At
  <1>5. loop \in LoopStates
    BY DEF Typed, TypeOK
  <1> HIDE DEF w, k
  <1>6. /\ Len(n) = Len(w) - 1 /\ Once(n)
        /\ \A i \in 1..Len(n) : n[i] = IF i < k THEN w[i] ELSE w[i + 1]
    <2>1. Len(n) = Len(w) - 1 /\ (Once(w) => Once(n))
      BY <1>2, <1>3, Erased
    <2>2. \A i \in 1..Len(n) : n[i] = IF i < k THEN w[i] ELSE w[i + 1]
      BY <1>2, <1>3, Without
    <2> QED
      BY <1>4, <2>1, <2>2
  <1> HIDE DEF n
  <1>7. CASE At("callback")
    <2> DEFINE p == IF k < loop.pos THEN loop.pos - 1 ELSE loop.pos
    <2>1. loop'.at = "callback" /\ loop'.polled = loop.polled /\ loop'.pos = p
      <3>1. CASE k < loop.pos
        <4>1. loop' = [loop EXCEPT !.pos = loop.pos - 1]
          BY <1>1, <1>7, <3>1
        <4> QED
          BY <1>5, <1>7, <3>1, <4>1, LoopRecord DEF At
      <3>2. CASE ~(k < loop.pos)
        BY <1>1, <1>7, <3>2 DEF At
      <3> QED
        BY <3>1, <3>2
    <2>2. p \in 1..Len(n) /\ n[p] = w[loop.pos]
      <3>1. CASE k < loop.pos
        <4>1. /\ loop.pos - 1 \in 1..Len(n) /\ ~(loop.pos - 1 < k)
              /\ (loop.pos - 1) + 1 = loop.pos
          BY <1>2, <1>3, <1>4, <1>6, <1>7, <3>1
        <4> QED
          BY <1>6, <3>1, <4>1
      <3>2. CASE ~(k < loop.pos)
        <4>1. loop.pos \in 1..Len(n) /\ loop.pos < k
          BY <1>1, <1>2, <1>3, <1>4, <1>6, <1>7, <3>2
        <4> QED
          BY <1>6, <3>2, <4>1
      <3> QED
        BY <3>1, <3>2
    <2>3. ASSUME NEW i \in 1..Len(n), i >= p, n[i] \in loop.polled PROVE n[i] \in readable
      <3>1. \E j \in 1..Len(w) : n[i] = w[j] /\ j >= loop.pos
        <4>1. CASE i < k
          <5>1. i \in 1..Len(w) /\ i >= loop.pos
            BY <1>1, <1>2, <1>3, <1>4, <1>6, <1>7, <2>3, <4>1
          <5> QED
            BY <1>6, <4>1, <5>1
        <4>2. CASE ~(i < k)
          <5>1. i + 1 \in 1..Len(w) /\ i + 1 >= loop.pos
            BY <1>2, <1>3, <1>4, <1>6, <1>7, <2>3, <4>2
          <5> QED
            BY <1>6, <4>2, <5>1
        <4> QED
          BY <4>1, <4>2
      <3> QED
        BY <1>4, <1>7, <2>3, <3>1
    <2>4. p >= 1 /\ n[p] \in loop.polled
      BY <1>2, <1>4, <1>6, <1>7, <2>2
    <2> HIDE DEF p
    <2>5. mFdWatchers' = n /\ readable' = readable
      BY <1>1
    <2> QED
      BY <1>6, <2>1, <2>2, <2>3, <2>4, <2>5 DEF Walking, At
  <1>8. CASE ~At("callback")
    <2>1. loop'.at = "handler"
      BY <1>1, <1>8 DEF At
    <2> QED
      BY <1>1, <1>6, <2>1 DEF Walking, At
  <1> QED
    BY <1>7, <1>8

LEMMA WalkVisit ==
  ASSUME Typed, Walking, Visit PROVE Walking'
  <1> DEFINE f == mFdWatchers[loop.pos]
  <1>1. /\ loop.at = "dispatch" /\ mFdWatchers' = mFdWatchers /\ readable' = readable
        /\ loop' = IF loop.pos > Len(mFdWatchers)
                     THEN [loop EXCEPT !.at = "build", !.polled = {}, !.pos = 0]
                   ELSE IF f \in loop.polled THEN [loop EXCEPT !.at = "callback"]
                   ELSE [loop EXCEPT !.pos = @ + 1]
    BY DEF Visit, At
  <1>2. loop \in LoopStates /\ Len(mFdWatchers) \in Nat /\ loop.pos \in Nat
    BY LenProperties, LoopRecord DEF Typed, TypeOK
  <1>3. /\ Once(mFdWatchers) /\ loop.pos >= 1
        /\ \A i \in 1..Len(mFdWatchers) : i >= loop.pos /\ mFdWatchers[i] \in loop.polled
             => mFdWatchers[i] \in readable
    BY <1>1 DEF Walking
  <1>4. Once(mFdWatchers')
    BY <1>1, <1>3
  <1>5. CASE loop.pos > Len(mFdWatchers)
    <2>1. loop'.at = "build"
      BY <1>1, <1>2, <1>5, LoopRecord
    <2> QED
      BY <1>4, <2>1 DEF Walking, At
  <1>6. CASE ~(loop.pos > Len(mFdWatchers)) /\ f \in loop.polled
    <2>1. loop' = [loop EXCEPT !.at = "callback"]
      BY <1>1, <1>6
    <2>2. loop'.at = "callback" /\ loop'.pos = loop.pos /\ loop'.polled = loop.polled
      BY <1>2, <2>1, LoopRecord
    <2>3. loop.pos \in 1..Len(mFdWatchers)
      BY <1>2, <1>3, <1>6
    <2> QED
      BY <1>1, <1>3, <1>4, <1>6, <2>2, <2>3 DEF Walking, At
  <1>7. CASE ~(loop.pos > Len(mFdWatchers)) /\ f \notin loop.polled
    <2>1. loop' = [loop EXCEPT !.pos = loop.pos + 1]
      BY <1>1, <1>7
    <2>2. loop'.at = "dispatch" /\ loop'.pos = loop.pos + 1 /\ loop'.polled = loop.polled
      BY <1>1, <1>2, <2>1, LoopRecord
    <2>3. loop.pos + 1 >= 1
      BY <1>2
    <2>4. \A i \in 1..Len(mFdWatchers) : i >= loop.pos + 1 => i >= loop.pos
      BY <1>2
    <2>5. loop'.pos >= 1 /\ ~At("callback")'
      BY <2>2, <2>3 DEF At
    <2>6. \A i \in 1..Len(mFdWatchers') : i >= loop'.pos /\ mFdWatchers'[i] \in loop'.polled
             => mFdWatchers'[i] \in readable'
      BY <1>1, <1>3, <2>2, <2>4
    <2> QED
      BY <1>4, <2>5, <2>6 DEF Walking
  <1> QED
    BY <1>5, <1>6, <1>7

LEMMA WalkCallback ==
  ASSUME Typed, Walking, CallbackReturns PROVE Walking'
  <1> DEFINE f == mFdWatchers[loop.pos]
  <1>1. /\ loop.at = "callback" /\ mFdWatchers' = mFdWatchers
        /\ readable' = readable \ {f}
        /\ loop' = [loop EXCEPT !.at = "dispatch", !.pos = loop.pos + 1]
    BY DEF CallbackReturns, At
  <1>2. loop \in LoopStates /\ Len(mFdWatchers) \in Nat /\ loop.pos \in Nat
    BY LenProperties, LoopRecord DEF Typed, TypeOK
  <1>3. /\ Once(mFdWatchers) /\ loop.pos \in 1..Len(mFdWatchers)
        /\ \A i \in 1..Len(mFdWatchers) : i >= loop.pos /\ mFdWatchers[i] \in loop.polled
             => mFdWatchers[i] \in readable
    BY <1>1 DEF Walking, At
  <1>4. loop'.at = "dispatch" /\ loop'.pos = loop.pos + 1 /\ loop'.polled = loop.polled
    <2>1. loop.pos + 1 \in Nat
      BY <1>2
    <2> QED
      BY <1>1, <1>2, <2>1, LoopRecord
  <1>5. ASSUME NEW i \in 1..Len(mFdWatchers), i >= loop.pos + 1, mFdWatchers[i] \in loop.polled
        PROVE  mFdWatchers[i] \in readable \ {f}
    <2>1. i >= loop.pos /\ i # loop.pos
      BY <1>2, <1>5
    <2>2. mFdWatchers[i] # f
      BY <1>3, <2>1 DEF Once
    <2> QED
      BY <1>3, <1>5, <2>1, <2>2
  <1>6. loop.pos + 1 >= 1
    BY <1>2
  <1> QED
    BY <1>1, <1>3, <1>4, <1>5, <1>6 DEF Walking, At

LEMMA WalkStep ==
  ASSUME Typed, Walking, ~Duplicates, [Next]_vars PROVE Walking'
  <1>0. loop \in LoopStates /\ loop.lag + 1 \in Int
    BY LoopRecord DEF Typed, TypeOK, Lags
  <1>1. CASE vars' = vars
    BY <1>1, WalkUnchanged DEF vars
  <1>2. ASSUME NEW p \in Threads, Begins(p) PROVE Walking'
    <2>1. UNCHANGED <<mFdWatchers, readable, loop>>
      BY <1>2 DEF Begins, StopTimer, RestartTimer, SetInterval, SetRepeat, StartTimer,
                  CallTerminate, Calls
    <2> QED
      BY <2>1, WalkUnchanged
  <1>3. ASSUME NEW p \in Threads, Continues(p) PROVE Walking'
    <2>1. UNCHANGED <<mFdWatchers, readable, loop>>
      BY <1>3 DEF Continues, DoAdd, DoRemove, DoAgain, DoWake, DoTerminate, Does
    <2> QED
      BY <2>1, WalkUnchanged
  <1>4. ASSUME NEW f \in Fds, AddFdWatcher(f) \/ RemoveFdWatcher(f) \/ DataArrives(f)
        PROVE  Walking'
    BY <1>4, WalkAdd, WalkRemove, WalkUnchanged DEF DataArrives
  <1>5. CASE BuildFdSet
    <2> DEFINE w == {f \in Fds : Watched(f)}
    <2>1. loop' = [loop EXCEPT !.at = "timers", !.polled = w] /\ w \in AnyFds
      BY <1>5 DEF BuildFdSet, AnyFds
    <2> HIDE DEF w
    <2>2. loop'.at = "timers"
      BY <1>0, <2>1, LoopRecord
    <2> QED
      BY <1>5, <2>2, WalkUnchanged DEF BuildFdSet
  <1>6. ASSUME NEW l, NEW d, loop' = Waits(l, d), UNCHANGED <<mFdWatchers, readable>>,
               l \in LoopStates, d \in 0..WaitTime
        PROVE  Walking'
    <2>1. loop'.at \in {"timers", "select"}
      BY <1>6, WaitsTypes
    <2> QED
      BY <1>6, <2>1, WalkUnchanged
  <1>7. CASE RunNoTimer \/ RunTimer \/ HandlerReturns \/ ExecuteReturns
    <2>1. loop'.at \in {"timers", "select", "handler", "ran"}
      <3>1. CASE RunNoTimer
        <4> DEFINE l == [loop EXCEPT !.lag = 0]
                   d == IF mTimers = <<>> THEN WaitTime ELSE Timeout(left[Head(mTimers)])
        <4>1. loop' = Waits(l, d) /\ l \in LoopStates
          BY <1>0, <3>1, LoopRecord DEF RunNoTimer
        <4> HIDE DEF l, d
        <4> QED
          BY <4>1, LoopRecord DEF Waits
      <3>2. CASE RunTimer
        <4>1. loop' = [loop EXCEPT !.at = "handler", !.timer = Head(mTimers), !.lag = 0]
          BY <3>2 DEF RunTimer
        <4> QED
          BY <1>0, <4>1, LoopRecord
      <3>3. CASE HandlerReturns
        BY <1>0, <3>3, LoopRecord DEF HandlerReturns
      <3>4. CASE ExecuteReturns
        <4>1. PICK d : loop' = Waits(loop, d)
          BY <3>4 DEF ExecuteReturns, TimersRun
        <4> QED
          BY <1>0, <4>1, LoopRecord DEF Waits
      <3> QED
        BY <1>7, <3>1, <3>2, <3>3, <3>4
    <2>2. UNCHANGED <<mFdWatchers, readable>>
      BY <1>7 DEF RunNoTimer, RunTimer, HandlerReturns, ExecuteReturns, TimersRun
    <2> QED
      BY <2>1, <2>2, WalkUnchanged
  <1>8. CASE ReadCommand \/ SelectReturns
    <2>1. loop'.at \in {"ended", "build"}
      BY <1>0, <1>8, LoopRecord DEF ReadCommand, SelectReturns
    <2> QED
      BY <1>8, <2>1, WalkUnchanged DEF ReadCommand, SelectReturns
  <1>9. CASE SelectReady
    <2>1. /\ loop' = [loop EXCEPT !.at = "dispatch", !.polled = Ready, !.pos = 1,
                                  !.wait = 0, !.lag = 0]
          /\ UNCHANGED <<mFdWatchers, readable>>
      BY <1>9 DEF SelectReady
    <2>2. Ready \in AnyFds /\ Ready \subseteq readable
      BY DEF Ready, AnyFds, Typed, TypeOK
    <2>3. loop'.at = "dispatch" /\ loop'.pos = 1 /\ loop'.polled = Ready
      BY <1>0, <2>1, <2>2, LoopRecord
    <2> QED
      BY <2>1, <2>2, <2>3 DEF Walking, At, Once
  <1>10. CASE Visit \/ CallbackReturns
    BY <1>10, WalkVisit, WalkCallback
  <1>11. CASE Tick
    <2>1. loop'.at = loop.at /\ loop'.pos = loop.pos /\ loop'.polled = loop.polled
      BY <1>0, <1>11, LoopRecord DEF Tick
    <2> QED
      BY <1>11, <2>1, WalkUnchanged DEF Tick
  <1> QED
    BY <1>1, <1>2, <1>3, <1>4, <1>5, <1>7, <1>8, <1>9, <1>10, <1>11
    DEF Next, LoopStep, SelectTimesOut

LEMMA WalkInit == ASSUME Init PROVE Walking
  <1>1. Once(<<>>)
    BY EmptySeq DEF Once
  <1> QED
    BY <1>1, ListOfFds DEF Init, Walking, At

\* When a callback is called its descriptor has data, if no watcher is added
\* twice: nothing in the walk before it, no callback that adds or removes other
\* watchers, has read it.
THEOREM CallbacksFindData ==
  ASSUME ~Duplicates PROVE Spec => []CallbackHasData
  <1>1. Init => Typed /\ Walking
    BY TypeInit, WalkInit
  <1>2. Typed /\ Walking /\ [Next]_vars => (Typed /\ Walking)'
    BY TypeStep, WalkStep
  <1>3. Typed /\ Walking => CallbackHasData
    <2> SUFFICES ASSUME Walking, At("callback") PROVE mFdWatchers[loop.pos] \in readable
      BY DEF CallbackHasData
    <2>1. loop.pos \in 1..Len(mFdWatchers) /\ mFdWatchers[loop.pos] \in loop.polled
      BY DEF Walking
    <2>2. loop.pos >= loop.pos
      BY <2>1
    <2> QED
      BY <2>1, <2>2 DEF Walking, At
  <1> QED
    BY <1>1, <1>2, <1>3, PTL DEF Spec

----------------------------------------------------------------------------
(* The calls in progress *)

\* The parts of the invariant, for one thread, one timer and the timer whose
\* handler runs.
CallOf(p) ==
  \/ todo[p] \in {<<>>, Wake, Terminate}
  \/ \E t \in Timers : Owner[t] = p /\ todo[p] \in Changing(t)

PendingOf(t) ==
  /\ todo[Owner[t]] = Added(t) => running[t] /\ ~Stays(t)
  /\ todo[Owner[t]] \in Changing(t) \ {Added(t)} => ~running[t]
  /\ todo[Owner[t]] \in Starting(t) => ~Stays(t) \/ todo[Owner[t]] = RemovedThenAgain(t)
  /\ todo[Owner[t]] \notin Changing(t) => (running[t] <=> Stays(t))

HandlerOf(t) ==
  /\ Owner[t] # Loop => Listed(t)
  /\ ~repeat[t] => todo[Loop] \notin Changing(t)
  /\ ~repeat[t] /\ Listed(t) =>
       /\ Head(mTimers) = t
       /\ At("handler") =>
            /\ left[t] <= 0
            /\ \A u \in Timers : todo[Loop] = Added(u) => left[t] <= left[u]

WakesBy(t) ==
  \/ loop.wait = 0 \/ loop.wait <= left[t] + loop.lag
  \/ pipe # <<>> \/ \E p \in Threads : Wakes(todo[p])

Core ==
  /\ Typed /\ Once(mTimers) /\ (~At("ran") => Ordered(mTimers, left))
  /\ \A p \in Threads : CallOf(p)
  /\ todo[Loop] # <<>> => loop.at \in {"handler", "callback"}
  /\ \A t \in Timers : PendingOf(t)
  /\ mTimerLock = Loop <=> Executing
  /\ loop.timer # None <=> Executing
  /\ Executing => HandlerOf(loop.timer)
  /\ \A t \in Timers : left[t] >= -MaxLate
  /\ At("select") => \A t \in Timers : Listed(t) => WakesBy(t)

LEMMA CoreParts ==
  Core <=> /\ Typed /\ NoTimerTwice /\ InOrder /\ InCalls /\ Pending /\ InHandler
           /\ InTime /\ WillWake
  <1>1. InCalls <=> /\ \A p \in Threads : CallOf(p)
                    /\ todo[Loop] # <<>> => loop.at \in {"handler", "callback"}
    <2>1. \A p \in Threads :
            todo[p] \in {<<>>, <<<<"wake">>>>, <<<<"terminate">>>>}
                        \cup UNION {Changing(t) : t \in {u \in Timers : Owner[u] = p}}
            <=> CallOf(p)
      BY DEF CallOf, Wake, Terminate
    <2> QED
      BY <2>1 DEF InCalls
  <1>2. Pending <=> \A t \in Timers : PendingOf(t)
    BY DEF Pending, PendingOf
  <1>3. InHandler <=> /\ mTimerLock = Loop <=> Executing
                      /\ loop.timer # None <=> Executing
                      /\ Executing => HandlerOf(loop.timer)
    BY DEF InHandler, HandlerOf
  <1>4. WillWake <=> (At("select") => \A t \in Timers : Listed(t) => WakesBy(t))
    BY DEF WillWake, WakesBy, Wakes
  <1>5. /\ NoTimerTwice <=> Once(mTimers)
        /\ InOrder <=> (~At("ran") => Ordered(mTimers, left))
    BY DEF NoTimerTwice, Once, InOrder, Ordered
  <1> QED
    BY <1>1, <1>2, <1>3, <1>4, <1>5 DEF Core, InTime

\* Which call a thread is inside, by the step it takes, and what is left of it.
LEMMA NextStep ==
  ASSUME NEW p \in Threads, CallOf(p), todo[p] # <<>>
  PROVE  /\ \A t \in Timers : Head(todo[p]) = <<"add", t>> =>
              Owner[t] = p /\ todo[p] = Added(t) /\ Tail(todo[p]) = Wake
         /\ \A t \in Timers : Head(todo[p]) = <<"remove", t>> =>
              /\ Owner[t] = p
              /\ \/ todo[p] = Removed(t) /\ Tail(todo[p]) = Wake
                 \/ todo[p] = RemovedThenAgain(t) /\ Tail(todo[p]) = WakeAgain(t)
         /\ \A t \in Timers : Head(todo[p]) = <<"again", t>> =>
              Owner[t] = p /\ todo[p] = Again(t)
         /\ Head(todo[p]) = <<"terminate">> => todo[p] = Terminate /\ Tail(todo[p]) = <<>>
         /\ Head(todo[p]) = <<"wake">> =>
              \/ todo[p] = Wake /\ Tail(todo[p]) = <<>>
              \/ \E t \in Timers : /\ Owner[t] = p /\ todo[p] = WakeAgain(t)
                                   /\ Tail(todo[p]) = Again(t)
  <1>1. CASE todo[p] \in {Wake, Terminate}
    BY <1>1, ShortPrograms, StepsDiffer
  <1>2. CASE \E u \in Timers : Owner[u] = p /\ todo[p] \in Changing(u)
    <2>1. PICK u \in Timers : Owner[u] = p /\ todo[p] \in Changing(u)
      BY <1>2
    <2>2. todo[p] \in {Added(u), RemovedThenAgain(u), WakeAgain(u), Again(u), Removed(u)}
      BY <2>1, Changes
    <2>3. CASE todo[p] = Added(u)
      <3>1. Head(todo[p]) = <<"add", u>> /\ Tail(todo[p]) = Wake
        BY <2>3, Programs
      <3> QED
        BY <2>1, <2>3, <3>1, StepsDiffer
    <2>4. CASE todo[p] = RemovedThenAgain(u)
      <3>1. Head(todo[p]) = <<"remove", u>> /\ Tail(todo[p]) = WakeAgain(u)
        BY <2>4, Programs
      <3> QED
        BY <2>1, <2>4, <3>1, StepsDiffer
    <2>5. CASE todo[p] = WakeAgain(u)
      <3>1. Head(todo[p]) = <<"wake">> /\ Tail(todo[p]) = Again(u)
        BY <2>5, Programs
      <3> QED
        BY <2>1, <2>5, <3>1, StepsDiffer
    <2>6. CASE todo[p] = Again(u)
      <3>1. Head(todo[p]) = <<"again", u>>
        BY <2>6, Programs
      <3> QED
        BY <2>1, <2>6, <3>1, StepsDiffer
    <2>7. CASE todo[p] = Removed(u)
      <3>1. Head(todo[p]) = <<"remove", u>> /\ Tail(todo[p]) = Wake
        BY <2>7, Programs
      <3> QED
        BY <2>1, <2>7, <3>1, StepsDiffer
    <2> QED
      BY <2>2, <2>3, <2>4, <2>5, <2>6, <2>7
  <1> QED
    BY <1>1, <1>2 DEF CallOf

LEMMA ListedIn == \A t : Listed(t) <=> In(mTimers, t)
  BY DEF Listed, In

\* Except while runTimers() is about to erase a timer, what is in the list stays.
LEMMA WhatStays ==
  /\ ~At("ran") => \A u : Stays(u) <=> Listed(u)
  /\ ~At("ran")' => \A u : Stays(u)' <=> Listed(u)'
  BY DEF Stays, Erasing, At

\* The timer that is about to be erased is so because it is a one-shot.
LEMMA SameStays ==
  ASSUME NEW t, UNCHANGED <<mTimers, loop>>,
         At("ran") /\ loop.timer = t => repeat'[t] = repeat[t]
  PROVE  Stays(t)' <=> Stays(t)
  BY DEF Stays, Listed, Erasing, At

\* A timer that nobody touches, and that stays in the list or out of it.
LEMMA PendingSame ==
  ASSUME NEW t \in Timers, PendingOf(t), todo'[Owner[t]] = todo[Owner[t]],
         running'[t] = running[t], Stays(t)' <=> Stays(t)
  PROVE  PendingOf(t)'
  BY DEF PendingOf

\* A thread's call changes, and no other thread's.
LEMMA CallChanges ==
  ASSUME Typed, NEW p \in Threads, NEW c, todo' = [todo EXCEPT ![p] = c],
         \A q \in Threads : CallOf(q),
         c \in {<<>>, Wake, Terminate} \/ \E t \in Timers : Owner[t] = p /\ c \in Changing(t)
  PROVE  /\ \A q \in Threads : CallOf(q)'
         /\ todo'[p] = c /\ \A q \in Threads : q # p => todo'[q] = todo[q]
  <1>1. todo \in [Threads -> Seq(Steps)]
    BY DEF Typed, TypeOK
  <1>2. todo'[p] = c /\ \A q \in Threads : q # p => todo'[q] = todo[q]
    BY <1>1
  <1> QED
    BY <1>2 DEF CallOf

----------------------------------------------------------------------------
(* What the calls keep *)

\* Thread p goes on with its call on its timer t, outside the list: to a call
\* c, from none or from one that is to start t again.
LEMMA TimerChanges ==
  ASSUME Core, Typed', NEW p \in Threads, NEW t \in Timers, NEW c, Owner[t] = p,
         todo' = [todo EXCEPT ![p] = c], todo[p] \in {<<>>, Again(t)},
         c = <<>> \/ c \in Changing(t), p = Loop => loop.at \in {"handler", "callback"},
         UNCHANGED <<mTimers, mTimerLock, pipe, loop>>,
         \A u \in Timers : u # t => /\ left'[u] = left[u] /\ repeat'[u] = repeat[u]
                                    /\ running'[u] = running[u],
         PendingOf(t)', Stays(t) => left'[t] = left[t],
         left'[t] >= -MaxLate, c = Added(t) => left'[t] >= 0,
         Executing /\ loop.timer = t /\ p # Loop => repeat'[t] = repeat[t],
         At("handler") /\ loop.timer = t /\ p = Loop /\ ~repeat'[t] =>
           c = <<>> /\ (Listed(t) => Head(mTimers) = t /\ left[t] <= 0)
  PROVE  Core'
  <1>0. /\ \A u : Listed(u)' <=> Listed(u)
        /\ \A u : Listed(u) => u \in Timers
        /\ mTimers \in Seq(Timers) /\ \A i \in 1..Len(mTimers) : mTimers[i] \in Timers
    <2>1. mTimers \in Seq(Timers)
      BY DEF Core, Typed, TypeOK
    <2>2. \A i \in 1..Len(mTimers) : mTimers[i] \in Timers
      BY <2>1, ElementOfSeq
    <2> QED
      BY <2>1, <2>2 DEF Listed
  <1>1. \A u \in Timers : /\ Stays(u)' <=> Stays(u)
                          /\ Stays(u) => left'[u] = left[u]
                          /\ ~At("ran") /\ Listed(u) => left'[u] = left[u]
    <2> SUFFICES ASSUME NEW u \in Timers
                 PROVE  (Stays(u)' <=> Stays(u)) /\ (Stays(u) => left'[u] = left[u])
      BY WhatStays
    <2>1. At("ran") /\ loop.timer = u => repeat'[u] = repeat[u]
      BY DEF Executing, At
    <2> QED
      BY <2>1, SameStays
  <1>2. Once(mTimers)' /\ (~At("ran") => Ordered(mTimers, left)')
    <2>1. ~At("ran") => \A i \in 1..Len(mTimers) : left'[mTimers[i]] = left[mTimers[i]]
      BY <1>0, <1>1 DEF Listed
    <2> QED
      BY <2>1 DEF Core, Once, Ordered
  <1>3. /\ \A q \in Threads : CallOf(q)'
        /\ todo'[p] = c /\ \A q \in Threads : q # p => todo'[q] = todo[q]
    BY CallChanges DEF Core
  <1>4. todo'[Loop] # <<>> => loop'.at \in {"handler", "callback"}
    BY <1>3, LoopAssumption DEF Core, Threads
  <1>5. ASSUME NEW u \in Timers PROVE PendingOf(u)'
    <2>1. CASE u = t
      BY <2>1
    <2>2. CASE u # t /\ Owner[u] # p
      <3>1. Owner[u] \in Threads
        BY LoopAssumption
      <3>2. PendingOf(u) /\ todo'[Owner[u]] = todo[Owner[u]] /\ running'[u] = running[u]
        BY <1>3, <2>2, <3>1 DEF Core
      <3> QED
        BY <1>1, <3>2, PendingSame
    <2>3. CASE u # t /\ Owner[u] = p
      <3>1. PendingOf(u) /\ running'[u] = running[u] /\ todo'[Owner[u]] = c
        BY <1>3, <2>3 DEF Core
      <3>2. todo[Owner[u]] \notin Changing(u) /\ c \notin Changing(u)
        <4>1. Changing(t) \cap Changing(u) = {} /\ <<>> \notin Changing(u)
          BY <2>3, CallsDiffer
        <4>2. Again(t) \in Changing(t)
          BY Changes
        <4> QED
          BY <2>3, <4>1, <4>2
      <3>3. Added(u) \in Changing(u) /\ Starting(u) \subseteq Changing(u)
        BY Changes
      <3> QED
        BY <1>1, <3>1, <3>2, <3>3 DEF PendingOf
    <2> QED
      BY <2>1, <2>2, <2>3
  <1>6. ASSUME Executing PROVE HandlerOf(loop.timer)'
    <2>0. PICK h \in Timers : h = loop.timer /\ HandlerOf(h)
      BY <1>6 DEF Core, Typed
    <2>a. /\ p = Loop => At("handler")
          /\ At("handler") /\ Listed(h) => left'[h] = left[h]
      BY <1>1, <1>6, <2>0 DEF Executing, At
    <2>1. Owner[h] # Loop => Listed(h)'
      BY <1>0, <2>0 DEF HandlerOf
    <2>2. CASE p # Loop
      <3>1. todo'[Loop] = todo[Loop]
        BY <1>3, <2>2 DEF Threads
      <3>2. repeat'[h] = repeat[h]
        BY <1>6, <2>0, <2>2
      <3>3. ASSUME NEW u \in Timers, todo[Loop] = Added(u) PROVE left'[u] = left[u]
        <4>1. Loop \in Threads /\ CallOf(Loop) /\ Added(u) # <<>>
          BY Programs DEF Core, Threads
        <4>2. Head(todo[Loop]) = <<"add", u>>
          BY <3>3, Programs
        <4>3. Owner[u] = Loop
          BY <3>3, <4>1, <4>2, NextStep
        <4> QED
          BY <2>2, <4>3
      <3> QED
        BY <1>0, <2>0, <2>a, <2>1, <3>1, <3>2, <3>3 DEF HandlerOf, At
    <2>3. CASE p = Loop /\ h # t
      <3>1. todo'[Loop] = c /\ repeat'[h] = repeat[h]
        BY <1>3, <2>0, <2>3
      <3>2. c \notin Changing(h)
        BY <2>0, <2>3, CallsDiffer
      <3>3. ASSUME NEW u \in Timers, c = Added(u), ~repeat[h], Listed(h)
            PROVE  left'[h] <= left'[u]
        <4>1. u = t
          <5>1. c # <<>> /\ c \in Changing(u)
            BY <3>3, Programs, Changes
          <5> QED
            BY <5>1, CallsDiffer
        <4>2. left[h] <= 0 /\ left'[h] = left[h] /\ left'[t] >= 0
          BY <2>0, <2>a, <2>3, <3>3, <4>1 DEF HandlerOf
        <4>3. left[h] \in Int /\ left'[t] \in Int
          BY <2>0 DEF Core, Typed, TypeOK
        <4> QED
          BY <4>1, <4>2, <4>3
      <3> QED
        BY <1>0, <2>0, <2>a, <2>1, <2>3, <3>1, <3>2, <3>3 DEF HandlerOf
    <2>4. CASE p = Loop /\ h = t
      <3>1. ~repeat'[h] => /\ c = <<>> /\ (Listed(h) => Head(mTimers) = h /\ left'[h] <= 0)
                           /\ todo'[Loop] = <<>>
        BY <1>3, <2>0, <2>a, <2>4
      <3>2. <<>> \notin Changing(h) /\ \A u \in Timers : Added(u) # <<>>
        BY <2>0, CallsDiffer, Programs
      <3> QED
        BY <1>0, <2>0, <2>1, <3>1, <3>2 DEF HandlerOf
    <2>5. HandlerOf(h)' /\ loop'.timer = h
      BY <2>0, <2>2, <2>3, <2>4
    <2> QED
      BY <2>5 DEF HandlerOf, Listed, At
  <1>7. ASSUME At("select") PROVE \A u \in Timers : Listed(u)' => WakesBy(u)'
    <2> SUFFICES ASSUME NEW u \in Timers, Listed(u) PROVE WakesBy(u)'
      BY <1>0
    <2>1. WakesBy(u) /\ left'[u] = left[u]
      BY <1>1, <1>7 DEF Core, At
    <2>2. ~Wakes(<<>>) /\ ~Wakes(Again(t))
      <3>1. Len(<<>>) = 0 /\ 1..0 = {}
        BY EmptySeq
      <3>2. Len(Again(t)) = 1 /\ Again(t)[1] = <<"again", t>> /\ <<"again", t>> # <<"wake">>
        BY StepsDiffer DEF Again
      <3> QED
        BY <3>1, <3>2 DEF Wakes
    <2>3. \A q \in Threads : Wakes(todo[q]) => Wakes(todo'[q])
      BY <1>3, <2>2
    <2> QED
      BY <2>1, <2>3 DEF WakesBy, Wakes
  <1>8. \A u \in Timers : left'[u] >= -MaxLate
    BY DEF Core
  <1> QED
    BY <1>2, <1>3, <1>4, <1>5, <1>6, <1>7, <1>8 DEF Core, At, Executing

\* Thread p goes on to a call c that changes no timer, or starts again the one
\* that its call was to start again; the list stays as it is.
LEMMA NoTimerChanges ==
  ASSUME Core, Typed', NEW p \in Threads, NEW c, todo' = [todo EXCEPT ![p] = c],
         \/ c \in {<<>>, Terminate} /\ todo[p] \in {<<>>, Wake, Terminate}
         \/ \E t \in Timers : Owner[t] = p /\ todo[p] = WakeAgain(t) /\ c = Again(t),
         p = Loop => loop.at \in {"handler", "callback"},
         UNCHANGED <<left, repeat, running, mTimers, mTimerLock, loop>>,
         pipe' # <<>> \/ (pipe' = pipe /\ todo[p] = <<>>)
  PROVE  Core'
  <1>0. /\ \A u : (Listed(u)' <=> Listed(u)) /\ (Stays(u)' <=> Stays(u))
        /\ Once(mTimers)' /\ (~At("ran") => Ordered(mTimers, left)')
    BY SameStays DEF Core, Listed, Once, Ordered
  <1>1. c \in {<<>>, Wake, Terminate} \/ \E t \in Timers : Owner[t] = p /\ c \in Changing(t)
    BY Changes
  <1>2. /\ \A q \in Threads : CallOf(q)'
        /\ todo'[p] = c /\ \A q \in Threads : q # p => todo'[q] = todo[q]
    BY <1>1, CallChanges DEF Core
  <1>3. todo'[Loop] # <<>> => loop'.at \in {"handler", "callback"}
    BY <1>2, LoopAssumption DEF Core, Threads
  <1>4. ASSUME NEW u \in Timers
        PROVE  /\ c = Added(u) => FALSE
               /\ c \in Changing(u) <=> todo[p] \in Changing(u)
               /\ todo[p] \in Changing(u) => c # RemovedThenAgain(u) /\ c \in Starting(u)
                    /\ todo[p] # RemovedThenAgain(u) /\ todo[p] # Added(u)
                    /\ todo[p] \in Starting(u)
    <2>1. /\ <<>> \notin Changing(u) /\ Wake \notin Changing(u) /\ Terminate \notin Changing(u)
          /\ Added(u) \in Changing(u)
      BY CallsDiffer, Changes
    <2>2. CASE c \in {<<>>, Terminate} /\ todo[p] \in {<<>>, Wake, Terminate}
      BY <2>1, <2>2
    <2>3. CASE \E t \in Timers : Owner[t] = p /\ todo[p] = WakeAgain(t) /\ c = Again(t)
      <3>1. PICK t \in Timers : Owner[t] = p /\ todo[p] = WakeAgain(t) /\ c = Again(t)
        BY <2>3
      <3>2. WakeAgain(t) \in Changing(t) /\ Again(t) \in Changing(t)
        BY Changes
      <3>3. /\ \A v \in {WakeAgain(t), Again(t)} : v # Added(u) /\ v # RemovedThenAgain(u)
            /\ Changing(t) \cap Changing(u) # {} => t = u
        BY CallsDiffer
      <3>4. WakeAgain(u) \in Starting(u) /\ Again(u) \in Starting(u)
        BY Changes
      <3> QED
        BY <3>1, <3>2, <3>3, <3>4
    <2> QED
      BY <2>2, <2>3
  <1>5. ASSUME NEW u \in Timers PROVE PendingOf(u)'
    <2>1. PendingOf(u) /\ Owner[u] \in Threads
      BY LoopAssumption DEF Core
    <2>2. CASE Owner[u] # p
      BY <1>0, <1>2, <2>1, <2>2, PendingSame
    <2>3. CASE Owner[u] = p
      <3>1. todo'[Owner[u]] = c
        BY <1>2, <2>3
      <3>2. CASE todo[p] \in Changing(u)
        <4>1. ~running[u] /\ ~Stays(u)
          BY <1>4, <2>1, <2>3, <3>2 DEF PendingOf
        <4> QED
          BY <1>0, <1>4, <3>1, <3>2, <4>1 DEF PendingOf
      <3>3. CASE todo[p] \notin Changing(u)
        <4>1. c \notin Changing(u) /\ c # Added(u) /\ c \notin Starting(u)
          BY <1>4, <3>3, Changes
        <4>2. running[u] <=> Stays(u)
          BY <2>1, <2>3, <3>3 DEF PendingOf
        <4> QED
          BY <1>0, <3>1, <4>1, <4>2 DEF PendingOf
      <3> QED
        BY <3>2, <3>3
    <2> QED
      BY <2>2, <2>3
  <1>6. ASSUME Executing PROVE HandlerOf(loop.timer)'
    <2>0. PICK h \in Timers : h = loop.timer /\ HandlerOf(h)
      BY <1>6 DEF Core, Typed
    <2>1. Loop \in Threads
      BY DEF Threads
    <2>2. /\ todo'[Loop] \in Changing(h) => todo[Loop] \in Changing(h)
          /\ \A u \in Timers : todo'[Loop] = Added(u) => todo[Loop] = Added(u)
      BY <1>2, <1>4, <2>0, <2>1
    <2>3. HandlerOf(h)'
      BY <1>0, <2>0, <2>2 DEF HandlerOf, At
    <2> QED
      BY <2>0, <2>3 DEF HandlerOf, Listed, At
  <1>7. ASSUME At("select") PROVE \A u \in Timers : Listed(u)' => WakesBy(u)'
    <2> SUFFICES ASSUME NEW u \in Timers, Listed(u), pipe' = pipe, todo[p] = <<>>
                 PROVE  WakesBy(u)'
      BY <1>0 DEF WakesBy
    <2>1. WakesBy(u)
      BY <1>7 DEF Core
    <2>2. ~Wakes(<<>>)
      <3>1. Len(<<>>) = 0 /\ 1..0 = {}
        BY EmptySeq
      <3> QED
        BY <3>1 DEF Wakes
    <2>3. \A q \in Threads : Wakes(todo[q]) => Wakes(todo'[q])
      BY <1>2, <2>2
    <2> QED
      BY <2>1, <2>3 DEF WakesBy, Wakes
  <1> QED
    BY <1>0, <1>2, <1>3, <1>5, <1>6, <1>7 DEF Core, At, Executing

LEMMA BeginStep ==
  ASSUME Core, ~SelfRestart, ~Turns, Typed', NEW p \in Threads, Begins(p) PROVE Core'
  <1>0. /\ TimersTyped /\ left \in [Timers -> Int] /\ todo \in [Threads -> Seq(Steps)]
        /\ MaxLate \in Nat /\ Intervals \subseteq Nat /\ TimerInfinite \in Nat
    <2>1. TimersTyped /\ CallsTyped
      BY TypedParts DEF Core
    <2> QED
      BY <2>1, LoopAssumption, IntervalTypes DEF TimersTyped, CallsTyped
  <1>1. ASSUME MayCall(p), NEW c, Calls(p, c)
        PROVE  /\ todo' = [todo EXCEPT ![p] = c] /\ todo[p] = <<>>
               /\ p = Loop => loop.at \in {"handler", "callback"}
               /\ UNCHANGED <<mTimers, mTimerLock, pipe, loop>>
    BY <1>1 DEF MayCall, Calls
  <1>2. ASSUME NEW t \in Timers, Owner[t] = p, todo[p] = <<>>
        PROVE  running[t] <=> Stays(t)
    <2>1. PendingOf(t) /\ <<>> \notin Changing(t)
      BY CallsDiffer DEF Core
    <2> QED
      BY <1>2, <2>1 DEF PendingOf
  <1>3. ASSUME NEW t \in Timers, MayCall(p), NEW c, Calls(p, c),
               loop.timer = t /\ p # Loop => repeat'[t] = repeat[t]
        PROVE  Stays(t)' <=> Stays(t)
    <2>1. At("ran") => p # Loop
      BY <1>1, <1>3 DEF At
    <2> QED
      BY <1>1, <1>3, <2>1, SameStays
  <1>4. ASSUME NEW t \in Timers
        PROVE  /\ Added(t) \in Starting(t) /\ Removed(t) \in Changing(t) \ Starting(t)
               /\ Removed(t) # Added(t) /\ RemovedThenAgain(t) # Added(t)
               /\ RemovedThenAgain(t) \in Starting(t) /\ <<>> \notin Changing(t)
               /\ Starting(t) \subseteq Changing(t) /\ Added(t) # <<>>
    <2>1. Removed(t) \notin Starting(t) /\ Added(t) # <<>>
      BY Changes, CallsDiffer, Programs
    <2> QED
      BY <2>1, Changes, CallsDiffer
  \* start() arms a timer that is not running, so not in the list.
  <1>5. ASSUME NEW t \in Timers, NEW i \in Intervals \cup {TimerInfinite},
               NEW r \in BOOLEAN, Arms(t, i, r), ~running[t],
               MayCall(p), MayUse(p, t), MayTurn(p, t, r), Calls(p, Added(t)),
               InOwnHandler(p, t) => r
        PROVE  Core'
    <2>1. /\ Owner[t] = p /\ todo[p] = <<>> /\ todo' = [todo EXCEPT ![p] = Added(t)]
          /\ p = Loop => loop.at \in {"handler", "callback"}
          /\ UNCHANGED <<mTimers, mTimerLock, pipe, loop>>
      BY <1>1, <1>5 DEF MayUse
    <2>2. /\ \A u \in Timers : u # t => /\ left'[u] = left[u] /\ repeat'[u] = repeat[u]
                                        /\ running'[u] = running[u]
          /\ left'[t] = i /\ repeat'[t] = r /\ running'[t] /\ i \in Nat
      BY <1>0, <1>5 DEF Arms, TimersTyped
    <2>3. ~Stays(t) /\ ~Stays(t)'
      <3>1. loop.timer = t /\ p # Loop => repeat'[t] = repeat[t]
        BY <1>5, <2>2 DEF MayTurn
      <3> QED
        BY <1>2, <1>3, <1>5, <2>1, <3>1
    <2>4. todo'[Owner[t]] = Added(t)
      BY <1>0, <2>1
    <2>5. PendingOf(t)'
      BY <1>4, <2>1, <2>2, <2>3, <2>4 DEF PendingOf
    <2>6. left'[t] >= 0 /\ left'[t] >= -MaxLate
      BY <1>0, <2>2
    <2>7. /\ loop.timer = t /\ p # Loop => repeat'[t] = repeat[t]
          /\ At("handler") /\ loop.timer = t /\ p = Loop => repeat'[t]
      BY <1>5, <2>2 DEF InOwnHandler, MayTurn
    <2>8. Added(t) \in Changing(t)
      BY <1>4
    <2> QED
      BY <2>1, <2>2, <2>3, <2>5, <2>6, <2>7, <2>8, TimerChanges
  \* The other calls leave the expiry.
  <1>6. ASSUME NEW t \in Timers, NEW c, left' = left, MayCall(p), Owner[t] = p, Calls(p, c),
               c = <<>> \/ c \in Changing(t), c # Added(t), PendingOf(t)',
               \A u \in Timers : u # t => repeat'[u] = repeat[u] /\ running'[u] = running[u],
               loop.timer = t /\ p # Loop => repeat'[t] = repeat[t],
               At("handler") /\ loop.timer = t /\ p = Loop /\ ~repeat'[t] =>
                 c = <<>> /\ (Listed(t) => Head(mTimers) = t /\ left[t] <= 0)
        PROVE  Core'
    <2>1. \A u \in Timers : left'[u] = left[u] /\ left[u] >= -MaxLate
      BY <1>6 DEF Core
    <2> QED
      BY <1>1, <1>6, <2>1, TimerChanges
  <1>7. ASSUME NEW t \in Timers, StopTimer(p, t) PROVE Core'
    <2>1. /\ Owner[t] = p /\ Calls(p, Removed(t)) /\ MayCall(p) /\ left' = left
          /\ repeat' = repeat /\ running' = [running EXCEPT ![t] = FALSE]
          /\ At("handler") /\ loop.timer = t /\ p = Loop => repeat[t]
      BY <1>7 DEF StopTimer, MayUse, InOwnHandler
    <2>2. ~running'[t] /\ \A u \in Timers : u # t => running'[u] = running[u]
      BY <1>0, <2>1 DEF TimersTyped
    <2>3. todo'[Owner[t]] = Removed(t)
      BY <1>0, <1>1, <2>1
    <2>4. PendingOf(t)'
      BY <1>4, <2>2, <2>3 DEF PendingOf
    <2>5. Removed(t) \in Changing(t) /\ Removed(t) # Added(t)
      BY <1>4
    <2> QED
      BY <1>6, <2>1, <2>2, <2>4, <2>5
  <1>8. ASSUME NEW t \in Timers, RestartTimer(p, t) PROVE Core'
    <2>1. CASE running[t]
      <3>1. /\ Owner[t] = p /\ Calls(p, RemovedThenAgain(t)) /\ MayCall(p) /\ left' = left
            /\ repeat' = repeat /\ running' = [running EXCEPT ![t] = FALSE]
            /\ At("handler") /\ loop.timer = t /\ p = Loop => repeat[t]
        BY <1>8, <2>1 DEF RestartTimer, MayUse, InOwnHandler
      <3>2. ~running'[t] /\ \A u \in Timers : u # t => running'[u] = running[u]
        BY <1>0, <3>1 DEF TimersTyped
      <3>3. todo'[Owner[t]] = RemovedThenAgain(t)
        BY <1>0, <1>1, <3>1
      <3>4. PendingOf(t)'
        BY <1>4, <3>2, <3>3 DEF PendingOf
      <3>5. RemovedThenAgain(t) \in Changing(t) /\ RemovedThenAgain(t) # Added(t)
        BY <1>4
      <3> QED
        BY <1>6, <3>1, <3>2, <3>4, <3>5
    <2>2. CASE ~running[t]
      <3>1. /\ Arms(t, interval[t], repeat[t]) /\ MayCall(p) /\ MayUse(p, t)
            /\ Calls(p, Added(t)) /\ (InOwnHandler(p, t) => repeat[t])
            /\ MayTurn(p, t, repeat[t])
        BY <1>8, <2>2 DEF RestartTimer, MayUse, MayTurn
      <3>2. interval[t] \in Intervals \cup {TimerInfinite} /\ repeat[t] \in BOOLEAN
        BY <1>0 DEF TimersTyped
      <3> QED
        BY <1>5, <2>2, <3>1, <3>2
    <2> QED
      BY <2>1, <2>2
  <1>9. ASSUME NEW t \in Timers, NEW i \in Intervals, SetInterval(p, t, i) PROVE Core'
    <2>1. /\ Owner[t] = p /\ Calls(p, <<>>) /\ MayCall(p) /\ left' = left
          /\ repeat' = repeat /\ running' = running
          /\ At("handler") /\ loop.timer = t /\ p = Loop => repeat[t]
      BY <1>9 DEF SetInterval, MayUse, InOwnHandler
    <2>2. todo'[Owner[t]] = todo[Owner[t]]
      BY <1>0, <1>1, <2>1
    <2>3. PendingOf(t)'
      BY <1>3, <2>1, <2>2, PendingSame DEF Core
    <2>4. <<>> # Added(t)
      BY <1>4
    <2> QED
      BY <1>6, <2>1, <2>3, <2>4
  <1>10. ASSUME NEW t \in Timers, NEW r \in BOOLEAN, SetRepeat(p, t, r) PROVE Core'
    <2>1. /\ Owner[t] = p /\ Calls(p, <<>>) /\ MayCall(p) /\ left' = left
          /\ repeat' = [repeat EXCEPT ![t] = r] /\ running' = running
          /\ loop.timer = t /\ p # Loop => r = repeat[t]
      BY <1>10 DEF SetRepeat, MayUse, MayTurn
    <2>2. todo'[Owner[t]] = todo[Owner[t]]
      BY <1>0, <1>1, <2>1
    <2>4. \A u \in Timers : u # t => repeat'[u] = repeat[u]
      BY <1>0, <2>1 DEF TimersTyped
    <2>5. repeat'[t] = r
      BY <1>0, <2>1 DEF TimersTyped
    <2>3. PendingOf(t)'
      BY <1>3, <2>1, <2>2, <2>5, PendingSame DEF Core
    <2>6. At("handler") /\ loop.timer = t /\ p = Loop /\ ~repeat'[t] =>
            (Listed(t) => Head(mTimers) = t /\ left[t] <= 0)
      BY <1>10, <2>5 DEF SetRepeat, MayMakeOneShot, InOwnHandler
    <2>7. <<>> # Added(t)
      BY <1>4
    <2> QED
      BY <1>6, <2>1, <2>3, <2>4, <2>5, <2>6, <2>7
  <1>11. ASSUME NEW t \in Timers, NEW i \in Intervals, NEW r \in BOOLEAN,
                StartTimer(p, t, i, r)
         PROVE  Core'
    <2>1. /\ Arms(t, i, r) /\ MayCall(p) /\ MayUse(p, t) /\ Calls(p, Added(t)) /\ ~running[t]
          /\ (InOwnHandler(p, t) => r) /\ MayTurn(p, t, r)
      BY <1>11 DEF StartTimer
    <2> QED
      BY <1>5, <2>1
  <1>12. CASE CallTerminate(p)
    <2>1. MayCall(p) /\ Calls(p, Terminate) /\ UNCHANGED <<left, repeat, running>>
      BY <1>12 DEF CallTerminate, Terminate, timerFields
    <2>2. /\ todo' = [todo EXCEPT ![p] = Terminate] /\ todo[p] = <<>>
          /\ p = Loop => loop.at \in {"handler", "callback"}
          /\ UNCHANGED <<mTimers, mTimerLock, pipe, loop>>
      BY <1>1, <2>1
    <2> QED
      BY <2>1, <2>2, NoTimerChanges
  <1> QED
    BY <1>7, <1>8, <1>9, <1>10, <1>11, <1>12 DEF Begins

\* Nothing in an ordered list is before its first.
LEMMA LeastFirst ==
  ASSUME NEW list \in Seq(Timers), NEW e \in [Timers -> Int], Ordered(list, e),
         \/ list # <<>> \/ \E x : In(list, x)
  PROVE  /\ Head(list) \in Timers /\ Head(list) = list[1] /\ list # <<>>
         /\ 1 \in 1..Len(list) /\ In(list, Head(list))
         /\ \A x : In(list, x) => e[Head(list)] <= e[x]
  <1>1. list # <<>>
    BY EmptySeq DEF In
  <1>2. /\ Len(list) \in Nat \ {0} /\ Head(list) = list[1] /\ Head(list) \in Timers
    BY <1>1, Unqueue
  <1>3. ASSUME NEW i \in 1..Len(list) PROVE e[Head(list)] <= e[list[i]]
    <2>1. CASE i = 1
      BY <1>2, <2>1
    <2>2. CASE i # 1
      <3>1. 1 < i /\ 1 \in 1..Len(list)
        BY <1>2, <2>2
      <3> QED
        BY <1>2, <3>1 DEF Ordered
    <2> QED
      BY <2>1, <2>2
  <1>4. 1 \in 1..Len(list)
    BY <1>2
  <1> QED
    BY <1>1, <1>2, <1>3, <1>4 DEF In

\* A thread that goes on with a call and has the lock: no timer is about to be
\* erased.
LEMMA NoneErased ==
  ASSUME Core, NEW p \in Threads, HasLock(p), todo[p] # <<>>, loop' = loop
  PROVE  /\ ~At("ran") /\ ~At("ran")'
         /\ \A u : (Stays(u) <=> Listed(u)) /\ (Stays(u)' <=> Listed(u)')
         /\ Executing => At("handler") /\ p = Loop
  <1>1. ASSUME Executing PROVE At("handler") /\ p = Loop
    <2>1. mTimerLock = Loop /\ Loop # None
      BY <1>1, LoopAssumption DEF Core
    <2>2. p = Loop
      BY <2>1 DEF HasLock
    <2> QED
      BY <1>1, <2>2 DEF Core, Executing, At
  <1>2. ~At("ran") /\ ~At("ran")'
    BY <1>1 DEF Executing, At
  <1> QED
    BY <1>1, <1>2, WhatStays

\* Thread p, with the lock, puts its timer t in the list or takes it out; no
\* other timer is in the list or out of it for that, and a one-shot timer whose
\* handler runs stays the first.
LEMMA ListChanges ==
  ASSUME Core, Typed', NEW p \in Threads, NEW t \in Timers, NEW c, Owner[t] = p,
         HasLock(p), todo[p] \in Changing(t), todo' = [todo EXCEPT ![p] = c],
         c \in {Wake, WakeAgain(t)},
         UNCHANGED <<left, interval, repeat, running, pipe, mTimerLock, loop>>,
         Once(mTimers'), Ordered(mTimers', left), PendingOf(t)',
         \A u : u # t => (In(mTimers', u) <=> In(mTimers, u)),
         \A u \in Timers : /\ At("handler") /\ loop.timer = u /\ u # t /\ ~repeat[u]
                           /\ Listed(u)
                           => Head(mTimers') = u
  PROVE  Core'
  <1>a. todo[p] # <<>> /\ (p = Loop => loop.at \in {"handler", "callback"})
    BY CallsDiffer DEF Core
  <1>b. /\ ~At("ran") /\ \A u : (Stays(u) <=> Listed(u)) /\ (Stays(u)' <=> Listed(u)')
        /\ Executing => At("handler") /\ p = Loop
    BY <1>a, NoneErased
  <1>0. \A u : u # t => (Listed(u)' <=> Listed(u)) /\ (Stays(u)' <=> Stays(u))
    BY <1>b DEF Listed, In
  <1>1. Once(mTimers)' /\ Ordered(mTimers, left)'
    BY DEF Once, Ordered
  <1>2. /\ \A q \in Threads : CallOf(q)'
        /\ todo'[p] = c /\ \A q \in Threads : q # p => todo'[q] = todo[q]
    <2>1. c \in {<<>>, Wake, Terminate} \/ \E v \in Timers : Owner[v] = p /\ c \in Changing(v)
      BY Changes
    <2> QED
      BY <2>1, CallChanges DEF Core
  <1>4. todo'[Loop] # <<>> => loop'.at \in {"handler", "callback"}
    BY <1>a, <1>2, LoopAssumption DEF Core, Threads
  <1>6. ASSUME NEW u \in Timers, u # t
        PROVE  c \notin Changing(u) /\ todo[p] \notin Changing(u) /\ c # Added(u)
    <2>1. Wake \notin Changing(u) /\ Changing(t) \cap Changing(u) = {}
      BY <1>6, CallsDiffer
    <2>2. WakeAgain(t) \in Changing(t) /\ Added(u) \in Changing(u)
      BY Changes
    <2> QED
      BY <2>1, <2>2
  <1>7. ASSUME NEW u \in Timers PROVE PendingOf(u)'
    <2>1. PendingOf(u) /\ Owner[u] \in Threads
      BY LoopAssumption DEF Core
    <2>2. CASE u = t
      BY <2>2
    <2>3. CASE u # t /\ Owner[u] # p
      BY <1>0, <1>2, <2>1, <2>3, PendingSame
    <2>4. CASE u # t /\ Owner[u] = p
      <3>1. todo'[Owner[u]] = c /\ Starting(u) \subseteq Changing(u) /\ Added(u) \in Changing(u)
        BY <1>2, <2>4, Changes
      <3>2. running[u] <=> Stays(u)
        BY <1>6, <2>1, <2>4 DEF PendingOf
      <3> QED
        BY <1>0, <1>6, <2>4, <3>1, <3>2 DEF PendingOf
    <2> QED
      BY <2>2, <2>3, <2>4
  <1>8. ASSUME Executing PROVE HandlerOf(loop.timer)'
    <2>0. PICK h \in Timers : h = loop.timer /\ HandlerOf(h)
      BY <1>8 DEF Core, Typed
    <2>1. p = Loop /\ todo'[Loop] = c /\ At("handler")
      BY <1>b, <1>2, <1>8
    <2>2. CASE h = t
      <3>1. repeat[h] /\ Owner[h] = Loop
        BY <2>0, <2>1, <2>2 DEF HandlerOf
      <3> QED
        BY <2>0, <3>1 DEF HandlerOf, At
    <2>3. CASE h # t
      <3>1. c \notin Changing(h)
        BY <1>6, <2>3
      <3>2. ASSUME NEW u \in Timers, c = Added(u) PROVE FALSE
        BY <3>2, Programs, ShortPrograms, CallsDiffer, StepsDiffer
      <3>3. HandlerOf(h)'
        BY <1>0, <2>0, <2>1, <2>3, <3>1, <3>2 DEF HandlerOf, At
      <3> QED
        BY <2>0, <3>3 DEF HandlerOf, Listed, At
    <2> QED
      BY <2>2, <2>3
  <1>9. \A u : WakesBy(u)'
    <2>1. Wakes(todo'[p])
      BY <1>2, WhoWakes
    <2> QED
      BY <2>1 DEF WakesBy, Wakes
  <1>10. \A u \in Timers : left'[u] >= -MaxLate
    BY DEF Core
  <1> QED
    BY <1>1, <1>2, <1>4, <1>7, <1>8, <1>9, <1>10 DEF Core, At, Executing

LEMMA AddStep ==
  ASSUME Core, Typed', NEW p \in Threads, NEW t \in Timers, DoAdd(p, t) PROVE Core'
  <1>1. /\ HasLock(p) /\ todo[p] # <<>> /\ Head(todo[p]) = <<"add", t>>
        /\ todo' = [todo EXCEPT ![p] = Tail(todo[p])]
        /\ mTimers' = SortTimers(Append(mTimers, t), left)
        /\ UNCHANGED <<left, interval, repeat, running, pipe, mTimerLock, loop>>
    BY DEF DoAdd, Does
  <1>2. Owner[t] = p /\ todo[p] = Added(t) /\ Tail(todo[p]) = Wake
    BY <1>1, NextStep DEF Core
  <1>a. /\ ~At("ran") /\ \A u : (Stays(u) <=> Listed(u)) /\ (Stays(u)' <=> Listed(u)')
        /\ Executing => p = Loop
    BY <1>1, NoneErased
  <1>3. running[t] /\ ~In(mTimers, t)
    BY <1>a, <1>2, ListedIn DEF Core, PendingOf
  <1>4. /\ mTimers \in Seq(Timers) /\ left \in [Timers -> Int] /\ Len(mTimers) \in Nat
        /\ todo \in [Threads -> Seq(Steps)]
    BY LenProperties DEF Core, Typed, TypeOK
  <1> DEFINE list == Append(mTimers, t)
             s == SortTimers(list, left)
  <1>5. /\ list \in Seq(Timers) /\ Len(list) = Len(mTimers) + 1
        /\ \A i \in 1..Len(mTimers) : list[i] = mTimers[i]
        /\ list[Len(mTimers) + 1] = t
    BY <1>4, Queue
  <1> HIDE DEF list
  <1>6. \A x : In(list, x) <=> In(mTimers, x) \/ x = t
    <2> TAKE x
    <2>1. ASSUME NEW i \in 1..Len(list) PROVE i \in 1..Len(mTimers) \/ i = Len(mTimers) + 1
      BY <1>4, <1>5
    <2>2. 1..Len(mTimers) \subseteq 1..Len(list) /\ Len(mTimers) + 1 \in 1..Len(list)
      BY <1>4, <1>5
    <2> QED
      BY <1>5, <2>1, <2>2 DEF In
  <1>7. Once(list)
    <2>1. ASSUME NEW i \in 1..Len(list)
          PROVE  (i \in 1..Len(mTimers) /\ list[i] = mTimers[i])
                 \/ (i = Len(mTimers) + 1 /\ list[i] = t)
      BY <1>4, <1>5
    <2> QED
      BY <1>3, <2>1 DEF Core, Once, In
  <1>8. /\ s \in Seq(Timers) /\ Len(s) = Len(list) /\ Ordered(s, left) /\ Once(s)
        /\ \A x : In(s, x) <=> In(list, x)
        /\ (list # <<>> /\ \A x \in Timers : In(list, x) => left[list[1]] <= left[x])
             => s[1] = list[1]
    BY <1>4, <1>5, <1>7, Sorts
  <1> HIDE DEF s
  <1>9. mTimers' = s
    BY <1>1 DEF s, list
  <1>10. PendingOf(t)'
    <2>1. todo'[Owner[t]] = Wake /\ Wake \notin Changing(t)
      BY <1>1, <1>2, <1>4, CallsDiffer
    <2>2. Starting(t) \subseteq Changing(t) /\ Added(t) \in Changing(t)
      BY Changes
    <2>3. Listed(t)'
      BY <1>6, <1>8, <1>9 DEF Listed, In
    <2> QED
      BY <1>a, <1>1, <1>3, <2>1, <2>2, <2>3 DEF PendingOf
  <1>11. ASSUME NEW u \in Timers, At("handler"), loop.timer = u, u # t, ~repeat[u], Listed(u)
         PROVE  Head(s) = u
    <2>1. /\ Head(mTimers) = u /\ left[u] <= 0
          /\ todo[Loop] = Added(t) => left[u] <= left[t]
      BY <1>11 DEF Core, HandlerOf, Executing, At
    <2>2. p = Loop
      BY <1>a, <1>11 DEF Executing, At
    <2>3. left \in [Timers -> Int] /\ Ordered(mTimers, left) /\ In(mTimers, u)
      BY <1>a, <1>4, <1>11, ListedIn DEF Core
    <2>4. mTimers # <<>> /\ 1 \in 1..Len(mTimers) /\ mTimers[1] = u
      BY <1>4, <2>1, <2>3, LeastFirst
    <2>5. \A x : In(mTimers, x) => left[u] <= left[x]
      BY <1>4, <2>1, <2>3, LeastFirst
    <2>6. list[1] = u /\ list # <<>>
      <3>1. Len(list) # 0 /\ list[1] = u
        BY <1>4, <1>5, <2>4
      <3> QED
        BY <3>1, EmptySeq
    <2>7. \A x \in Timers : In(list, x) => left[list[1]] <= left[x]
      BY <1>2, <1>6, <2>1, <2>2, <2>5, <2>6
    <2>8. s[1] = u /\ s # <<>>
      <3>1. Len(s) # 0 /\ s[1] = u
        BY <1>4, <1>5, <1>8, <2>6, <2>7
      <3> QED
        BY <3>1, EmptySeq
    <2> QED
      BY <1>8, <2>8, Unqueue
  <1>12. \A u : u # t => (In(mTimers', u) <=> In(mTimers, u))
    BY <1>6, <1>8, <1>9
  <1>13. todo[p] \in Changing(t) /\ todo' = [todo EXCEPT ![p] = Wake]
    BY <1>1, <1>2, Changes
  <1> QED
    BY <1>1, <1>2, <1>8, <1>9, <1>10, <1>11, <1>12, <1>13, ListChanges

LEMMA RemoveStep ==
  ASSUME Core, Typed', NEW p \in Threads, NEW t \in Timers, DoRemove(p, t) PROVE Core'
  <1>1. /\ HasLock(p) /\ todo[p] # <<>> /\ Head(todo[p]) = <<"remove", t>>
        /\ todo' = [todo EXCEPT ![p] = Tail(todo[p])]
        /\ mTimers' = IF Listed(t) THEN SortTimers(RemoveFirstCopy(mTimers, t), left)
                                   ELSE mTimers
        /\ UNCHANGED <<left, interval, repeat, running, pipe, mTimerLock, loop>>
    BY DEF DoRemove, Does
  <1>a. ~At("ran") /\ \A u : (Stays(u) <=> Listed(u)) /\ (Stays(u)' <=> Listed(u)')
    BY <1>1, NoneErased
  <1> DEFINE c == Tail(todo[p])
  <1>2. /\ Owner[t] = p
        /\ \/ todo[p] = Removed(t) /\ c = Wake
           \/ todo[p] = RemovedThenAgain(t) /\ c = WakeAgain(t)
    BY <1>1, NextStep DEF Core
  <1> HIDE DEF c
  <1>3. todo[p] \in Changing(t) /\ todo[p] # Added(t)
    BY <1>2, Changes, CallsDiffer
  <1>4. ~running[t]
    BY <1>2, <1>3 DEF Core, PendingOf
  <1>5. /\ mTimers \in Seq(Timers) /\ left \in [Timers -> Int] /\ Len(mTimers) \in Nat
        /\ todo \in [Threads -> Seq(Steps)] /\ Once(mTimers) /\ Ordered(mTimers, left)
    BY <1>a, LenProperties DEF Core, Typed, TypeOK
  <1> DEFINE k == FirstAt(mTimers, t)
             r == RemoveAt(mTimers, k)
             s == SortTimers(r, left)
  <1>6. In(mTimers, t) =>
          /\ k \in 1..Len(mTimers) /\ mTimers[k] = t /\ r \in Seq(Timers) /\ Once(r)
          /\ Len(r) = Len(mTimers) - 1
          /\ \A x : In(r, x) <=> In(mTimers, x) /\ x # t
          /\ k > 1 => r # <<>> /\ r[1] = mTimers[1]
    <2>1. In(mTimers, t) => k \in 1..Len(mTimers) /\ mTimers[k] = t
      BY <1>5, FirstCopy
    <2> HIDE DEF k
    <2>2. ASSUME In(mTimers, t)
          PROVE  /\ r \in Seq(Timers) /\ Once(r) /\ Len(r) = Len(mTimers) - 1
                 /\ \A x : In(r, x) <=> In(mTimers, x) /\ x # mTimers[k]
                 /\ k > 1 => r # <<>> /\ r[1] = mTimers[1]
      BY <1>5, <2>1, <2>2, Erased
    <2> QED
      BY <2>1, <2>2
  <1>7. mTimers' = IF In(mTimers, t) THEN s ELSE mTimers
    BY <1>1, <1>5, FirstErased, ListedIn
  <1> HIDE DEF k, r
  <1>8. In(mTimers, t) =>
          /\ s \in Seq(Timers) /\ Len(s) = Len(r) /\ Ordered(s, left) /\ Once(s)
          /\ \A x : In(s, x) <=> In(r, x)
          /\ (r # <<>> /\ \A x \in Timers : In(r, x) => left[r[1]] <= left[x])
             => s[1] = r[1]
    BY <1>5, <1>6, Sorts
  <1> HIDE DEF s
  <1>9. \A x : In(mTimers', x) <=> In(mTimers, x) /\ x # t
    BY <1>6, <1>7, <1>8
  <1>10. Once(mTimers') /\ Ordered(mTimers', left)
    BY <1>5, <1>7, <1>8
  <1>11. PendingOf(t)'
    <2>1. todo'[Owner[t]] = c /\ ~running'[t]
      BY <1>1, <1>2, <1>4, <1>5 DEF c
    <2>2. c # Added(t)
      BY <1>2, CallsDiffer, Changes
    <2>3. ~Listed(t)'
      BY <1>9 DEF Listed, In
    <2> QED
      BY <1>a, <2>1, <2>2, <2>3 DEF PendingOf
  <1>12. ASSUME NEW u \in Timers, At("handler"), loop.timer = u, u # t, ~repeat[u], Listed(u)
         PROVE  Head(mTimers') = u
    <2>1. Head(mTimers) = u
      BY <1>12 DEF Core, HandlerOf, Executing, At
    <2>2. In(mTimers, u)
      BY <1>12, ListedIn
    <2>3. mTimers[1] = u /\ \A x : In(mTimers, x) => left[u] <= left[x]
      BY <1>5, <2>1, <2>2, LeastFirst
    <2>4. CASE In(mTimers, t)
      <3>1. k > 1
        BY <1>5, <1>6, <1>12, <2>3, <2>4
      <3>2. r # <<>> /\ r[1] = u
        BY <1>6, <2>3, <2>4, <3>1
      <3>3. \A x \in Timers : In(r, x) => left[u] <= left[x]
        BY <1>6, <2>3, <2>4
      <3>4. s[1] = u /\ s # <<>>
        <4>1. s[1] = u
          BY <1>8, <2>4, <3>2, <3>3
        <4>2. Len(s) # 0
          BY <1>6, <1>8, <2>4, <3>2, EmptySeq
        <4> QED
          BY <4>1, <4>2, EmptySeq
      <3> QED
        BY <1>7, <1>8, <2>4, <3>4, Unqueue
    <2>5. CASE ~In(mTimers, t)
      BY <1>7, <2>1, <2>5
    <2> QED
      BY <2>4, <2>5
  <1>13. \A u : u # t => (In(mTimers', u) <=> In(mTimers, u))
    BY <1>9
  <1>14. c \in {Wake, WakeAgain(t)} /\ todo' = [todo EXCEPT ![p] = c]
    BY <1>1, <1>2 DEF c
  <1> QED
    BY <1>1, <1>2, <1>3, <1>10, <1>11, <1>12, <1>13, <1>14, ListChanges

LEMMA AgainStep ==
  ASSUME Core, Typed', NEW p \in Threads, NEW t \in Timers, DoAgain(p, t) PROVE Core'
  <1>1. /\ todo[p] # <<>> /\ Head(todo[p]) = <<"again", t>>
        /\ UNCHANGED <<mTimers, mTimerLock, pipe, loop>>
    BY DEF DoAgain
  <1>2. Owner[t] = p /\ todo[p] = Again(t)
    BY <1>1, NextStep DEF Core
  <1>3. /\ Again(t) \in Starting(t) /\ Again(t) # Added(t) /\ Again(t) # RemovedThenAgain(t)
        /\ Starting(t) \subseteq Changing(t) /\ Added(t) \in Starting(t)
        /\ Added(t) # <<>>
    BY Changes, CallsDiffer, Programs
  <1>4. ~running[t] /\ ~Stays(t)
    BY <1>2, <1>3 DEF Core, PendingOf
  <1>5. todo' = [todo EXCEPT ![p] = Added(t)] /\ Arms(t, interval[t], repeat[t])
    BY <1>4 DEF DoAgain
  <1>6. /\ interval[t] \in Nat /\ MaxLate \in Nat /\ repeat[t] \in BOOLEAN
        /\ todo \in [Threads -> Seq(Steps)]
    <2>1. /\ interval[t] \in Intervals \cup {TimerInfinite} /\ repeat[t] \in BOOLEAN
          /\ todo \in [Threads -> Seq(Steps)]
      BY DEF Core, Typed, TypeOK
    <2>2. Intervals \cup {TimerInfinite} \subseteq Nat
      BY IntervalTypes
    <2>3. interval[t] \in Nat
      BY <2>1, <2>2
    <2>4. MaxLate \in Nat
      BY LoopAssumption
    <2> QED
      BY <2>1, <2>3, <2>4
  <1>7. /\ \A u \in Timers : u # t => /\ left'[u] = left[u] /\ repeat'[u] = repeat[u]
                                      /\ running'[u] = running[u]
        /\ left'[t] = interval[t] /\ repeat'[t] = repeat[t] /\ running'[t]
    BY <1>5 DEF Arms, Core, Typed, TypeOK
  <1>8. left'[t] >= 0 /\ left'[t] >= -MaxLate
    BY <1>6, <1>7
  <1>9. PendingOf(t)'
    <2>1. todo'[Owner[t]] = Added(t) /\ ~Stays(t)'
      BY <1>1, <1>2, <1>4, <1>5, <1>6, <1>7, SameStays
    <2> QED
      BY <1>3, <1>7, <2>1 DEF PendingOf
  <1>10. At("handler") /\ loop.timer = t /\ p = Loop => repeat[t]
    BY <1>2, <1>3 DEF Core, HandlerOf, Executing, At
  <1>11. p = Loop => loop.at \in {"handler", "callback"}
    BY <1>1 DEF Core
  <1>12. Added(t) \in Changing(t)
    BY <1>3
  <1> QED
    BY <1>1, <1>2, <1>4, <1>5, <1>7, <1>8, <1>9, <1>10, <1>11, <1>12, TimerChanges

LEMMA ContinueStep ==
  ASSUME Core, Typed', NEW p \in Threads, Continues(p) PROVE Core'
  <1>1. CASE DoWake(p) \/ DoTerminate(p)
    <2>1. /\ todo[p] # <<>> /\ Head(todo[p]) \in {<<"wake">>, <<"terminate">>}
          /\ todo' = [todo EXCEPT ![p] = Tail(todo[p])]
          /\ UNCHANGED <<left, repeat, running, mTimers, mTimerLock, loop>>
      BY <1>1 DEF DoWake, DoTerminate, Does
    <2>2. pipe' # <<>>
      <3>1. PICK b \in {"S", "T"} : pipe' = Append(pipe, b)
        BY <1>1 DEF DoWake, DoTerminate
      <3>2. pipe \in Seq({"S", "T"})
        BY DEF Core, Typed, TypeOK
      <3>3. Len(pipe') = Len(pipe) + 1 /\ Len(pipe) \in Nat
        BY <3>1, <3>2, Queue
      <3> QED
        BY <3>3, EmptySeq
    <2>3. p = Loop => loop.at \in {"handler", "callback"}
      BY <2>1 DEF Core
    <2> DEFINE c == Tail(todo[p])
    <2>4. \/ c = <<>> /\ todo[p] \in {Wake, Terminate}
          \/ \E t \in Timers : Owner[t] = p /\ todo[p] = WakeAgain(t) /\ c = Again(t)
      BY <2>1, NextStep DEF Core
    <2> HIDE DEF c
    <2>5. todo' = [todo EXCEPT ![p] = c]
      BY <2>1 DEF c
    <2> QED
      BY <2>1, <2>2, <2>3, <2>4, <2>5, NoTimerChanges
  <1> QED
    BY <1>1, AddStep, RemoveStep, AgainStep DEF Continues

----------------------------------------------------------------------------
(* What the loop thread and time keep *)

\* Steps that leave the timers, the list, the lock and the calls as they are.
LEMMA TimersStay ==
  ASSUME Core, Typed', UNCHANGED <<left, repeat, running, mTimers, mTimerLock, todo>>,
         loop'.timer = loop.timer,
         loop'.at = loop.at \/ (~Executing /\ ~Executing' /\ todo[Loop] = <<>>),
         At("select")' => \A t \in Timers : Listed(t)' => WakesBy(t)'
  PROVE  Core'
  <1>1. \A u : (Listed(u)' <=> Listed(u)) /\ (Stays(u)' <=> Stays(u))
    BY DEF Stays, Erasing, Listed, Executing, At
  <1>2. \A u \in Timers : PendingOf(u)'
    BY <1>1 DEF Core, PendingOf
  <1>3. Executing' => HandlerOf(loop.timer)'
    BY <1>1 DEF Core, HandlerOf, Executing, At
  <1>4. /\ (\A p \in Threads : CallOf(p)') /\ Once(mTimers)'
        /\ ~At("ran")' => Ordered(mTimers, left)'
    BY DEF Core, CallOf, Once, Ordered, Executing, At
  <1> QED
    BY <1>1, <1>2, <1>3, <1>4 DEF Core, Executing

LEMMA FirstIsListed ==
  ASSUME Core, mTimers # <<>>
  PROVE  /\ Head(mTimers) \in Timers /\ Listed(Head(mTimers)) /\ Head(mTimers) = mTimers[1]
         /\ 1 \in 1..Len(mTimers)
  <1>1. mTimers \in Seq(Timers)
    BY DEF Core, Typed, TypeOK
  <1>2. Len(mTimers) \in Nat \ {0} /\ Head(mTimers) = mTimers[1] /\ Head(mTimers) \in Timers
    BY <1>1, Unqueue
  <1>3. 1 \in 1..Len(mTimers)
    BY <1>2
  <1> QED
    BY <1>2, <1>3 DEF Listed

LEMMA FirstIsLeast ==
  ASSUME Core, ~At("ran"), mTimers # <<>>
  PROVE  \A t : Listed(t) => left[Head(mTimers)] <= left[t]
  <1>1. mTimers \in Seq(Timers) /\ Ordered(mTimers, left) /\ left \in [Timers -> Int]
    BY DEF Core, Typed, TypeOK
  <1> QED
    BY <1>1, LeastFirst, ListedIn

LEMMA LoopFacts ==
  ASSUME Core
  PROVE  /\ loop \in LoopStates /\ loop.lag \in Nat /\ loop.wait \in 0..WaitTime
         /\ loop.at \notin {"handler", "callback"} => todo[Loop] = <<>>
         /\ \A t \in Timers : left[t] \in Int /\ left[t] >= -Half
         /\ Half \in Nat /\ WaitTime \in Nat \ {0} /\ MaxLate \in Nat
  <1>1. loop \in LoopStates /\ \A t \in Timers : left[t] \in Int /\ left[t] >= -MaxLate
    BY DEF Core, Typed, TypeOK
  <1>2. loop.lag \in Lags /\ loop.wait \in Waiting
    BY <1>1, LoopRecord
  <1>3. /\ Half \in Nat /\ WaitTime \in Nat \ {0} /\ MaxLate \in Nat /\ MaxLate <= Half
        /\ MaxLag \in Nat
    BY LoopAssumption
  <1>4. loop.lag \in Nat /\ loop.wait \in 0..WaitTime
    BY <1>2, <1>3 DEF Lags, Waiting
  <1>5. \A t \in Timers : left[t] >= -Half
    BY <1>1, <1>3
  <1> QED
    BY <1>1, <1>3, <1>4, <1>5 DEF Core

LEMMA RunNoTimerStep ==
  ASSUME Core, Typed', RunNoTimer PROVE Core'
  <1> DEFINE l == [loop EXCEPT !.lag = 0]
             d == IF mTimers = <<>> THEN WaitTime ELSE Timeout(left[Head(mTimers)])
  <1>1. /\ loop.at = "timers" /\ loop' = Waits(l, d)
        /\ UNCHANGED <<left, repeat, running, mTimers, mTimerLock, todo>>
    BY DEF RunNoTimer, At
  <1>2. l \in LoopStates /\ l.lag = 0 /\ l.timer = loop.timer
    BY LoopFacts, LoopRecord
  <1>3. d \in 0..WaitTime
    <2>1. mTimers # <<>> => left[Head(mTimers)] \in Int
      BY FirstIsListed, LoopFacts
    <2> QED
      BY <2>1, LoopFacts, Timeouts
  <1>4. ASSUME NEW t \in Timers, Listed(t) PROVE d = 0 \/ d <= left[t]
    <2>1. mTimers # <<>>
      BY <1>4, EmptySeq DEF Listed
    <2>2. /\ left[Head(mTimers)] \in Int /\ left[Head(mTimers)] >= -Half
          /\ left[Head(mTimers)] <= left[t] /\ left[t] \in Int
      BY <1>1, <1>4, <2>1, FirstIsListed, FirstIsLeast, LoopFacts DEF At
    <2>3. Timeout(left[Head(mTimers)]) = 0 \/ Timeout(left[Head(mTimers)]) <= left[Head(mTimers)]
      BY <2>2, Timeouts
    <2>4. d = Timeout(left[Head(mTimers)])
      BY <2>1
    <2> QED
      BY <1>3, <2>2, <2>3, <2>4, LoopFacts
  <1> HIDE DEF l, d
  <1>5. /\ loop'.at \in {"timers", "select"} /\ loop'.timer = None
        /\ loop'.wait = d /\ loop'.lag = 0
    BY <1>1, <1>2, <1>3, WaitsTypes
  <1>6. loop.timer = None /\ todo[Loop] = <<>>
    BY <1>1, LoopFacts DEF Core, Executing, At
  <1>7. ASSUME NEW t \in Timers, Listed(t)' PROVE WakesBy(t)'
    <2>1. Listed(t) /\ left'[t] = left[t] /\ left[t] \in Int
      BY <1>1, <1>7, LoopFacts DEF Listed
    <2>2. d = 0 \/ d <= left[t] + 0
      BY <1>4, <2>1
    <2> QED
      BY <1>5, <2>1, <2>2 DEF WakesBy
  <1> QED
    BY <1>1, <1>5, <1>6, <1>7, TimersStay DEF At, Executing

LEMMA RunTimerStep ==
  ASSUME Core, Typed', RunTimer PROVE Core'
  <1> DEFINE h == Head(mTimers)
  <1>1. /\ loop.at = "timers" /\ mTimers # <<>> /\ left[h] <= 0 /\ mTimerLock' = Loop
        /\ loop' = [loop EXCEPT !.at = "handler", !.timer = h, !.lag = 0]
        /\ UNCHANGED <<left, repeat, running, mTimers, todo>>
    BY DEF RunTimer, At
  <1>2. h \in Timers /\ Listed(h)
    BY <1>1, FirstIsListed
  <1>3. todo[Loop] = <<>> /\ loop \in LoopStates
    BY <1>1, LoopFacts
  <1>4. loop'.at = "handler" /\ loop'.timer = h /\ h # None
    <2>1. h # None
      BY <1>2, LoopAssumption
    <2> HIDE DEF h
    <2> QED
      BY <1>1, <1>2, <1>3, <2>1, LoopRecord
  <1>5. \A u : (Listed(u)' <=> Listed(u)) /\ (Stays(u)' <=> Stays(u))
    BY <1>1, <1>4 DEF Stays, Erasing, Listed, At
  <1>6. \A u \in Timers : PendingOf(u)'
    BY <1>1, <1>5 DEF Core, PendingOf
  <1>7. HandlerOf(loop.timer)'
    <2>1. PICK g \in Timers : g = h
      BY <1>2
    <2>2. <<>> \notin Changing(g) /\ \A u \in Timers : Added(u) # <<>>
      BY CallsDiffer, Programs
    <2>3. HandlerOf(g)'
      BY <1>1, <1>2, <1>3, <1>5, <2>1, <2>2 DEF HandlerOf, At
    <2> QED
      BY <1>4, <2>1, <2>3 DEF HandlerOf, Listed, At
  <1>8. (\A p \in Threads : CallOf(p)') /\ Once(mTimers)' /\ Ordered(mTimers, left)'
    BY <1>1 DEF Core, CallOf, Once, Ordered, At
  <1> HIDE DEF h
  <1> QED
    BY <1>1, <1>3, <1>4, <1>6, <1>7, <1>8 DEF Core, At, Executing

\* What execute() and runTimers() leave of the list: a one-shot timer is the
\* first if it is there at all.
Kept(t) ==
  IF ~repeat[t] /\ mTimers # <<>> /\ Head(mTimers) = t THEN Tail(mTimers) ELSE mTimers

LEMMA KeptTimers ==
  ASSUME Core, NEW h \in Timers, At("ran"), loop.timer = h
  PROVE  /\ Kept(h) \in Seq(Timers) /\ Once(Kept(h))
         /\ \A x : In(Kept(h), x) <=> In(mTimers, x) /\ (repeat[h] \/ x # h)
  <1>1. mTimers \in Seq(Timers) /\ Once(mTimers)
    BY DEF Core, Typed, TypeOK
  <1>2. CASE repeat[h] \/ ~In(mTimers, h)
    <2>1. mTimers # <<>> /\ Head(mTimers) = h => In(mTimers, h)
      <3>1. mTimers # <<>> /\ Head(mTimers) = h => Listed(h)
        BY FirstIsListed
      <3> QED
        BY <3>1, ListedIn
    <2>2. Kept(h) = mTimers
      BY <1>2, <2>1 DEF Kept
    <2> QED
      BY <1>1, <1>2, <2>2
  <1>3. CASE ~repeat[h] /\ In(mTimers, h)
    <2>1. Head(mTimers) = h
      BY <1>3, ListedIn DEF Core, HandlerOf, Executing, At
    <2>2. mTimers # <<>> /\ mTimers[1] = h
      <3>1. mTimers # <<>>
        BY <1>3, EmptySeq DEF In
      <3> QED
        BY <1>1, <2>1, <3>1, Unqueue
    <2> DEFINE k == Tail(mTimers)
               n == Len(mTimers)
    <2>3. /\ k \in Seq(Timers) /\ n \in Nat \ {0} /\ Len(k) = n - 1
          /\ \A i \in 1..Len(k) : k[i] = mTimers[i + 1]
      BY <1>1, <2>2, Unqueue
    <2>4. Kept(h) = k
      BY <1>3, <2>1, <2>2 DEF Kept
    <2>5. \A i, j \in 1..n : mTimers[i] = mTimers[j] => i = j
      BY <1>1 DEF Once
    <2> HIDE DEF k, n
    <2>6. Once(k)
      <3> SUFFICES ASSUME NEW i \in 1..Len(k), NEW j \in 1..Len(k), k[i] = k[j]
                   PROVE  i = j
        BY DEF Once
      <3>1. i + 1 \in 1..n /\ j + 1 \in 1..n
        BY <2>3
      <3> QED
        BY <2>3, <2>5, <3>1
    <2>7. ASSUME NEW x, In(k, x) PROVE In(mTimers, x) /\ x # h
      <3>1. PICK i \in 1..Len(k) : k[i] = x
        BY <2>7 DEF In
      <3>2. i + 1 \in 1..n /\ 1 \in 1..n /\ i + 1 # 1 /\ mTimers[i + 1] = x
        BY <2>3, <3>1
      <3>3. x # h
        BY <2>2, <2>5, <3>2
      <3> QED
        BY <3>2, <3>3 DEF In, n
    <2>8. ASSUME NEW x, In(mTimers, x), x # h PROVE In(k, x)
      <3>1. PICK i \in 1..n : mTimers[i] = x
        BY <2>8 DEF In, n
      <3>2. i - 1 \in 1..Len(k) /\ (i - 1) + 1 = i
        BY <2>2, <2>3, <2>8, <3>1
      <3> QED
        BY <2>3, <3>1, <3>2 DEF In
    <2> QED
      BY <1>3, <2>3, <2>4, <2>6, <2>7, <2>8
  <1> QED
    BY <1>2, <1>3

LEMMA ListAfterTimer ==
  ASSUME Core, ExecuteReturns, NEW h \in Timers, h = loop.timer
  PROVE  \A u : Listed(u)' => Listed(u)
  <1>1. At("ran") /\ mTimers' = SortTimers(Kept(h), left)
    BY DEF ExecuteReturns, TimersRun, Kept
  <1>2. left \in [Timers -> Int]
    BY DEF Core, Typed, TypeOK
  <1>3. Kept(h) \in Seq(Timers) /\ \A x : In(Kept(h), x) => In(mTimers, x)
    BY <1>1, KeptTimers
  <1>4. \A x : In(mTimers', x) => In(mTimers, x)
    BY <1>1, <1>2, <1>3, Sorts
  <1> QED
    BY <1>4 DEF Listed, In

\* execute() computes the next expiry, or clears mRunning of a timer that is
\* now about to be erased.
LEMMA HandlerReturnsStep ==
  ASSUME Core, Typed', HandlerReturns PROVE Core'
  <1>1. PICK h \in Timers : h = loop.timer /\ HandlerOf(h) /\ At("handler")
    BY DEF Core, Typed, HandlerReturns, Executing, At
  <1>2. /\ todo[Loop] = <<>> /\ loop' = [loop EXCEPT !.at = "ran"]
        /\ left' = IF repeat[h] THEN [left EXCEPT ![h] = @ + interval[h]] ELSE left
        /\ running' = IF repeat[h] THEN running ELSE [running EXCEPT ![h] = FALSE]
        /\ UNCHANGED <<repeat, pipe, mTimers, mTimerLock, todo>>
    BY <1>1 DEF HandlerReturns
  <1>3. loop \in LoopStates /\ loop'.at = "ran" /\ loop'.timer = h
    BY <1>1, <1>2, LoopFacts, LoopRecord
  <1>4. /\ left \in [Timers -> Int] /\ running \in [Timers -> BOOLEAN]
        /\ repeat[h] \in BOOLEAN /\ interval[h] \in Nat
    <2>1. /\ left \in [Timers -> Int] /\ running \in [Timers -> BOOLEAN]
          /\ repeat[h] \in BOOLEAN /\ interval[h] \in Intervals \cup {TimerInfinite}
      BY DEF Core, Typed, TypeOK
    <2> QED
      BY <2>1, IntervalTypes
  <1>5. /\ \A u \in Timers : left'[u] >= left[u]
        /\ \A u \in Timers : u # h => running'[u] = running[u]
        /\ repeat[h] => running' = running
        /\ ~repeat[h] => ~running'[h]
    BY <1>2, <1>4
  <1>6. \A u \in Timers : left'[u] >= -MaxLate
    <2>1. \A u \in Timers : left[u] >= -MaxLate /\ left[u] \in Int /\ left'[u] \in Int
      BY LoopFacts DEF Core, Typed, TypeOK
    <2>2. MaxLate \in Nat
      BY LoopFacts
    <2> QED
      BY <1>5, <2>1, <2>2
  <1>7. /\ \A u : Listed(u)' <=> Listed(u)
        /\ \A u : (u # h \/ repeat[h]) => (Stays(u)' <=> Stays(u))
        /\ Stays(h) <=> Listed(h)
        /\ ~repeat[h] => ~Stays(h)'
    BY <1>1, <1>2, <1>3 DEF Stays, Erasing, Listed, At
  <1>8. ASSUME NEW u \in Timers PROVE PendingOf(u)'
    <2>1. PendingOf(u) /\ Owner[u] \in Threads /\ todo' = todo
      BY <1>2, LoopAssumption DEF Core
    <2>2. CASE u # h \/ repeat[h]
      BY <1>5, <1>7, <2>1, <2>2, PendingSame
    <2>3. CASE u = h /\ ~repeat[h]
      <3>1. ~running'[h] /\ ~Stays(h)'
        BY <1>5, <1>7, <2>3
      <3>2. todo[Owner[h]] # Added(h)
        <4>1. CASE Owner[h] = Loop
          BY <1>2, <4>1, Programs
        <4>2. CASE Owner[h] # Loop
          BY <1>1, <1>7, <2>1, <2>3, <4>2 DEF HandlerOf, PendingOf
        <4> QED
          BY <4>1, <4>2
      <3> QED
        BY <2>1, <2>3, <3>1, <3>2 DEF PendingOf
    <2> QED
      BY <2>2, <2>3
  <1>9. HandlerOf(loop.timer)'
    <2>1. HandlerOf(h)'
      BY <1>1, <1>2, <1>3, <1>7 DEF HandlerOf, At
    <2> QED
      BY <1>3, <2>1 DEF HandlerOf, Listed, At
  <1>10. (\A p \in Threads : CallOf(p)') /\ Once(mTimers)'
    BY <1>2 DEF Core, CallOf, Once
  <1> QED
    BY <1>1, <1>2, <1>3, <1>6, <1>8, <1>9, <1>10 DEF Core, At, Executing

\* runTimers() erases the one-shot timer, and sorts what is left.
LEMMA ExecuteReturnsStep ==
  ASSUME Core, Typed', ExecuteReturns PROVE Core'
  <1>1. PICK h \in Timers : h = loop.timer /\ At("ran")
    BY DEF Core, Typed, ExecuteReturns, TimersRun, Executing, At
  <1> DEFINE kept == Kept(h)
             next == SortTimers(kept, left)
             d == IF next = <<>> THEN WaitTime ELSE Timeout(left[Head(next)] + loop.lag)
  <1>2. /\ mTimerLock' = None /\ mTimers' = next /\ loop' = Waits(loop, d)
        /\ UNCHANGED <<left, repeat, running, pipe, todo>>
    BY <1>1 DEF ExecuteReturns, TimersRun, Kept
  <1>3. left \in [Timers -> Int] /\ todo[Loop] = <<>>
    BY <1>1, LoopFacts DEF Core, Typed, TypeOK, At
  <1>6. /\ kept \in Seq(Timers) /\ Once(kept)
        /\ \A x : In(kept, x) <=> In(mTimers, x) /\ (repeat[h] \/ x # h)
    BY <1>1, KeptTimers
  <1> HIDE DEF kept
  <1>7. /\ next \in Seq(Timers) /\ Ordered(next, left) /\ Once(next)
        /\ \A x : In(next, x) <=> In(kept, x)
    BY <1>3, <1>6, Sorts
  <1> HIDE DEF next
  <1>8. \A u : Listed(u)' <=> Listed(u) /\ (repeat[h] \/ u # h)
    BY <1>2, <1>6, <1>7 DEF Listed, In
  <1>10. /\ loop \in LoopStates /\ loop.lag \in Nat /\ WaitTime \in Nat
         /\ \A u \in Timers : left[u] >= -Half /\ left[u] \in Int
    BY LoopFacts
  <1>11. d \in 0..WaitTime
    <2>1. next # <<>> => left[Head(next)] + loop.lag \in Int
      BY <1>3, <1>7, <1>10, LeastFirst
    <2> QED
      BY <1>10, <2>1, Timeouts
  <1>12. ASSUME NEW t \in Timers, Listed(t)' PROVE d = 0 \/ d <= left[t] + loop.lag
    <2>1. In(next, t)
      BY <1>2, <1>12 DEF Listed, In
    <2> DEFINE g == Head(next)
    <2>2. g \in Timers /\ next # <<>> /\ left[g] <= left[t]
      BY <1>3, <1>7, <2>1, LeastFirst
    <2>3. d = Timeout(left[g] + loop.lag)
      BY <2>2
    <2> HIDE DEF g, d
    <2>4. left[g] + loop.lag \in Int /\ left[g] + loop.lag >= -Half
      BY <1>10, <2>2, LoopFacts
    <2>5. d = 0 \/ d <= left[g] + loop.lag
      BY <2>3, <2>4, Timeouts
    <2> QED
      BY <1>10, <1>11, <2>2, <2>5
  <1> HIDE DEF d
  <1>13. /\ loop'.at \in {"timers", "select"} /\ loop'.timer = None
         /\ loop'.wait = d /\ loop'.lag = loop.lag
    BY <1>2, <1>10, <1>11, WaitsTypes
  <1>9. ASSUME NEW u \in Timers PROVE PendingOf(u)'
    <2>1. Stays(u)' <=> Stays(u)
      BY <1>1, <1>8, <1>13 DEF Stays, Erasing, At
    <2> QED
      BY <1>2, <2>1, PendingSame DEF Core
  <1>14. ASSUME NEW t \in Timers, Listed(t)' PROVE WakesBy(t)'
    BY <1>2, <1>12, <1>13, <1>14 DEF WakesBy
  <1>15. (\A p \in Threads : CallOf(p)') /\ Once(mTimers)' /\ Ordered(mTimers, left)'
    BY <1>2, <1>7 DEF Core, CallOf, Once, Ordered
  <1>16. Loop # None
    BY LoopAssumption
  <1> QED
    BY <1>2, <1>3, <1>9, <1>13, <1>14, <1>15, <1>16 DEF Core, At, Executing

\* Time passes for all timers alike, where the age of one does not saturate.
LEMMA TickStep ==
  ASSUME Core, Typed', Tick PROVE Core'
  <1>1. /\ \A t \in Timers : left'[t] = IF left[t] \in {TimerInfinite, -MaxLate}
                                        THEN left[t] ELSE left[t] - 1
        /\ UNCHANGED <<repeat, running, mTimers, mTimerLock, pipe, todo>>
    BY DEF Tick
  <1>2. /\ \A t \in Timers : left[t] \in Int /\ left[t] >= -MaxLate
        /\ MaxLate \in Nat /\ TimerInfinite \in Int
    BY LoopFacts, IntervalTypes DEF Core
  <1>3. \A t \in Timers : /\ left'[t] \in Int /\ left'[t] >= -MaxLate
                          /\ left'[t] <= left[t] /\ left'[t] >= left[t] - 1
    BY <1>1, <1>2
  <1>4. ASSUME NEW t \in Timers, NEW u \in Timers, left[t] <= left[u]
        PROVE  left'[t] <= left'[u]
    BY <1>1, <1>2, <1>4
  <1>5. \A u : Listed(u)' <=> Listed(u)
    BY <1>1 DEF Listed
  <1>6. ~At("ran") => Ordered(mTimers, left)'
    <2>1. \A i \in 1..Len(mTimers) : mTimers[i] \in Timers
      BY ElementOfSeq DEF Core, Typed, TypeOK
    <2> QED
      BY <1>1, <1>4, <2>1 DEF Core, Ordered
  <1>8. /\ loop'.at = loop.at /\ loop'.timer = loop.timer
        /\ At("select") =>
             /\ loop'.wait = IF loop.wait = 0 THEN 0 ELSE loop.wait - 1
             /\ loop'.lag = loop.lag
    <2>1. loop \in LoopStates
      BY LoopFacts
    <2>2. CASE At("select")
      <3>1. loop' = [loop EXCEPT !.wait = IF loop.wait = 0 THEN 0 ELSE loop.wait - 1]
        BY <2>2 DEF Tick
      <3> QED
        BY <2>1, <3>1, LoopRecord
    <2>3. CASE ~At("select")
      <3>1. loop' = [loop EXCEPT !.lag = loop.lag + 1]
        BY <2>3 DEF Tick
      <3> QED
        BY <2>1, <2>3, <3>1, LoopRecord
    <2> QED
      BY <2>2, <2>3
  <1>7. \A u \in Timers : PendingOf(u)'
    <2>1. \A u : Stays(u)' <=> Stays(u)
      BY <1>1, <1>5, <1>8 DEF Stays, Erasing, At
    <2> QED
      BY <1>1, <2>1 DEF Core, PendingOf
  <1>9. ASSUME Executing PROVE HandlerOf(loop.timer)'
    <2>1. PICK h \in Timers : h = loop.timer /\ HandlerOf(h)
      BY <1>9 DEF Core, Typed
    <2>2. left'[h] \in Int /\ left[h] \in Int /\ left'[h] <= left[h]
      BY <1>2, <1>3
    <2>3. HandlerOf(h)'
      BY <1>1, <1>4, <1>5, <1>8, <2>1, <2>2 DEF HandlerOf, At
    <2> QED
      BY <1>8, <2>1, <2>3 DEF HandlerOf, Listed, At
  <1>10. ASSUME At("select"), NEW t \in Timers, Listed(t) PROVE WakesBy(t)'
    <2>1. WakesBy(t)
      BY <1>10 DEF Core
    <2>2. loop.wait \in Nat /\ loop.lag \in Nat
      BY LoopFacts
    <2>3. /\ loop'.wait = IF loop.wait = 0 THEN 0 ELSE loop.wait - 1
          /\ loop'.lag = loop.lag
      BY <1>8, <1>10
    <2>4. /\ left[t] \in Int /\ left'[t] \in Int /\ left'[t] >= left[t] - 1
      BY <1>2, <1>3
    <2>5. loop.wait = 0 \/ loop.wait <= left[t] + loop.lag
          => loop'.wait = 0 \/ loop'.wait <= left'[t] + loop'.lag
      BY <2>2, <2>3, <2>4
    <2> QED
      BY <1>1, <2>1, <2>5 DEF WakesBy
  <1>11. (\A p \in Threads : CallOf(p)') /\ Once(mTimers)'
    BY <1>1 DEF Core, CallOf, Once
  <1> QED
    BY <1>1, <1>3, <1>5, <1>6, <1>7, <1>8, <1>9, <1>10, <1>11 DEF Core, At, Executing

\* The steps that do not concern the timers.
LEMMA OtherSteps ==
  ASSUME Core,
         \/ BuildFdSet \/ ReadCommand \/ SelectReady \/ SelectReturns \/ Visit
         \/ CallbackReturns
         \/ \E f \in Fds : AddFdWatcher(f) \/ RemoveFdWatcher(f) \/ DataArrives(f)
  PROVE  /\ UNCHANGED <<left, interval, repeat, running, mTimers, mTimerLock, todo>>
         /\ loop'.timer = loop.timer
         /\ loop'.at = loop.at \/ (~Executing /\ ~Executing' /\ todo[Loop] = <<>>)
         /\ loop'.at = "select" => UNCHANGED <<pipe, loop>>
  <1>1. loop \in LoopStates /\ (loop.at \notin {"handler", "callback"} => todo[Loop] = <<>>)
    BY LoopFacts
  <1>2. CASE BuildFdSet
    <2> DEFINE w == {f \in Fds : Watched(f)}
    <2>1. /\ loop' = [loop EXCEPT !.at = "timers", !.polled = w] /\ loop.at = "build"
          /\ UNCHANGED <<left, interval, repeat, running, mTimers, mTimerLock, todo>>
      BY <1>2 DEF BuildFdSet, At
    <2> HIDE DEF w
    <2>2. loop'.timer = loop.timer /\ loop'.at = "timers"
      BY <1>1, <2>1, LoopRecord
    <2> QED
      BY <1>1, <2>1, <2>2 DEF Executing
  <1>3. CASE ReadCommand \/ SelectReturns
    <2>1. PICK at \in {"ended", "build"} :
            loop' = [loop EXCEPT !.at = at, !.polled = {}, !.wait = 0, !.lag = 0]
      BY <1>3 DEF ReadCommand, SelectReturns
    <2>2. /\ loop.at = "select"
          /\ UNCHANGED <<left, interval, repeat, running, mTimers, mTimerLock, todo>>
      BY <1>3 DEF ReadCommand, SelectReturns, At
    <2>3. loop'.timer = loop.timer /\ loop'.at = at
      BY <1>1, <2>1, LoopRecord
    <2> QED
      BY <1>1, <2>1, <2>2, <2>3 DEF Executing
  <1>4. CASE SelectReady
    <2>1. /\ loop' = [loop EXCEPT !.at = "dispatch", !.polled = Ready, !.pos = 1,
                                  !.wait = 0, !.lag = 0]
          /\ loop.at = "select"
          /\ UNCHANGED <<left, interval, repeat, running, mTimers, mTimerLock, todo>>
      BY <1>4 DEF SelectReady, At
    <2>2. loop'.timer = loop.timer /\ loop'.at = "dispatch"
      BY <1>1, <2>1, LoopRecord
    <2> QED
      BY <1>1, <2>1, <2>2 DEF Executing
  <1>5. CASE Visit
    <2>1. /\ \/ loop' = [loop EXCEPT !.at = "build", !.polled = {}, !.pos = 0]
             \/ loop' = [loop EXCEPT !.at = "callback"]
             \/ loop' = [loop EXCEPT !.pos = loop.pos + 1]
          /\ loop.at = "dispatch"
          /\ UNCHANGED <<left, interval, repeat, running, mTimers, mTimerLock, todo>>
      BY <1>5 DEF Visit, At
    <2>2. loop'.timer = loop.timer /\ loop'.at \in {"build", "callback", "dispatch"}
      BY <1>1, <2>1, LoopRecord
    <2> QED
      BY <1>1, <2>1, <2>2 DEF Executing
  <1>6. CASE CallbackReturns
    <2>1. /\ loop' = [loop EXCEPT !.at = "dispatch", !.pos = loop.pos + 1]
          /\ loop.at = "callback" /\ todo[Loop] = <<>>
          /\ UNCHANGED <<left, interval, repeat, running, mTimers, mTimerLock, todo>>
      BY <1>6 DEF CallbackReturns, At
    <2>2. loop'.timer = loop.timer /\ loop'.at = "dispatch"
      BY <1>1, <2>1, LoopRecord
    <2> QED
      BY <2>1, <2>2 DEF Executing
  <1>7. ASSUME NEW f \in Fds, AddFdWatcher(f) \/ RemoveFdWatcher(f)
        PROVE  /\ UNCHANGED <<left, interval, repeat, running, mTimers, mTimerLock, todo>>
               /\ loop'.timer = loop.timer /\ loop'.at = loop.at
               /\ loop.at \in {"handler", "callback"}
    <2>1. /\ loop.at \in {"handler", "callback"}
          /\ UNCHANGED <<left, interval, repeat, running, mTimers, mTimerLock, todo>>
      BY <1>7 DEF AddFdWatcher, RemoveFdWatcher, WatcherCall, MayCall
    <2>2. loop' = loop \/ loop' = [loop EXCEPT !.pos = loop.pos - 1]
      BY <1>7 DEF AddFdWatcher, RemoveFdWatcher
    <2>3. loop'.timer = loop.timer /\ loop'.at = loop.at
      BY <1>1, <2>2, LoopRecord
    <2> QED
      BY <2>1, <2>3
  <1>8. ASSUME NEW f \in Fds, DataArrives(f)
        PROVE  UNCHANGED <<left, interval, repeat, running, mTimers, mTimerLock, todo,
                           loop, pipe>>
    BY <1>8 DEF DataArrives
  <1> QED
    BY <1>2, <1>3, <1>4, <1>5, <1>6, <1>7, <1>8

LEMMA OtherStep ==
  ASSUME Core, Typed',
         UNCHANGED <<left, interval, repeat, running, mTimers, mTimerLock, todo>>,
         loop'.timer = loop.timer,
         loop'.at = loop.at \/ (~Executing /\ ~Executing' /\ todo[Loop] = <<>>),
         loop'.at = "select" => UNCHANGED <<pipe, loop>>
  PROVE  Core'
  <1>1. ASSUME At("select")', NEW t \in Timers, Listed(t)' PROVE WakesBy(t)'
    BY <1>1 DEF Core, WakesBy, Listed, At
  <1> QED
    BY <1>1, TimersStay DEF At

LEMMA CoreInit == ASSUME Init PROVE Core
  <1>1. Typed
    BY TypeInit
  <1>2. Len(mTimers) = 0 /\ 1..0 = {}
    BY DEF Init
  <1>3. (\A t : ~Listed(t) /\ ~Stays(t)) /\ Once(mTimers) /\ Ordered(mTimers, left)
    BY <1>2 DEF Stays, Listed, Once, Ordered
  <1>4. ASSUME NEW t \in Timers PROVE PendingOf(t)
    <2>1. todo[Owner[t]] = <<>> /\ ~running[t]
      BY LoopAssumption DEF Init
    <2>2. <<>> \notin Changing(t) /\ Starting(t) \subseteq Changing(t) /\ Added(t) # <<>>
      BY CallsDiffer, Changes, Programs
    <2> QED
      BY <1>3, <2>1, <2>2 DEF PendingOf
  <1>5. /\ \A p \in Threads : todo[p] = <<>>
        /\ Loop \in Threads /\ mTimerLock = None /\ None # Loop
        /\ loop.at = "build" /\ loop.timer = None
    BY LoopAssumption DEF Init, Threads
  <1>6. \A t \in Timers : left[t] >= -MaxLate
    BY LoopAssumption DEF Init
  <1> QED
    BY <1>1, <1>3, <1>4, <1>5, <1>6 DEF Core, CallOf, At, Executing

LEMMA CoreStep ==
  ASSUME ~SelfRestart, ~Turns, Core, [Next]_vars PROVE Core'
  <1>1. Typed'
    BY TypeStep DEF Core
  <1>2. CASE UNCHANGED vars
    BY <1>1, <1>2, OtherStep DEF vars
  <1>3. ASSUME NEW p \in Threads, Begins(p) \/ Continues(p) PROVE Core'
    BY <1>1, <1>3, BeginStep, ContinueStep
  <1>4. ASSUME RunNoTimer \/ RunTimer \/ HandlerReturns \/ ExecuteReturns PROVE Core'
    BY <1>1, <1>4, RunNoTimerStep, RunTimerStep, HandlerReturnsStep, ExecuteReturnsStep
  <1>5. ASSUME Tick PROVE Core'
    BY <1>1, <1>5, TickStep
  <1>6. ASSUME \/ BuildFdSet \/ ReadCommand \/ SelectReady \/ SelectReturns \/ Visit
               \/ CallbackReturns
               \/ \E f \in Fds : AddFdWatcher(f) \/ RemoveFdWatcher(f) \/ DataArrives(f)
        PROVE  Core'
    BY <1>1, <1>6, OtherSteps, OtherStep
  <1> QED
    BY <1>2, <1>3, <1>4, <1>5, <1>6 DEF Next, LoopStep, SelectTimesOut

\* The timers' inductive invariant, when a one-shot timer's own handler leaves it
\* alone and no other thread changes a timer's kind while it is executed.
THEOREM CoreHolds == ASSUME ~SelfRestart, ~Turns PROVE Spec => []Core
  <1> QED
    BY CoreInit, CoreStep, PTL DEF Spec

----------------------------------------------------------------------------
(* What follows for the timers *)

\* No timer is in the list twice, in whatever order start(), stop() and restart()
\* of several threads overlap with each other and with execute(), also where a
\* start() finds mRunning cleared before runTimers() has erased the timer.  Two
\* things are assumed of the callers: a one-shot timer's handler leaves it alone,
\* and while a timer is executed no other thread makes a one-shot a repeating
\* timer or the reverse.
THEOREM EachTimerOnce == ASSUME ~SelfRestart, ~Turns PROVE Spec => []NoTimerTwice
  <1>1. Core => NoTimerTwice
    BY CoreParts
  <1> QED
    BY <1>1, CoreHolds, PTL

\* The timer runTimers() looks at is the one that is due first, although
\* start() writes mExpiry without the lock, also that of a one-shot timer that
\* is executed and not yet erased.
THEOREM FrontOfTheList == ASSUME ~SelfRestart, ~Turns PROVE Spec => []FrontIsEarliest
  <1>1. Core => FrontIsEarliest
    BY FirstIsLeast DEF FrontIsEarliest, At
  <1> QED
    BY <1>1, CoreHolds, PTL

\* The loop does not sleep past a timer: the timeout ends in time, or a byte to
\* wake it is in the pipe, or the thread that is about to write it is inside
\* its call.
THEOREM SleepsNoLonger == ASSUME ~SelfRestart, ~Turns PROVE Spec => []NoOversleep
  <1>1. Core => NoOversleep
    <2> SUFFICES ASSUME Core, At("select"), pipe = <<>>, NEW t \in Timers, Listed(t),
                        \A p \in Threads : todo[p] = <<>>
                 PROVE  loop.wait = 0 \/ loop.wait <= left[t] + loop.lag
      BY DEF NoOversleep
    <2>1. Len(<<>>) = 0 /\ 1..0 = {}
      OBVIOUS
    <2>2. ~Wakes(<<>>)
      BY <2>1 DEF Wakes
    <2> QED
      BY <2>2 DEF Core, WakesBy
  <1> QED
    BY <1>1, CoreHolds, PTL

\* Every call on a timer that is not done has a step left on it.
LEMMA ChangingIsUnsettled ==
  ASSUME NEW t \in Timers, Owner[t] \in Threads, Settled(t)
  PROVE  todo[Owner[t]] \notin Changing(t)
  <1> DEFINE c == todo[Owner[t]]
  <1> SUFFICES ASSUME c \in Changing(t) PROVE FALSE
    OBVIOUS
  <1>1. c \in {Added(t), RemovedThenAgain(t), WakeAgain(t), Again(t), Removed(t)}
    BY Changes
  <1>2. \A k \in 1..Len(c) : c[k] # <<"wake">> =>
          c[k] = <<"terminate">> \/ c[k][2] # t
    BY DEF Settled
  <1> HIDE DEF c
  <1>3. PICK k \in 1..Len(c) : c[k] \in {<<"add", t>>, <<"remove", t>>, <<"again", t>>}
    <2>1. /\ Len(Added(t)) = 2 /\ Added(t)[1] = <<"add", t>>
          /\ Len(Removed(t)) = 2 /\ Removed(t)[1] = <<"remove", t>>
      BY DEF Added, Removed
    <2>2. Len(RemovedThenAgain(t)) = 3 /\ RemovedThenAgain(t)[1] = <<"remove", t>>
      BY DEF RemovedThenAgain
    <2>3. /\ Len(WakeAgain(t)) = 2 /\ WakeAgain(t)[2] = <<"again", t>>
          /\ Len(Again(t)) = 1 /\ Again(t)[1] = <<"again", t>>
      BY DEF WakeAgain, Again
    <2>4. CASE c \in {Added(t), RemovedThenAgain(t), Again(t), Removed(t)}
      <3>1. /\ Len(c) \in {1, 2, 3}
            /\ c[1] = <<"add", t>> \/ c[1] = <<"remove", t>> \/ c[1] = <<"again", t>>
        <4>1. CASE c = Added(t)
          BY <2>1, <4>1
        <4>2. CASE c = RemovedThenAgain(t)
          BY <2>2, <4>2
        <4>3. CASE c = Again(t)
          BY <2>3, <4>3
        <4>4. CASE c = Removed(t)
          BY <2>1, <4>4
        <4> QED
          BY <2>4, <4>1, <4>2, <4>3, <4>4
      <3>2. 1 \in 1..Len(c)
        BY <3>1
      <3> QED
        BY <3>1, <3>2
    <2>5. CASE c = WakeAgain(t)
      <3>1. 2 \in 1..Len(c) /\ c[2] = <<"again", t>>
        BY <2>3, <2>5
      <3> QED
        BY <3>1
    <2> QED
      BY <1>1, <2>4, <2>5
  <1>4. c[k] # <<"wake">> /\ c[k] # <<"terminate">> /\ c[k][2] = t
    BY <1>3, StepsDiffer
  <1> QED
    BY <1>2, <1>4

LEMMA CoreListed == ASSUME Core PROVE RunningIffListed
  <1> SUFFICES ASSUME NEW t \in Timers, Settled(t), loop.timer # t
               PROVE  running[t] <=> Listed(t)
    BY DEF RunningIffListed
  <1>1. Owner[t] \in Threads
    BY LoopAssumption
  <1>2. Stays(t) <=> Listed(t)
    BY DEF Stays, Erasing
  <1> QED
    BY <1>1, <1>2, ChangingIsUnsettled DEF Core, PendingOf

\* A timer that is not being executed is in the list exactly when it is running,
\* once the calls on it are done.
THEOREM ListedIffRunning == ASSUME ~SelfRestart, ~Turns PROVE Spec => []RunningIffListed
  BY CoreListed, CoreHolds, PTL

----------------------------------------------------------------------------
(* How far ahead the timers are.  The intervals must be less than half of  *)
(* what an int32_t holds: execute() adds one to an expiry.                 *)

SmallIntervals == \A i \in Intervals : 2 * i < Half

RangeOf(t) ==
  /\ Listed(t) \/ todo[Owner[t]] \in Starting(t) => interval[t] \in Intervals
  /\ Listed(t) => left[t] < Half
  /\ todo[Owner[t]] = Added(t) \/ (Listed(t) /\ loop.timer = t /\ At("handler"))
       => 2 * left[t] < Half

\* A timer that nobody touches.
LEMMA RangeSame ==
  ASSUME Core, NEW t \in Timers, RangeOf(t), Listed(t)' => Listed(t),
         todo'[Owner[t]] \in Starting(t) => todo'[Owner[t]] = todo[Owner[t]],
         interval'[t] = interval[t], left'[t] \in Int, left'[t] <= left[t],
         loop'.timer = t /\ At("handler")' => loop.timer = t /\ At("handler")
  PROVE  RangeOf(t)'
  <1>1. left[t] \in Int /\ Half \in Nat
    BY LoopFacts
  <1>2. Added(t) \in Starting(t)
    BY Changes
  <1>3. left[t] < Half => left'[t] < Half
    BY <1>1
  <1>4. 2 * left[t] < Half => 2 * left'[t] < Half
    BY <1>1
  <1> QED
    BY <1>2, <1>3, <1>4 DEF RangeOf

\* The call of thread p on its timer t goes on, to the rest c.
LEMMA RangeCall ==
  ASSUME Core, InRange, NEW p \in Threads, NEW t \in Timers, NEW c, Owner[t] = p,
         todo' = [todo EXCEPT ![p] = c], c \in {<<>>, Wake} \cup Changing(t),
         \A u \in Timers : u # t => /\ left'[u] = left[u] /\ interval'[u] = interval[u]
                                    /\ Listed(u)' => Listed(u),
         loop' = loop, RangeOf(t)'
  PROVE  InRange'
  <1> SUFFICES ASSUME NEW u \in Timers, u # t PROVE RangeOf(u)'
    BY DEF InRange, RangeOf
  <1>1. RangeOf(u) /\ left[u] \in Int
    BY LoopFacts DEF InRange, RangeOf
  <1>2. Owner[u] \in Threads /\ todo \in [Threads -> Seq(Steps)]
    BY LoopAssumption DEF Core, Typed, TypeOK
  <1>3. c \notin Starting(u)
    BY CallsDiffer, Changes
  <1>4. todo'[Owner[u]] = c \/ todo'[Owner[u]] = todo[Owner[u]]
    BY <1>2
  <1>5. left'[u] = left[u] /\ interval'[u] = interval[u] /\ (Listed(u)' => Listed(u))
    OBVIOUS
  <1>6. left'[u] <= left[u] /\ left'[u] \in Int
    BY <1>1, <1>5
  <1> QED
    BY <1>1, <1>3, <1>4, <1>5, <1>6, RangeSame DEF At

LEMMA RangeBegin ==
  ASSUME SmallIntervals, Core, InRange, NEW p \in Threads, Begins(p) PROVE InRange'
  <1>0. /\ \A t \in Timers : RangeOf(t) /\ left[t] \in Int
        /\ todo \in [Threads -> Seq(Steps)] /\ Intervals \subseteq Nat
        /\ left \in [Timers -> Int] /\ interval \in [Timers -> Intervals \cup {TimerInfinite}]
    <2>1. \A t \in Timers : RangeOf(t) /\ left[t] \in Int
      BY LoopFacts DEF InRange, RangeOf
    <2> QED
      BY <2>1, LoopAssumption DEF Core, Typed, TypeOK
  <1>1. ASSUME NEW c, Calls(p, c)
        PROVE  /\ todo' = [todo EXCEPT ![p] = c] /\ loop' = loop
               /\ \A u : Listed(u)' <=> Listed(u)
    BY <1>1 DEF Calls, Listed
  <1>2. ASSUME NEW t \in Timers
        PROVE  /\ Added(t) \in Starting(t) /\ Removed(t) \notin Starting(t)
               /\ RemovedThenAgain(t) \in Starting(t) /\ RemovedThenAgain(t) # Added(t)
               /\ <<>> \notin Starting(t) /\ Starting(t) \subseteq Changing(t)
               /\ Removed(t) \in Changing(t) /\ Terminate \notin Starting(t)
    BY Changes, CallsDiffer
  <1>3. ASSUME NEW t \in Timers, NEW i \in Intervals, NEW r \in BOOLEAN, Arms(t, i, r),
               Owner[t] = p, Calls(p, Added(t))
        PROVE  InRange'
    <2>1. \A u \in Timers : u # t => left'[u] = left[u] /\ interval'[u] = interval[u]
      BY <1>0, <1>3 DEF Arms
    <2>2. left'[t] = i /\ interval'[t] = i
      BY <1>0, <1>3 DEF Arms
    <2>3. i \in Nat /\ 2 * i < Half /\ Half \in Nat
      BY <1>0, LoopFacts DEF SmallIntervals
    <2>5. i < Half
      BY <2>3
    <2>4. RangeOf(t)'
      BY <2>2, <2>3, <2>5 DEF RangeOf
    <2> QED
      BY <1>1, <1>2, <1>3, <2>1, <2>4, RangeCall
  \* The other calls leave the expiry.
  <1>4. ASSUME NEW t \in Timers, NEW c, left' = left, Owner[t] = p, Calls(p, c),
               c = <<>> \/ c \in Changing(t), c # Added(t),
               \A u \in Timers : u # t => interval'[u] = interval[u],
               interval'[t] \in Intervals \/ (interval' = interval /\ c \notin Starting(t))
        PROVE  InRange'
    <2>1. RangeOf(t)'
      <3>1. todo'[Owner[t]] = c
        BY <1>0, <1>1, <1>4
      <3> QED
        BY <1>0, <1>1, <1>4, <3>1 DEF RangeOf, At
    <2> QED
      BY <1>1, <1>4, <2>1, RangeCall
  <1>5. ASSUME NEW t \in Timers, StopTimer(p, t) PROVE InRange'
    <2>1. Owner[t] = p /\ Calls(p, Removed(t)) /\ left' = left /\ interval' = interval
      BY <1>5 DEF StopTimer, MayUse
    <2>2. Removed(t) \in Changing(t) \ Starting(t) /\ Removed(t) # Added(t)
      BY <1>2
    <2> QED
      BY <1>4, <2>1, <2>2
  <1>6. ASSUME NEW t \in Timers, RestartTimer(p, t) PROVE InRange'
    <2>1. /\ Owner[t] = p /\ MayCall(p) /\ interval[t] \in Intervals
          /\ \/ /\ left' = left /\ interval' = interval /\ Calls(p, RemovedThenAgain(t))
             \/ ~running[t] /\ Arms(t, interval[t], repeat[t]) /\ Calls(p, Added(t))
      BY <1>6 DEF RestartTimer, MayUse
    <2>2. repeat[t] \in BOOLEAN
      BY DEF Core, Typed, TypeOK
    <2>3. RemovedThenAgain(t) \in Changing(t) /\ RemovedThenAgain(t) # Added(t)
      BY <1>2
    <2> QED
      BY <1>3, <1>4, <2>1, <2>2, <2>3
  <1>7. ASSUME NEW t \in Timers, NEW i \in Intervals, SetInterval(p, t, i) PROVE InRange'
    <2>1. Owner[t] = p /\ Calls(p, <<>>) /\ left' = left
          /\ interval' = [interval EXCEPT ![t] = i]
      BY <1>7 DEF SetInterval, MayUse
    <2>2. interval'[t] = i /\ \A u \in Timers : u # t => interval'[u] = interval[u]
      BY <1>0, <2>1
    <2>3. <<>> # Added(t)
      BY Programs
    <2> QED
      BY <1>4, <2>1, <2>2, <2>3
  <1>8. ASSUME NEW t \in Timers, NEW r \in BOOLEAN, SetRepeat(p, t, r) PROVE InRange'
    <2>1. Owner[t] = p /\ Calls(p, <<>>) /\ left' = left /\ interval' = interval
      BY <1>8 DEF SetRepeat, MayUse
    <2>2. <<>> # Added(t) /\ <<>> \notin Starting(t)
      BY <1>2, Programs
    <2> QED
      BY <1>4, <2>1, <2>2
  <1>9. ASSUME NEW t \in Timers, NEW i \in Intervals, NEW r \in BOOLEAN,
               StartTimer(p, t, i, r)
        PROVE  InRange'
    BY <1>3, <1>9 DEF StartTimer, MayUse
  <1>10. CASE CallTerminate(p)
    <2>1. Calls(p, Terminate) /\ left' = left /\ interval' = interval
      BY <1>10 DEF CallTerminate, timerFields, Terminate
    <2>2. ASSUME NEW u \in Timers PROVE RangeOf(u)'
      <3>1. Owner[u] \in Threads
        BY LoopAssumption
      <3>2. todo'[Owner[u]] = Terminate \/ todo'[Owner[u]] = todo[Owner[u]]
        BY <1>0, <1>1, <2>1, <3>1
      <3>3. left'[u] <= left[u] /\ left'[u] \in Int
        BY <1>0, <2>1
      <3> QED
        BY <1>0, <1>1, <1>2, <2>1, <3>2, <3>3, RangeSame DEF At
    <2> QED
      BY <2>2 DEF InRange, RangeOf
  <1> QED
    BY <1>5, <1>6, <1>7, <1>8, <1>9, <1>10 DEF Begins

\* A timer is new to the list only by addTimer().
LEMMA ListSteps ==
  ASSUME Core, NEW p \in Threads, NEW t \in Timers
  PROVE  /\ DoAdd(p, t) => \A u : Listed(u)' => Listed(u) \/ u = t
         /\ DoRemove(p, t) => \A u : Listed(u)' => Listed(u)
  <1>1. mTimers \in Seq(Timers) /\ left \in [Timers -> Int]
    BY DEF Core, Typed, TypeOK
  <1>2. \A u : (Listed(u) <=> In(mTimers, u)) /\ (Listed(u)' <=> In(mTimers', u))
    BY DEF Listed, In
  <1>3. ASSUME DoAdd(p, t), NEW u, In(mTimers', u) PROVE In(mTimers, u) \/ u = t
    <2> DEFINE list == Append(mTimers, t)
    <2>1. mTimers' = SortTimers(list, left)
      BY <1>3 DEF DoAdd
    <2>2. /\ list \in Seq(Timers) /\ Len(list) = Len(mTimers) + 1 /\ Len(mTimers) \in Nat
          /\ \A i \in 1..Len(mTimers) : list[i] = mTimers[i]
          /\ list[Len(mTimers) + 1] = t
      BY <1>1, Queue
    <2> HIDE DEF list
    <2>3. In(list, u)
      BY <1>1, <1>3, <2>1, <2>2, Sorts
    <2>4. PICK i \in 1..Len(list) : list[i] = u
      BY <2>3 DEF In
    <2>5. i \in 1..Len(mTimers) \/ i = Len(mTimers) + 1
      BY <2>2
    <2> QED
      BY <2>2, <2>4, <2>5 DEF In
  <1>4. ASSUME DoRemove(p, t), NEW u, In(mTimers', u) PROVE In(mTimers, u)
    <2>1. CASE In(mTimers, t)
      <3> DEFINE k == FirstAt(mTimers, t)
                 r == RemoveAt(mTimers, k)
      <3>1. mTimers' = SortTimers(r, left)
        BY <1>1, <1>2, <1>4, <2>1, FirstErased DEF DoRemove
      <3>2. k \in 1..Len(mTimers)
        BY <1>1, <2>1, FirstCopy
      <3> HIDE DEF k
      <3>3. r \in Seq(Timers) /\ (In(r, u) => In(mTimers, u))
        BY <1>1, <3>2, Erased
      <3> HIDE DEF r
      <3> QED
        BY <1>1, <1>4, <3>1, <3>3, Sorts
    <2>2. CASE ~In(mTimers, t)
      BY <1>2, <1>4, <2>2 DEF DoRemove
    <2> QED
      BY <2>1, <2>2
  <1> QED
    BY <1>2, <1>3, <1>4

LEMMA RangeContinue ==
  ASSUME SmallIntervals, Core, InRange, NEW p \in Threads, Continues(p) PROVE InRange'
  <1>0. /\ \A t \in Timers : RangeOf(t) /\ left[t] \in Int
        /\ todo \in [Threads -> Seq(Steps)] /\ Half \in Nat \ {0}
        /\ mTimers \in Seq(Timers)
    <2>1. \A t \in Timers : RangeOf(t) /\ left[t] \in Int
      BY LoopFacts DEF InRange, RangeOf
    <2> QED
      BY <2>1, LoopAssumption DEF Core, Typed, TypeOK
  <1>1. ASSUME NEW t \in Timers
        PROVE  /\ Added(t) \in Starting(t) /\ Again(t) \in Starting(t)
               /\ RemovedThenAgain(t) \in Starting(t) /\ WakeAgain(t) \in Starting(t)
               /\ WakeAgain(t) # Added(t) /\ Again(t) # Added(t) /\ Wake \notin Starting(t)
               /\ <<>> \notin Starting(t) /\ Starting(t) \subseteq Changing(t)
               /\ Wake # Added(t) /\ <<>> # Added(t)
    BY Changes, CallsDiffer
  <1>2. ASSUME NEW t \in Timers, DoAdd(p, t) PROVE InRange'
    <2>1. Owner[t] = p /\ todo[p] = Added(t) /\ Tail(todo[p]) = Wake
      BY <1>2, NextStep DEF Core, DoAdd, Does
    <2>2. todo' = [todo EXCEPT ![p] = Wake] /\ UNCHANGED <<left, interval, loop>>
      BY <1>2, <2>1 DEF DoAdd, Does
    <2>3. interval[t] \in Intervals /\ 2 * left[t] < Half
      BY <1>0, <1>1, <2>1 DEF RangeOf
    <2>4. left[t] < Half
      BY <1>0, <2>3
    <2>5. todo'[Owner[t]] = Wake
      BY <1>0, <2>1, <2>2
    <2>6. RangeOf(t)'
      BY <1>1, <2>2, <2>3, <2>4, <2>5 DEF RangeOf
    <2>7. \A u : Listed(u)' => Listed(u) \/ u = t
      BY <1>2, ListSteps
    <2> QED
      BY <1>1, <2>1, <2>2, <2>6, <2>7, RangeCall
  <1>3. ASSUME NEW t \in Timers, DoRemove(p, t) PROVE InRange'
    <2> DEFINE c == Tail(todo[p])
    <2>1. /\ Owner[t] = p
          /\ \/ todo[p] = Removed(t) /\ c = Wake
             \/ todo[p] = RemovedThenAgain(t) /\ c = WakeAgain(t)
      BY <1>3, NextStep DEF Core, DoRemove, Does
    <2>2. todo' = [todo EXCEPT ![p] = c] /\ UNCHANGED <<left, interval, loop>>
      BY <1>3 DEF DoRemove, Does
    <2> HIDE DEF c
    <2>3. todo'[Owner[t]] = c
      BY <1>0, <2>1, <2>2
    <2>4. \A u : Listed(u)' => Listed(u)
      BY <1>3, ListSteps
    <2>5. c \in Starting(t) => interval[t] \in Intervals
      BY <1>0, <1>1, <2>1 DEF RangeOf
    <2>6. c # Added(t)
      BY <1>1, <2>1
    <2>7. RangeOf(t)'
      BY <1>0, <2>2, <2>3, <2>4, <2>5, <2>6 DEF RangeOf, At
    <2>8. c \in {<<>>, Wake} \cup Changing(t)
      BY <1>1, <2>1
    <2> QED
      BY <2>1, <2>2, <2>4, <2>7, <2>8, RangeCall
  <1>4. ASSUME NEW t \in Timers, DoAgain(p, t) PROVE InRange'
    <2>1. Owner[t] = p /\ todo[p] = Again(t)
      BY <1>4, NextStep DEF Core, DoAgain
    <2>2. interval[t] \in Intervals /\ ~running[t]
      <3>1. Again(t) \notin {Added(t), RemovedThenAgain(t)}
        BY CallsDiffer
      <3> QED
        BY <1>0, <1>1, <2>1, <3>1 DEF RangeOf, Core, PendingOf
    <2>3. /\ todo' = [todo EXCEPT ![p] = Added(t)] /\ Arms(t, interval[t], repeat[t])
          /\ mTimers' = mTimers /\ loop' = loop
      BY <1>4, <2>2 DEF DoAgain
    <2>4. left'[t] = interval[t] /\ interval'[t] = interval[t]
      BY <2>3 DEF Arms, Core, Typed, TypeOK
    <2>5. \A u \in Timers : u # t => left'[u] = left[u] /\ interval'[u] = interval[u]
      BY <2>3 DEF Arms, Core, Typed, TypeOK
    <2>6. \A u : Listed(u)' <=> Listed(u)
      BY <2>3 DEF Listed
    <2>7. RangeOf(t)'
      <3>1. interval[t] \in Nat /\ 2 * interval[t] < Half
        BY <2>2, LoopAssumption DEF SmallIntervals
      <3>2. interval[t] < Half
        BY <1>0, <3>1
      <3> QED
        BY <2>2, <2>4, <3>1, <3>2 DEF RangeOf
    <2> QED
      BY <1>1, <2>1, <2>3, <2>5, <2>6, <2>7, RangeCall
  <1>5. CASE DoWake(p) \/ DoTerminate(p)
    <2> DEFINE c == Tail(todo[p])
    <2>1. /\ todo' = [todo EXCEPT ![p] = c] /\ UNCHANGED <<left, interval, loop>>
          /\ \A u : Listed(u)' <=> Listed(u)
          /\ todo[p] # <<>> /\ Head(todo[p]) \in {<<"wake">>, <<"terminate">>}
      BY <1>5 DEF DoWake, DoTerminate, Does, Listed
    <2>2. \/ c = <<>>
          \/ \E t \in Timers : Owner[t] = p /\ todo[p] = WakeAgain(t) /\ c = Again(t)
      BY <2>1, NextStep DEF Core
    <2> HIDE DEF c
    <2>3. CASE c = <<>>
      <3>1. ASSUME NEW u \in Timers PROVE RangeOf(u)'
        <4>1. Owner[u] \in Threads
          BY LoopAssumption
        <4>2. todo'[Owner[u]] = <<>> \/ todo'[Owner[u]] = todo[Owner[u]]
          BY <1>0, <2>1, <2>3, <4>1
        <4>3. left'[u] <= left[u] /\ left'[u] \in Int
          BY <1>0, <2>1
        <4> QED
          BY <1>0, <1>1, <2>1, <4>2, <4>3, RangeSame DEF At
      <3> QED
        BY <3>1 DEF InRange, RangeOf
    <2>4. ASSUME NEW t \in Timers, Owner[t] = p, todo[p] = WakeAgain(t), c = Again(t)
          PROVE  InRange'
      <3>1. todo'[Owner[t]] = c
        BY <1>0, <2>1, <2>4
      <3>2. RangeOf(t)'
        BY <1>0, <1>1, <2>1, <2>4, <3>1 DEF RangeOf, At
      <3>3. c \in {<<>>, Wake} \cup Changing(t)
        BY <1>1, <2>4
      <3> QED
        BY <2>1, <2>4, <3>2, <3>3, RangeCall
    <2> QED
      BY <2>2, <2>3, <2>4
  <1> QED
    BY <1>2, <1>3, <1>4, <1>5 DEF Continues

LEMMA RangeLoop ==
  ASSUME SmallIntervals, Core, InRange,
         LoopStep \/ SelectReturns \/ Tick \/ UNCHANGED vars
         \/ \E f \in Fds : AddFdWatcher(f) \/ RemoveFdWatcher(f) \/ DataArrives(f)
  PROVE  InRange'
  <1>0. /\ \A t \in Timers : RangeOf(t) /\ left[t] \in Int
        /\ loop \in LoopStates /\ None \notin Timers /\ Half \in Nat \ {0}
    <2>1. \A t \in Timers : RangeOf(t) /\ left[t] \in Int
      BY LoopFacts DEF InRange, RangeOf
    <2> QED
      BY <2>1, LoopAssumption, LoopFacts
  \* Nothing happens to the timers, or they come nearer.
  <1>1. ASSUME UNCHANGED <<interval, mTimers, todo>>,
               \/ loop'.timer = None
               \/ loop'.timer = loop.timer /\ (At("handler")' => At("handler")),
               \A u \in Timers : left'[u] \in Int /\ left'[u] <= left[u]
        PROVE  InRange'
    <2> SUFFICES ASSUME NEW u \in Timers PROVE RangeOf(u)'
      BY DEF InRange, RangeOf
    <2>1. Listed(u)' <=> Listed(u)
      BY <1>1 DEF Listed
    <2> QED
      BY <1>0, <1>1, <2>1, RangeSame
  <1>2. CASE \/ BuildFdSet \/ ReadCommand \/ SelectReady \/ SelectReturns \/ Visit
             \/ CallbackReturns \/ UNCHANGED vars
             \/ \E f \in Fds : AddFdWatcher(f) \/ RemoveFdWatcher(f) \/ DataArrives(f)
    <2>1. /\ UNCHANGED <<left, interval, mTimers, todo>> /\ loop'.timer = loop.timer
          /\ At("handler")' => At("handler")
      BY <1>2, OtherSteps DEF vars, Executing, At
    <2>2. \A u \in Timers : left'[u] \in Int /\ left'[u] <= left[u]
      BY <1>0, <2>1
    <2> QED
      BY <1>1, <2>1, <2>2
  <1>3. CASE Tick
    <2>1. /\ UNCHANGED <<interval, mTimers, todo>>
          /\ \A u \in Timers : left'[u] = IF left[u] \in {TimerInfinite, -MaxLate}
                                          THEN left[u] ELSE left[u] - 1
      BY <1>3 DEF Tick
    <2>2. \A u \in Timers : left'[u] \in Int /\ left'[u] <= left[u]
      BY <1>0, <2>1
    <2>3. loop'.timer = loop.timer /\ loop'.at = loop.at
      <3>1. \/ loop' = [loop EXCEPT !.wait = IF loop.wait = 0 THEN 0 ELSE loop.wait - 1]
            \/ loop' = [loop EXCEPT !.lag = loop.lag + 1]
        BY <1>3 DEF Tick
      <3> QED
        BY <1>0, <3>1, LoopRecord
    <2> QED
      BY <1>1, <2>1, <2>2, <2>3 DEF At
  <1>4. CASE RunNoTimer
    <2>1. PICK d : loop' = Waits([loop EXCEPT !.lag = 0], d)
      BY <1>4 DEF RunNoTimer
    <2>2. UNCHANGED <<left, interval, mTimers, todo>>
      BY <1>4 DEF RunNoTimer
    <2>3. [loop EXCEPT !.lag = 0] \in LoopStates
      BY <1>0, LoopRecord
    <2>4. loop'.timer = None
      BY <2>1, <2>3, WaitsTimer
    <2>5. \A u \in Timers : left'[u] \in Int /\ left'[u] <= left[u]
      BY <1>0, <2>2
    <2> QED
      BY <1>1, <2>2, <2>4, <2>5
  <1>5. CASE RunTimer
    <2> DEFINE h == Head(mTimers)
    <2>1. /\ mTimers # <<>> /\ left[h] <= 0
          /\ loop' = [loop EXCEPT !.at = "handler", !.timer = h, !.lag = 0]
          /\ UNCHANGED <<left, interval, mTimers, todo>>
      BY <1>5 DEF RunTimer
    <2>2. h \in Timers
      BY <2>1, FirstIsListed
    <2> HIDE DEF h
    <2>3. loop'.timer = h
      BY <1>0, <2>1, <2>2, LoopRecord
    <2>4. ASSUME NEW u \in Timers PROVE RangeOf(u)'
      <3>1. Listed(u)' <=> Listed(u)
        BY <2>1 DEF Listed
      <3>2. u = h => 2 * left[u] < Half
        BY <1>0, <2>1, <2>2
      <3> QED
        BY <1>0, <2>1, <2>3, <3>1, <3>2 DEF RangeOf
    <2> QED
      BY <2>4 DEF InRange, RangeOf
  \* execute() adds the interval to an expiry that is past.
  <1>6. CASE HandlerReturns
    <2>1. PICK h \in Timers : h = loop.timer /\ HandlerOf(h) /\ At("handler")
      BY <1>6 DEF Core, Typed, HandlerReturns, Executing, At
    <2>2. /\ left' = IF repeat[h] THEN [left EXCEPT ![h] = left[h] + interval[h]] ELSE left
          /\ loop' = [loop EXCEPT !.at = "ran"]
          /\ todo[Loop] = <<>> /\ UNCHANGED <<interval, mTimers, todo>>
      BY <1>6, <2>1 DEF HandlerReturns
    <2>3. ~At("handler")'
      BY <1>0, <2>2, LoopRecord DEF At
    <2>4. \A u : Listed(u)' <=> Listed(u)
      BY <2>2 DEF Listed
    <2>5. left \in [Timers -> Int]
      BY DEF Core, Typed, TypeOK
    <2>6. ASSUME NEW u \in Timers, u # h PROVE RangeOf(u)'
      <3>1. left'[u] = left[u]
        BY <2>2, <2>5, <2>6
      <3>2. left'[u] \in Int /\ left'[u] <= left[u]
        BY <1>0, <3>1
      <3> QED
        BY <1>0, <2>2, <2>3, <2>4, <3>2, RangeSame
    <2>7. RangeOf(h)'
      <3>1. RangeOf(h)
        BY <1>0
      <3>2. left'[h] = left[h] \/ left'[h] = left[h] + interval[h]
        BY <2>2, <2>5
      <3>3. todo[Owner[h]] # Added(h)
        <4>1. CASE Owner[h] = Loop
          BY <2>2, <4>1, Programs
        <4>2. CASE Owner[h] # Loop
          <5>1. Stays(h) <=> Listed(h)
            BY <2>1 DEF Stays, Erasing, At
          <5> QED
            BY <2>1, <4>2, <5>1 DEF Core, HandlerOf, PendingOf
        <4> QED
          BY <4>1, <4>2
      <3>4. ASSUME Listed(h) PROVE left'[h] < Half
        <4>1. interval[h] \in Intervals /\ 2 * left[h] < Half
          BY <2>1, <3>1, <3>4 DEF RangeOf
        <4>2. interval[h] \in Nat /\ 2 * interval[h] < Half /\ left[h] \in Int
          BY <1>0, <4>1, IntervalTypes DEF SmallIntervals
        <4> QED
          BY <1>0, <3>2, <4>1, <4>2
      <3> QED
        BY <1>0, <2>2, <2>3, <2>4, <3>1, <3>3, <3>4 DEF RangeOf
    <2> QED
      BY <2>6, <2>7 DEF InRange, RangeOf
  <1>7. CASE ExecuteReturns
    <2>1. PICK h \in Timers : h = loop.timer
      BY <1>7 DEF Core, Typed, ExecuteReturns, TimersRun, Executing, At
    <2>2. PICK d : loop' = Waits(loop, d)
      BY <1>7 DEF ExecuteReturns, TimersRun
    <2>3. loop'.timer = None
      BY <1>0, <2>2, WaitsTimer
    <2>4. UNCHANGED <<left, interval, todo>>
      BY <1>7 DEF ExecuteReturns, TimersRun
    <2>5. \A u : Listed(u)' => Listed(u)
      BY <1>7, <2>1, ListAfterTimer
    <2>6. ASSUME NEW u \in Timers PROVE RangeOf(u)'
      <3>1. left'[u] \in Int /\ left'[u] <= left[u]
        BY <1>0, <2>4
      <3> QED
        BY <1>0, <2>3, <2>4, <2>5, <3>1, RangeSame
    <2> QED
      BY <2>6 DEF InRange, RangeOf
  <1> QED
    BY <1>2, <1>3, <1>4, <1>5, <1>6, <1>7 DEF LoopStep, SelectTimesOut

\* With small intervals a timer that is not due is less than 2^31 away.
LEMMA RangeMeans ==
  ASSUME Core, InRange PROVE SpinsOnlyForTimers
  <1> SUFFICES ASSUME mTimers # <<>>, left[Head(mTimers)] > 0
               PROVE  Timeout(left[Head(mTimers)]) > 0
    BY DEF SpinsOnlyForTimers
  <1> DEFINE d == left[Head(mTimers)]
  <1>1. Head(mTimers) \in Timers /\ Listed(Head(mTimers))
    BY FirstIsListed
  <1>2. d \in Int /\ d < Half
    BY <1>1, LoopFacts DEF InRange
  <1> HIDE DEF d
  <1>3. d > 0 => Timeout(d) > 0
    BY <1>2, Timeouts
  <1> QED
    BY <1>3 DEF d

LEMMA RangeInit == ASSUME Init PROVE InRange
  <1>1. \A t : ~Listed(t)
    <2>1. Len(mTimers) = 0 /\ 1..0 = {}
      BY DEF Init
    <2> QED
      BY <2>1 DEF Listed
  <1>2. ASSUME NEW t \in Timers
        PROVE  todo[Owner[t]] \notin Starting(t) /\ todo[Owner[t]] # Added(t)
    <2>1. todo[Owner[t]] = <<>>
      BY LoopAssumption DEF Init
    <2>2. <<>> \notin Changing(t) /\ Starting(t) \subseteq Changing(t) /\ Added(t) # <<>>
      BY CallsDiffer, Changes, Programs
    <2> QED
      BY <2>1, <2>2
  <1> QED
    BY <1>1, <1>2 DEF InRange

\* The list means what the timers' flags say, in the order of what is due, and
\* the loop spins only for a timer that is due, never for one to come.
THEOREM LoopInvariant ==
  ASSUME ~SelfRestart, ~Turns, SmallIntervals PROVE Spec => []LoopInv
  <1>1. Init => Core /\ InRange
    BY CoreInit, RangeInit
  <1>2. ASSUME Core, InRange, [Next]_vars PROVE (Core /\ InRange)'
    <2>1. Core'
      BY <1>2, CoreStep
    <2>2. ASSUME NEW p \in Threads, Begins(p) \/ Continues(p) PROVE InRange'
      BY <1>2, <2>2, RangeBegin, RangeContinue
    <2>3. InRange'
      BY <1>2, <2>2, RangeLoop DEF Next
    <2> QED
      BY <2>1, <2>3
  <1>3. Core /\ InRange => LoopInv
    <2> SUFFICES ASSUME Core, InRange PROVE LoopInv
      OBVIOUS
    <2>1. TypeOK
      BY DEF Core, Typed
    <2> QED
      BY <2>1, CoreParts, CoreListed, RangeMeans DEF LoopInv
  <1> QED
    BY <1>1, <1>2, <1>3, PTL DEF Spec

=============================================================================
