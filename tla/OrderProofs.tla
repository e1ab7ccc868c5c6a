---------------------------- MODULE OrderProofs -----------------------------
(***************************************************************************)
(* What sorting and selecting return, for any finite set, strict order and *)
(* sequence, and induction over the naturals and over intervals as facts   *)
(* about sets and functions.                                               *)
(*                                                                         *)
(* The rank of an element is the number of elements before it.  Ranks are  *)
(* different and smaller than the number of elements, so every one of them *)
(* is taken: the enumeration is a bijection that keeps the order, and the  *)
(* only one.  What comes after its k-th element is enumerated by the rest. *)
(* A selection is the sequence at increasing indexes.                      *)
(***************************************************************************)
EXTENDS Orders, FiniteSetTheorems, FunctionTheorems, WellFoundedInduction, TLAPS

(* A set of naturals that has 0 and every successor has all of them.        *)
LEMMA NatSetInduction ==
    ASSUME NEW S, 0 \in S, \A n \in Nat : n \in S => n + 1 \in S
    PROVE  Nat \subseteq S
  <1> SUFFICES ASSUME Nat \ S # {} PROVE FALSE
    OBVIOUS
  <1>1. PICK n \in Nat \ S : \A m \in Nat \ S : ~(<<m, n>> \in OpToRel(<, Nat))
    BY WFMin, NatLessThanWellFounded
  <1>2. n # 0 /\ n - 1 \in Nat /\ n - 1 < n
    OBVIOUS
  <1>3. <<n - 1, n>> \in OpToRel(<, Nat)
    BY <1>2 DEF OpToRel
  <1>4. n - 1 \in S
    BY <1>1, <1>2, <1>3
  <1>5. (n - 1) + 1 \in S
    BY <1>2, <1>4
  <1>6. (n - 1) + 1 = n
    OBVIOUS
  <1>. QED BY <1>1, <1>5, <1>6

(* What starts and goes on with the next reaches all of an interval.        *)
Inductive(lo, hi, S) ==
    /\ lo \in Int /\ hi \in Int
    /\ lo <= hi => lo \in S
    /\ \A i \in lo .. hi : i > lo /\ i - 1 \in S => i \in S

LEMMA IntervalInduction ==
    ASSUME NEW lo, NEW hi, NEW S, Inductive(lo, hi, S)
    PROVE  lo .. hi \subseteq S
  <1>0. /\ lo \in Int /\ hi \in Int
        /\ lo <= hi => lo \in S
        /\ \A i \in lo .. hi : i > lo /\ i - 1 \in S => i \in S
    BY DEF Inductive
  <1> DEFINE T == {k \in Nat : lo + k <= hi => lo + k \in S}
  <1>1. 0 \in T
    BY <1>0
  <1>2. ASSUME NEW k \in Nat, k \in T PROVE k + 1 \in T
    <2> SUFFICES ASSUME lo + (k + 1) <= hi PROVE lo + (k + 1) \in S
      OBVIOUS
    <2>1. lo + k \in S
      BY <1>0, <1>2
    <2>2. lo + (k + 1) \in lo .. hi /\ lo + (k + 1) > lo /\ (lo + (k + 1)) - 1 = lo + k
      BY <1>0
    <2>. QED BY <1>0, <2>1, <2>2
  <1>3. Nat \subseteq T
    <2> HIDE DEF T
    <2>. QED BY <1>1, <1>2, NatSetInduction
  <1>4. \A i \in lo .. hi : i - lo \in Nat /\ lo + (i - lo) = i
    BY <1>0
  <1>5. \A i \in lo .. hi : lo + (i - lo) <= hi
    BY <1>0
  <1>. QED BY <1>3, <1>4, <1>5

LEMMA FiniteUpTo ==
    ASSUME NEW n \in Nat
    PROVE  IsFiniteSet(1 .. n)
  BY ONLY n \in Nat, FS_Interval

(* Some natural of a set of naturals is the first.                          *)
LEMMA LeastNatural ==
    ASSUME NEW S \in SUBSET Nat, S # {}
    PROVE  \E n \in S : \A m \in S : n <= m
  <1>1. PICK n \in S : \A m \in S : ~(<<m, n>> \in OpToRel(<, Nat))
    BY WFMin, NatLessThanWellFounded
  <1>2. \A m \in S : ~(m < n)
    BY <1>1 DEF OpToRel
  <1>. QED BY <1>2

(* The values of a function over a finite set are finitely many.            *)
LEMMA FiniteValues ==
    ASSUME NEW S, IsFiniteSet(S), NEW f
    PROVE  IsFiniteSet({f[x] : x \in S})
  <1> DEFINE T == {f[x] : x \in S}
             g == [x \in S |-> f[x]]
  <1>1. g \in [S -> T] /\ \A t \in T : \E x \in S : g[x] = t
    OBVIOUS
  <1> HIDE DEF g, T
  <1>2. g \in Surjection(S, T)
    BY <1>1, Fun_IsSurj
  <1>3. IsFiniteSet(T)
    BY <1>2, FS_Surjection
  <1>. QED BY <1>3 DEF T

-----------------------------------------------------------------------------
StrictOrder(S, R) ==
    /\ \A x \in S : <<x, x>> \notin R
    /\ \A x, y, z \in S : <<x, y>> \in R /\ <<y, z>> \in R => <<x, z>> \in R
    /\ \A x, y \in S : x = y \/ <<x, y>> \in R \/ <<y, x>> \in R

Earlier(S, R, x) == {y \in S : <<y, x>> \in R}
RankIn(S, R, x) == Cardinality(Earlier(S, R, x))

(* The rank of an element is smaller than the number of elements, and ranks *)
(* are in the order of the elements.                                        *)
LEMMA Ranks ==
    ASSUME NEW S, NEW R, IsFiniteSet(S), StrictOrder(S, R)
    PROVE  /\ \A x \in S : RankIn(S, R, x) \in 0 .. Cardinality(S) - 1
           /\ \A x, y \in S : <<x, y>> \in R <=> RankIn(S, R, x) < RankIn(S, R, y)
           /\ \A x, y \in S : RankIn(S, R, x) = RankIn(S, R, y) => x = y
  <1>1. \A x \in S : /\ IsFiniteSet(Earlier(S, R, x)) /\ RankIn(S, R, x) \in Nat
                     /\ Earlier(S, R, x) \subseteq S
    <2> SUFFICES ASSUME NEW x \in S
                 PROVE  /\ IsFiniteSet(Earlier(S, R, x)) /\ RankIn(S, R, x) \in Nat
                        /\ Earlier(S, R, x) \subseteq S
      OBVIOUS
    <2>1. Earlier(S, R, x) \in SUBSET S
      BY DEF Earlier
    <2>. QED BY <2>1, FS_Subset, FS_CardinalityType DEF RankIn
  <1>2. Cardinality(S) \in Nat
    BY FS_CardinalityType
  <1>3. \A x \in S : RankIn(S, R, x) < Cardinality(S)
    <2> SUFFICES ASSUME NEW x \in S PROVE RankIn(S, R, x) < Cardinality(S)
      OBVIOUS
    <2>1. Earlier(S, R, x) \in SUBSET S /\ x \notin Earlier(S, R, x)
      BY DEF StrictOrder, Earlier
    <2>2. RankIn(S, R, x) <= Cardinality(S) /\ RankIn(S, R, x) # Cardinality(S)
      BY <2>1, FS_Subset DEF RankIn
    <2>. QED BY <1>1, <1>2, <2>2
  <1>4. \A x, y \in S : <<x, y>> \in R => RankIn(S, R, x) < RankIn(S, R, y)
    <2> SUFFICES ASSUME NEW x \in S, NEW y \in S, <<x, y>> \in R
                 PROVE  RankIn(S, R, x) < RankIn(S, R, y)
      OBVIOUS
    <2>1. Earlier(S, R, x) \in SUBSET Earlier(S, R, y)
      BY DEF StrictOrder, Earlier
    <2>2. x \in Earlier(S, R, y) /\ x \notin Earlier(S, R, x)
      BY DEF StrictOrder, Earlier
    <2>3. RankIn(S, R, x) <= RankIn(S, R, y) /\ RankIn(S, R, x) # RankIn(S, R, y)
      BY <1>1, <2>1, <2>2, FS_Subset DEF RankIn
    <2>. QED BY <1>1, <2>3
  <1>5. \A x, y \in S : x = y \/ RankIn(S, R, x) < RankIn(S, R, y) \/ RankIn(S, R, y) < RankIn(S, R, x)
    BY <1>4 DEF StrictOrder
  <1>6. \A x, y \in S : x = y \/ <<x, y>> \in R \/ <<y, x>> \in R
    BY DEF StrictOrder
  <1>7. \A x \in S : RankIn(S, R, x) \in Nat
    BY <1>1
  <1>8. \A x, y \in S : RankIn(S, R, x) < RankIn(S, R, y) => <<x, y>> \in R
    <2> SUFFICES ASSUME NEW x \in S, NEW y \in S, RankIn(S, R, x) < RankIn(S, R, y),
                        <<x, y>> \notin R
                 PROVE  FALSE
      OBVIOUS
    <2>1. x = y \/ RankIn(S, R, y) < RankIn(S, R, x)
      BY <1>4, <1>6
    <2>2. RankIn(S, R, x) \in Nat /\ RankIn(S, R, y) \in Nat
      BY <1>7
    <2>. QED BY <2>1, <2>2
  <1>9. \A x, y \in S : RankIn(S, R, x) = RankIn(S, R, y) => x = y
    <2> SUFFICES ASSUME NEW x \in S, NEW y \in S, RankIn(S, R, x) = RankIn(S, R, y) PROVE x = y
      OBVIOUS
    <2>1. RankIn(S, R, x) \in Nat /\ RankIn(S, R, y) \in Nat
      BY <1>7
    <2>. QED BY <1>5, <2>1
  <1>. QED BY <1>1, <1>2, <1>3, <1>4, <1>8, <1>9

(* Every rank below the number of elements is taken.                        *)
LEMMA RanksTaken ==
    ASSUME NEW S, NEW R, IsFiniteSet(S), StrictOrder(S, R)
    PROVE  \A n \in 0 .. Cardinality(S) - 1 : \E x \in S : RankIn(S, R, x) = n
  <1> DEFINE T == 0 .. Cardinality(S) - 1
             f == [x \in S |-> RankIn(S, R, x)]
  <1>1. Cardinality(S) \in Nat
    BY FS_CardinalityType
  <1>2. IsFiniteSet(T) /\ Cardinality(T) = Cardinality(S)
    BY <1>1, FS_Interval
  <1>3. f \in [S -> T] /\ \A x, y \in S : f[x] = f[y] => x = y
    BY Ranks
  <1> HIDE DEF f, T
  <1>4. f \in Injection(S, T)
    BY <1>3, Fun_IsInj
  <1>5. f \in Surjection(S, T)
    BY <1>2, <1>4, FS_Injection
  <1>6. \A n \in T : \E x \in S : f[x] = n
    BY <1>5, Fun_SurjectionProperties
  <1>. QED BY <1>6 DEF f, T

(* An enumeration has every element once, in order.                         *)
LEMMA Enumerated ==
    ASSUME NEW S, NEW R, IsFiniteSet(S), StrictOrder(S, R)
    PROVE  LET e == Enumerate(S, R) IN
           /\ Cardinality(S) \in Nat /\ e \in [1 .. Cardinality(S) -> S]
           /\ e \in Seq(S) /\ Len(e) = Cardinality(S) /\ DOMAIN e = 1 .. Cardinality(S)
           /\ \A i, j \in 1 .. Cardinality(S) : i < j <=> <<e[i], e[j]>> \in R
           /\ \A i, j \in 1 .. Cardinality(S) : e[i] = e[j] => i = j
           /\ \A x \in S : \E i \in 1 .. Cardinality(S) : e[i] = x
  <1> DEFINE N == Cardinality(S)
             e == [n \in 1 .. N |-> CHOOSE x \in S : RankIn(S, R, x) = n - 1]
  <1>1. e = Enumerate(S, R)
    BY DEF Enumerate, RankIn, Earlier
  <1>2. N \in Nat
    BY FS_CardinalityType
  <1>3. \A n \in 1 .. N : e[n] \in S /\ RankIn(S, R, e[n]) = n - 1
    <2> SUFFICES ASSUME NEW n \in 1 .. N
                 PROVE  e[n] \in S /\ RankIn(S, R, e[n]) = n - 1
      OBVIOUS
    <2>1. \E x \in S : RankIn(S, R, x) = n - 1
      <3>1. n - 1 \in 0 .. N - 1
        BY <1>2
      <3>. QED BY <3>1, RanksTaken
    <2>. QED BY <2>1
  <1>4. DOMAIN e = 1 .. N /\ e \in [1 .. N -> S]
    BY <1>3
  <1> HIDE DEF e, N
  <1>5. e \in Seq(S) /\ Len(e) = N
    BY <1>2, <1>4
  <1>6. \A i, j \in 1 .. N : i < j <=> <<e[i], e[j]>> \in R
    BY <1>2, <1>3, Ranks
  <1>7. \A i, j \in 1 .. N : e[i] = e[j] => i = j
    BY <1>2, <1>3
  <1>8. \A x \in S : \E i \in 1 .. N : e[i] = x
    <2> SUFFICES ASSUME NEW x \in S PROVE \E i \in 1 .. N : e[i] = x
      OBVIOUS
    <2>1. RankIn(S, R, x) \in 0 .. N - 1
      BY Ranks DEF N
    <2>2. RankIn(S, R, x) + 1 \in 1 .. N /\ (RankIn(S, R, x) + 1) - 1 = RankIn(S, R, x)
      BY <1>2, <2>1
    <2>3. e[RankIn(S, R, x) + 1] = x
      BY <1>3, <2>2, Ranks
    <2>. QED BY <2>2, <2>3
  <1>. QED BY <1>1, <1>2, <1>4, <1>5, <1>6, <1>7, <1>8 DEF N

(* Whatever has every element in order is the enumeration.                  *)
LEMMA EnumeratedOnce ==
    ASSUME NEW S, NEW R, IsFiniteSet(S), StrictOrder(S, R),
           NEW n \in Nat, NEW f \in [1 .. n -> S],
           \A i, j \in 1 .. n : i < j => <<f[i], f[j]>> \in R,
           \A x \in S : \E i \in 1 .. n : f[i] = x
    PROVE  n = Cardinality(S) /\ f = Enumerate(S, R)
  <1>1. \A i, j \in 1 .. n : f[i] = f[j] => i = j
    <2> SUFFICES ASSUME NEW i \in 1 .. n, NEW j \in 1 .. n, f[i] = f[j], i # j PROVE FALSE
      OBVIOUS
    <2>1. i < j \/ j < i
      OBVIOUS
    <2>. QED BY <2>1 DEF StrictOrder
  <1>2. \A i \in 1 .. n : RankIn(S, R, f[i]) = i - 1
    <2> SUFFICES ASSUME NEW i \in 1 .. n PROVE RankIn(S, R, f[i]) = i - 1
      OBVIOUS
    <2> DEFINE g == [j \in 1 .. i - 1 |-> f[j]]
    <2>1. \A y \in Earlier(S, R, f[i]) : \E j \in 1 .. i - 1 : g[j] = y
      <3> SUFFICES ASSUME NEW y \in S, <<y, f[i]>> \in R PROVE \E j \in 1 .. i - 1 : g[j] = y
        BY DEF Earlier
      <3>1. PICK j \in 1 .. n : f[j] = y
        OBVIOUS
      <3>2. ~(j = i) /\ ~(i < j)
        BY <3>1 DEF StrictOrder
      <3>3. j \in 1 .. i - 1
        BY <3>2
      <3>. QED BY <3>1, <3>3
    <2>2. g \in [1 .. i - 1 -> Earlier(S, R, f[i])]
      BY DEF Earlier
    <2>3. \A j, k \in 1 .. i - 1 : g[j] = g[k] => j = k
      BY <1>1
    <2> HIDE DEF g
    <2>4. g \in Bijection(1 .. i - 1, Earlier(S, R, f[i]))
      BY <2>1, <2>2, <2>3, Fun_IsBij
    <2>5. ExistsBijection(1 .. i - 1, Earlier(S, R, f[i])) /\ i - 1 \in Nat
      BY <2>4 DEF ExistsBijection
    <2>. QED BY <2>5, FS_CountingElements DEF RankIn
  <1>3. n = Cardinality(S)
    <2>1. f \in Bijection(1 .. n, S)
      BY <1>1, Fun_IsBij
    <2>2. ExistsBijection(1 .. n, S)
      BY <2>1 DEF ExistsBijection
    <2>. QED BY <2>2, FS_CountingElements
  <1>4. \A i \in 1 .. n : f[i] = CHOOSE x \in S : RankIn(S, R, x) = i - 1
    <2> SUFFICES ASSUME NEW i \in 1 .. n
                 PROVE  f[i] = CHOOSE x \in S : RankIn(S, R, x) = i - 1
      OBVIOUS
    <2>1. \A x \in S : RankIn(S, R, x) = i - 1 => x = f[i]
      BY <1>2, Ranks
    <2>. QED BY <1>2, <2>1
  <1>. QED BY <1>3, <1>4 DEF Enumerate, RankIn, Earlier

(* What comes after the k-th element is enumerated by the rest.             *)
LEMMA EnumeratedAfter ==
    ASSUME NEW S, NEW R, IsFiniteSet(S), StrictOrder(S, R), NEW k \in 0 .. Cardinality(S),
           NEW Q, NEW T, T \subseteq S,
           \A x \in S : x \in T <=> (k = 0 \/ <<Enumerate(S, R)[k], x>> \in R),
           \A x, y \in T : <<x, y>> \in Q <=> <<x, y>> \in R
    PROVE  /\ Cardinality(T) = Cardinality(S) - k
           /\ Enumerate(T, Q) = [i \in 1 .. Cardinality(S) - k |-> Enumerate(S, R)[k + i]]
  <1> DEFINE N == Cardinality(S)
             e == Enumerate(S, R)
             f == [i \in 1 .. N - k |-> e[k + i]]
  <1>1. N \in Nat /\ e \in [1 .. N -> S]
    BY Enumerated
  <1>2. \A i, j \in 1 .. N : i < j <=> <<e[i], e[j]>> \in R
    BY Enumerated
  <1>3. \A x \in S : \E i \in 1 .. N : e[i] = x
    BY Enumerated
  <1>4. T \subseteq S /\ \A x \in S : x \in T <=> (k = 0 \/ <<e[k], x>> \in R)
    OBVIOUS
  <1> HIDE DEF e, N
  <1>5. \A i \in 1 .. N - k : k + i \in 1 .. N /\ (k # 0 => k \in 1 .. N /\ k < k + i)
    BY <1>1 DEF N
  <1>6. k \in 0 .. N /\ N - k \in Nat
    BY <1>1 DEF N
  <1>7. \A i \in 1 .. N - k : e[k + i] \in T
    BY <1>1, <1>2, <1>4, <1>5
  <1>8. f \in [1 .. N - k -> T]
    BY <1>7
  <1>9. \A i, j \in 1 .. N - k : i < j => <<f[i], f[j]>> \in Q
    <2> SUFFICES ASSUME NEW i \in 1 .. N - k, NEW j \in 1 .. N - k, i < j
                 PROVE  <<e[k + i], e[k + j]>> \in Q
      OBVIOUS
    <2>1. k + i < k + j
      BY <1>6
    <2>. QED BY <1>2, <1>5, <1>7, <2>1
  <1>10. \A x \in T : \E i \in 1 .. N - k : f[i] = x
    <2> SUFFICES ASSUME NEW x \in T PROVE \E i \in 1 .. N - k : f[i] = x
      OBVIOUS
    <2>1. PICK n \in 1 .. N : e[n] = x
      BY <1>3, <1>4
    <2>2. k < n
      <3>1. CASE k = 0
        BY <3>1
      <3>2. CASE k # 0
        <4>1. k \in 1 .. N /\ <<e[k], e[n]>> \in R
          BY <1>4, <1>6, <2>1, <3>2
        <4>. QED BY <1>2, <4>1
      <3>. QED BY <3>1, <3>2
    <2>3. n - k \in 1 .. N - k /\ k + (n - k) = n
      BY <1>1, <1>6, <2>2
    <2>. QED BY <2>1, <2>3
  <1>11. IsFiniteSet(T)
    <2>1. T \in SUBSET S
      BY <1>4
    <2>. QED BY <2>1, FS_Subset
  <1>12. StrictOrder(T, Q)
    <2>1. \A x \in T : x \in S
      BY <1>4
    <2>. QED BY <2>1 DEF StrictOrder
  <1> HIDE DEF f
  <1>13. N - k = Cardinality(T) /\ f = Enumerate(T, Q)
    <2>1. PICK n \in Nat : n = N - k
      BY <1>6
    <2>2. /\ f \in [1 .. n -> T]
          /\ \A i, j \in 1 .. n : i < j => <<f[i], f[j]>> \in Q
          /\ \A x \in T : \E i \in 1 .. n : f[i] = x
      BY <1>8, <1>9, <1>10, <2>1
    <2>3. n = Cardinality(T) /\ f = Enumerate(T, Q)
      BY ONLY n \in Nat, <1>11, <1>12, <2>2, EnumeratedOnce
    <2>. QED BY <2>1, <2>3
  <1>. QED BY <1>13 DEF f, N, e

(* A prefix is as long at most, and agrees where it is.                     *)
LEMMA PrefixesAgree ==
    ASSUME NEW S, NEW s \in Seq(S), NEW t \in Seq(S)
    PROVE  (Len(s) <= Len(t) /\ SubSeq(s, 1, Len(s)) = SubSeq(t, 1, Len(s)))
            <=> (Len(s) <= Len(t) /\ \A i \in 1 .. Len(s) : s[i] = t[i])
  OBVIOUS

-----------------------------------------------------------------------------
-----------------------------------------------------------------------------
(* The element of an enumeration at a place is the one of that rank.        *)
LEMMA RankAt ==
    ASSUME NEW S, NEW R, IsFiniteSet(S), StrictOrder(S, R), NEW k \in 1 .. Cardinality(S)
    PROVE  Enumerate(S, R)[k] \in S /\ RankIn(S, R, Enumerate(S, R)[k]) = k - 1
  <1>1. Cardinality(S) \in Nat
    BY FS_CardinalityType
  <1>2. Enumerate(S, R)[k] = CHOOSE x \in S : RankIn(S, R, x) = k - 1
    BY DEF Enumerate, RankIn, Earlier
  <1>3. \E x \in S : RankIn(S, R, x) = k - 1
    <2>1. k - 1 \in 0 .. Cardinality(S) - 1
      BY <1>1
    <2>. QED BY <2>1, RanksTaken
  <1>. QED BY <1>2, <1>3

(* The elements below a bound are enumerated first.                         *)
LEMMA EnumeratedFirst ==
    ASSUME NEW S, NEW R, IsFiniteSet(S), StrictOrder(S, R), NEW T, T \subseteq S, NEW Q,
           \A x \in S : \A y \in T : <<x, y>> \in R => x \in T,
           \A x, y \in T : <<x, y>> \in Q <=> <<x, y>> \in R
    PROVE  /\ Cardinality(T) \in Nat /\ Cardinality(S) \in Nat /\ Cardinality(T) <= Cardinality(S)
           /\ Enumerate(T, Q) \in [1 .. Cardinality(T) -> T]
           /\ \A k \in 1 .. Cardinality(T) : Enumerate(T, Q)[k] = Enumerate(S, R)[k]
           /\ \A k \in 1 .. Cardinality(S) : Enumerate(S, R)[k] \in T <=> k <= Cardinality(T)
  <1>1. /\ IsFiniteSet(T) /\ Cardinality(T) \in Nat /\ Cardinality(S) \in Nat
        /\ Cardinality(T) <= Cardinality(S)
    BY FS_Subset, FS_CardinalityType
  <1>2. StrictOrder(T, Q)
    <2>1. \A x \in T : <<x, x>> \notin Q
      BY DEF StrictOrder
    <2>2. \A x, y, z \in T : <<x, y>> \in Q /\ <<y, z>> \in Q => <<x, z>> \in Q
      <3> SUFFICES ASSUME NEW x \in T, NEW y \in T, NEW z \in T,
                          <<x, y>> \in Q, <<y, z>> \in Q
                   PROVE  <<x, z>> \in Q
        OBVIOUS
      <3>1. <<x, y>> \in R /\ <<y, z>> \in R /\ x \in S /\ y \in S /\ z \in S
        OBVIOUS
      <3>2. <<x, z>> \in R
        BY <3>1 DEF StrictOrder
      <3>. QED BY <3>2
    <2>3. \A x, y \in T : x = y \/ <<x, y>> \in Q \/ <<y, x>> \in Q
      BY DEF StrictOrder
    <2>. QED BY <2>1, <2>2, <2>3 DEF StrictOrder
  <1>3. \A x \in T : RankIn(T, Q, x) = RankIn(S, R, x)
    <2> SUFFICES ASSUME NEW x \in T PROVE Earlier(T, Q, x) = Earlier(S, R, x)
      BY DEF RankIn
    <2>. QED BY DEF Earlier
  <1>4. ASSUME NEW k \in 1 .. Cardinality(T) PROVE Enumerate(T, Q)[k] = Enumerate(S, R)[k]
    <2>1. k \in 1 .. Cardinality(S)
      BY <1>1
    <2>2. Enumerate(T, Q)[k] \in T /\ RankIn(T, Q, Enumerate(T, Q)[k]) = k - 1
      BY <1>1, <1>2, RankAt
    <2>3. Enumerate(S, R)[k] \in S /\ RankIn(S, R, Enumerate(S, R)[k]) = k - 1
      BY <2>1, RankAt
    <2>4. RankIn(S, R, Enumerate(T, Q)[k]) = k - 1 /\ Enumerate(T, Q)[k] \in S
      BY <1>3, <2>2
    <2>. QED BY <2>3, <2>4, Ranks
  <1>5. ASSUME NEW k \in 1 .. Cardinality(S)
        PROVE  Enumerate(S, R)[k] \in T <=> k <= Cardinality(T)
    <2>1. Enumerate(S, R)[k] \in S /\ RankIn(S, R, Enumerate(S, R)[k]) = k - 1
      BY RankAt
    <2>2. Enumerate(S, R)[k] \in T => k <= Cardinality(T)
      <3> SUFFICES ASSUME Enumerate(S, R)[k] \in T PROVE k <= Cardinality(T)
        OBVIOUS
      <3>1. RankIn(T, Q, Enumerate(S, R)[k]) \in 0 .. Cardinality(T) - 1
        BY <1>1, <1>2, Ranks
      <3>. QED BY <1>1, <1>3, <2>1, <3>1
    <2>3. k <= Cardinality(T) => Enumerate(S, R)[k] \in T
      <3> SUFFICES ASSUME k <= Cardinality(T) PROVE Enumerate(S, R)[k] \in T
        OBVIOUS
      <3>1. k \in 1 .. Cardinality(T)
        BY <1>1
      <3>2. Enumerate(T, Q)[k] \in T
        BY <1>1, <1>2, <3>1, RankAt
      <3>. QED BY <1>4, <3>1, <3>2
    <2>. QED BY <2>2, <2>3
  <1>6. Enumerate(T, Q) \in [1 .. Cardinality(T) -> T]
    BY <1>1, <1>2, Enumerated
  <1>. QED BY <1>1, <1>4, <1>5, <1>6

-----------------------------------------------------------------------------
(* Indexes upwards.                                                         *)
Upward(I) == {p \in I \X I : p[1] < p[2]}
Indexes(I) == I \in SUBSET Nat /\ IsFiniteSet(I)
Climbs(f, n, I) ==
    /\ n \in Nat /\ f \in [1 .. n -> I]
    /\ \A j, k \in 1 .. n : j < k <=> f[j] < f[k]
    /\ \A x \in I : \E k \in 1 .. n : f[k] = x

LEMMA UpwardIs ==
    ASSUME NEW I, Indexes(I)
    PROVE  /\ Climbs(Enumerate(I, Upward(I)), Cardinality(I), I)
           /\ \A s : At(s, I) = [k \in 1 .. Cardinality(I) |-> s[Enumerate(I, Upward(I))[k]]]
  <1>1. IsFiniteSet(I) /\ I \subseteq Nat
    BY DEF Indexes
  <1>2. StrictOrder(I, Upward(I))
    BY <1>1 DEF StrictOrder, Upward
  <1>3. LET e == Enumerate(I, Upward(I)) IN
           /\ Cardinality(I) \in Nat /\ e \in [1 .. Cardinality(I) -> I]
           /\ DOMAIN e = 1 .. Cardinality(I)
           /\ \A i, j \in 1 .. Cardinality(I) : i < j <=> <<e[i], e[j]>> \in Upward(I)
           /\ \A x \in I : \E i \in 1 .. Cardinality(I) : e[i] = x
    BY <1>1, <1>2, Enumerated
  <1> DEFINE e == Enumerate(I, Upward(I))
             n == Cardinality(I)
  <1>4. Sorted(I, LAMBDA i, j : i < j) = e
    BY DEF Sorted, Upward
  <1>5. \A s : At(s, I) = [k \in 1 .. n |-> s[e[k]]]
    BY <1>3, <1>4 DEF At
  <1>6. \A j, k \in 1 .. n : <<e[j], e[k]>> \in Upward(I) <=> e[j] < e[k]
    BY <1>3 DEF Upward
  <1>7. Climbs(e, n, I)
    <2> HIDE DEF e, n
    <2>. QED BY <1>3, <1>6 DEF Climbs, e, n
  <1>. QED BY <1>5, <1>7

LEMMA UpwardOnce ==
    ASSUME NEW I, Indexes(I), NEW n, NEW f, Climbs(f, n, I)
    PROVE  n = Cardinality(I) /\ f = Enumerate(I, Upward(I))
  <1> DEFINE R == Upward(I)
  <1>1. IsFiniteSet(I) /\ I \subseteq Nat
    BY DEF Indexes
  <1>2. StrictOrder(I, R)
    BY <1>1 DEF StrictOrder, Upward
  <1>3. n \in Nat /\ f \in [1 .. n -> I] /\ \A x \in I : \E k \in 1 .. n : f[k] = x
    BY DEF Climbs
  <1>4. \A j, k \in 1 .. n : j < k => <<f[j], f[k]>> \in R
    BY <1>3 DEF Upward, Climbs
  <1> HIDE DEF R
  <1>5. n \in Nat
    BY <1>3
  <1>6. f \in [1 .. n -> I]
    BY <1>3
  <1>7. \A x \in I : \E k \in 1 .. n : f[k] = x
    BY <1>3
  <1>8. IsFiniteSet(I)
    BY <1>1
  <1>9. n = Cardinality(I) /\ f = Enumerate(I, R)
    BY ONLY <1>2, <1>4, <1>5, <1>6, <1>7, <1>8, EnumeratedOnce
  <1>. QED BY <1>9 DEF R

(* All indexes up to n.                                                     *)
LEMMA FirstIndexes ==
    ASSUME NEW n \in Nat, NEW s
    PROVE  /\ Indexes(1 .. n) /\ Cardinality(1 .. n) = n
           /\ At(s, 1 .. n) = [k \in 1 .. n |-> s[k]]
  <1>1. Indexes(1 .. n)
    BY FS_Interval DEF Indexes
  <1> DEFINE f == [k \in 1 .. n |-> k]
  <1>2. n = Cardinality(1 .. n) /\ f = Enumerate(1 .. n, Upward(1 .. n))
    <2>1. Climbs(f, n, 1 .. n)
      BY DEF Climbs
    <2> HIDE DEF f
    <2>. QED BY <1>1, <2>1, UpwardOnce
  <1>3. At(s, 1 .. n) = [k \in 1 .. n |-> s[f[k]]]
    BY <1>1, <1>2, UpwardIs
  <1>. QED BY <1>1, <1>2, <1>3

(* The elements of a sequence that are in a set.                            *)
Where(s, T) == {i \in DOMAIN s : s[i] \in T}
Filtered(s, T) == At(s, Where(s, T))

Filters(S, s, T) ==
    LET I == Where(s, T)
        e == Enumerate(I, Upward(I))
        t == Filtered(s, T)
        n == Cardinality(I)
    IN /\ Indexes(I) /\ I \subseteq 1 .. Len(s) /\ Climbs(e, n, I)
       /\ t \in Seq(S) /\ t \in Seq(T) /\ Len(t) = n /\ t = [k \in 1 .. n |-> s[e[k]]]

LEMMA WhereIs ==
    ASSUME NEW S, NEW s \in Seq(S), NEW T
    PROVE  Filters(S, s, T)
  <1> DEFINE I == Where(s, T)
             e == Enumerate(I, Upward(I))
             t == Filtered(s, T)
             n == Cardinality(I)
  <1>1. I \subseteq 1 .. Len(s) /\ Len(s) \in Nat /\ \A i \in I : s[i] \in S /\ s[i] \in T
    BY DEF Where
  <1>2. Indexes(I)
    <2>1. IsFiniteSet(1 .. Len(s))
      <3>1. Len(s) \in Nat
        BY <1>1
      <3>. QED BY ONLY <3>1, FiniteUpTo
    <2>2. IsFiniteSet(I)
      BY <1>1, <2>1, FS_Subset
    <2>. QED BY <1>1, <2>2 DEF Indexes
  <1>3. t = At(s, I)
    BY DEF Filtered
  <1>4. Climbs(e, n, I) /\ At(s, I) = [k \in 1 .. n |-> s[e[k]]]
    <2> HIDE DEF I
    <2>. QED BY <1>2, UpwardIs
  <1> HIDE DEF I, e, n, t
  <1>5. n \in Nat /\ t \in [1 .. n -> S] /\ t \in [1 .. n -> T]
    BY <1>1, <1>3, <1>4 DEF Climbs
  <1>6. t \in Seq(S) /\ t \in Seq(T) /\ Len(t) = n
    BY <1>5
  <1>. QED BY <1>1, <1>2, <1>3, <1>4, <1>6 DEF I, e, n, t, Filters

(* Filtered by one set and then by another.                                 *)
LEMMA FilteredTwice ==
    ASSUME NEW S, NEW s \in Seq(S), NEW T, NEW U
    PROVE  Filtered(Filtered(s, T), U) = Filtered(s, T \cap U)
  <1> DEFINE I == Where(s, T)
             e == Enumerate(I, Upward(I))
             m == Cardinality(I)
             t == Filtered(s, T)
             J == Where(t, U)
             d == Enumerate(J, Upward(J))
             n == Cardinality(J)
             K == Where(s, T \cap U)
             f == [k \in 1 .. n |-> e[d[k]]]
  <1>1. /\ t \in Seq(S) /\ Len(t) = m /\ Climbs(e, m, I) /\ I \subseteq 1 .. Len(s)
        /\ t = [k \in 1 .. m |-> s[e[k]]]
    <2>1. Filters(S, s, T)
      BY WhereIs
    <2>. QED BY <2>1 DEF Filters
  <1> HIDE DEF t
  <1>2. Climbs(d, n, J) /\ J \subseteq 1 .. m /\ Filtered(t, U) = [k \in 1 .. n |-> t[d[k]]]
    <2>1. Filters(S, t, U)
      BY <1>1, WhereIs
    <2>. QED BY <1>1, <2>1 DEF Filters
  <1>3. Indexes(K)
    <2>1. Filters(S, s, T \cap U)
      BY WhereIs
    <2>. QED BY <2>1 DEF Filters
  <1>4. /\ DOMAIN s = 1 .. Len(s)
        /\ \A x : x \in I <=> x \in DOMAIN s /\ s[x] \in T
        /\ \A x : x \in J <=> x \in 1 .. m /\ t[x] \in U
        /\ \A x : x \in K <=> x \in DOMAIN s /\ s[x] \in T /\ s[x] \in U
    BY <1>1 DEF Where
  <1>5. Filtered(s, T \cap U) = [k \in 1 .. Cardinality(K) |-> s[Enumerate(K, Upward(K))[k]]]
    BY <1>3, UpwardIs DEF Filtered
  <1> HIDE DEF I, e, m, J, d, n, K
  <1>6. /\ m \in Nat /\ e \in [1 .. m -> I] /\ n \in Nat /\ d \in [1 .. n -> J]
        /\ \A j, k \in 1 .. m : j < k <=> e[j] < e[k]
        /\ \A j, k \in 1 .. n : j < k <=> d[j] < d[k]
        /\ \A x \in I : \E k \in 1 .. m : e[k] = x
        /\ \A x \in J : \E k \in 1 .. n : d[k] = x
    BY <1>1, <1>2 DEF Climbs
  <1>7. f \in [1 .. n -> K] /\ \A k \in 1 .. n : f[k] = e[d[k]] /\ d[k] \in 1 .. m
    <2>1. \A k \in 1 .. m : e[k] \in I /\ t[k] = s[e[k]]
      BY <1>1, <1>6
    <2>2. \A k \in 1 .. n : d[k] \in J /\ d[k] \in 1 .. m /\ t[d[k]] \in U
      BY <1>2, <1>4, <1>6
    <2>3. \A k \in 1 .. n : e[d[k]] \in K
      BY <1>4, <2>1, <2>2
    <2>. QED BY <2>2, <2>3
  <1>8. \A j, k \in 1 .. n : j < k <=> f[j] < f[k]
    BY <1>6, <1>7
  <1>9. \A x \in K : \E k \in 1 .. n : f[k] = x
    <2> SUFFICES ASSUME NEW x \in K PROVE \E k \in 1 .. n : f[k] = x
      OBVIOUS
    <2>1. x \in I /\ s[x] \in U
      BY <1>4
    <2>2. PICK j \in 1 .. m : e[j] = x
      BY <1>6, <2>1
    <2>3. j \in J
      BY <1>1, <1>4, <2>1, <2>2
    <2>4. PICK k \in 1 .. n : d[k] = j
      BY <1>6, <2>3
    <2>. QED BY <1>7, <2>2, <2>4
  <1> HIDE DEF f
  <1>10. n = Cardinality(K) /\ f = Enumerate(K, Upward(K))
    <2>1. Climbs(f, n, K)
      BY <1>6, <1>7, <1>8, <1>9 DEF Climbs
    <2>. QED BY <1>3, <2>1, UpwardOnce
  <1>11. \A k \in 1 .. n : t[d[k]] = s[f[k]]
    BY <1>1, <1>7
  <1>12. Filtered(s, T \cap U) = [k \in 1 .. n |-> s[f[k]]]
    BY <1>5, <1>10
  <1>. QED BY <1>2, <1>11, <1>12 DEF t

(* An element that is not in the set may be anywhere.                       *)
LEMMA FilteredInserted ==
    ASSUME NEW S, NEW s \in Seq(S), NEW T, NEW i \in 1 .. Len(s) + 1, NEW x \in S, x \notin T,
           NEW t \in Seq(S), Len(t) = Len(s) + 1, t[i] = x,
           \A k \in 1 .. i - 1 : t[k] = s[k],
           \A k \in i .. Len(s) : t[k + 1] = s[k]
    PROVE  Filtered(t, T) = Filtered(s, T)
  <1> DEFINE I == Where(s, T)
             e == Enumerate(I, Upward(I))
             n == Cardinality(I)
             J == Where(t, T)
             g == [k \in 1 .. Len(s) |-> IF k < i THEN k ELSE k + 1]
             f == [k \in 1 .. n |-> g[e[k]]]
  <1>1. Climbs(e, n, I) /\ I \subseteq 1 .. Len(s) /\ Filtered(s, T) = [k \in 1 .. n |-> s[e[k]]]
    <2>1. Filters(S, s, T)
      BY WhereIs
    <2>. QED BY <2>1 DEF Filters
  <1>2. Indexes(J)
    <2>1. Filters(S, t, T)
      BY WhereIs
    <2>. QED BY <2>1 DEF Filters
  <1>3. Filtered(t, T) = [k \in 1 .. Cardinality(J) |-> t[Enumerate(J, Upward(J))[k]]]
    BY <1>2, UpwardIs DEF Filtered
  <1>4. /\ n \in Nat /\ e \in [1 .. n -> I]
        /\ \A j, k \in 1 .. n : j < k <=> e[j] < e[k]
        /\ \A y \in I : \E k \in 1 .. n : e[k] = y
    BY <1>1 DEF Climbs
  <1>5. /\ DOMAIN s = 1 .. Len(s) /\ DOMAIN t = 1 .. Len(s) + 1 /\ Len(s) \in Nat
        /\ \A y : y \in I <=> y \in 1 .. Len(s) /\ s[y] \in T
        /\ \A y : y \in J <=> y \in 1 .. Len(s) + 1 /\ t[y] \in T
    BY DEF Where
  <1> HIDE DEF I, e, n, J
  <1>6. /\ \A k \in 1 .. Len(s) : g[k] \in 1 .. Len(s) + 1 /\ t[g[k]] = s[k]
        /\ \A j, k \in 1 .. Len(s) : j < k <=> g[j] < g[k]
    BY <1>5
  <1>7. \A y \in 1 .. Len(s) + 1 : y # i => \E k \in 1 .. Len(s) : g[k] = y
    <2> SUFFICES ASSUME NEW y \in 1 .. Len(s) + 1, y # i PROVE \E k \in 1 .. Len(s) : g[k] = y
      OBVIOUS
    <2>1. CASE y < i
      <3>1. y \in 1 .. Len(s) /\ g[y] = y
        BY <1>5, <2>1
      <3>. QED BY <3>1
    <2>2. CASE y > i
      <3>1. y - 1 \in 1 .. Len(s) /\ g[y - 1] = y
        BY <1>5, <2>2
      <3>. QED BY <3>1
    <2>. QED BY <2>1, <2>2
  <1> HIDE DEF g
  <1>8. f \in [1 .. n -> J] /\ \A k \in 1 .. n : f[k] = g[e[k]] /\ e[k] \in 1 .. Len(s)
    BY <1>4, <1>5, <1>6
  <1>9. \A j, k \in 1 .. n : j < k <=> f[j] < f[k]
    BY <1>4, <1>6, <1>8
  <1>10. \A y \in J : \E k \in 1 .. n : f[k] = y
    <2> SUFFICES ASSUME NEW y \in J PROVE \E k \in 1 .. n : f[k] = y
      OBVIOUS
    <2>1. y \in 1 .. Len(s) + 1 /\ y # i
      BY <1>5
    <2>2. PICK j \in 1 .. Len(s) : g[j] = y
      BY <1>7, <2>1
    <2>3. j \in I
      BY <1>5, <1>6, <2>2
    <2>4. PICK k \in 1 .. n : e[k] = j
      BY <1>4, <2>3
    <2>. QED BY <1>8, <2>2, <2>4
  <1> HIDE DEF f
  <1>11. n = Cardinality(J) /\ f = Enumerate(J, Upward(J))
    <2>1. Climbs(f, n, J)
      BY <1>4, <1>8, <1>9, <1>10 DEF Climbs
    <2>. QED BY <1>2, <2>1, UpwardOnce
  <1>12. Filtered(t, T) = [k \in 1 .. n |-> t[f[k]]]
    BY <1>3, <1>11
  <1>13. \A k \in 1 .. n : t[f[k]] = s[e[k]]
    BY <1>6, <1>8
  <1>. QED BY <1>1, <1>12, <1>13

-----------------------------------------------------------------------------
(* Keys of one length are compared at the first place where they differ.    *)
LEMMA KeysInOrder ==
    ASSUME NEW n \in Nat, NEW V, V \subseteq Int,
           NEW a \in [1 .. n -> V], NEW b \in [1 .. n -> V], NEW c \in [1 .. n -> V]
    PROVE  /\ ~KeyBefore(a, a)
           /\ KeyBefore(a, b) /\ KeyBefore(b, c) => KeyBefore(a, c)
           /\ a = b \/ KeyBefore(a, b) \/ KeyBefore(b, a)
  <1>0. \A i \in 1 .. n : a[i] \in Int /\ b[i] \in Int /\ c[i] \in Int
    OBVIOUS
  <1>1. ~KeyBefore(a, a)
    BY <1>0 DEF KeyBefore
  <1>2. ASSUME KeyBefore(a, b), KeyBefore(b, c) PROVE KeyBefore(a, c)
    <2>1. PICK i \in 1 .. n : a[i] < b[i] /\ \A k \in 1 .. i - 1 : a[k] = b[k]
      BY <1>2 DEF KeyBefore
    <2>2. PICK j \in 1 .. n : b[j] < c[j] /\ \A k \in 1 .. j - 1 : b[k] = c[k]
      BY <1>2 DEF KeyBefore
    <2>3. CASE i < j
      <3>1. a[i] < c[i] /\ \A k \in 1 .. i - 1 : a[k] = c[k]
        BY <1>0, <2>1, <2>2, <2>3
      <3>. QED BY <3>1 DEF KeyBefore
    <2>4. CASE i = j
      <3>1. a[i] < c[i] /\ \A k \in 1 .. i - 1 : a[k] = c[k]
        BY <1>0, <2>1, <2>2, <2>4
      <3>. QED BY <3>1 DEF KeyBefore
    <2>5. CASE j < i
      <3>1. a[j] < c[j] /\ \A k \in 1 .. j - 1 : a[k] = c[k]
        BY <1>0, <2>1, <2>2, <2>5
      <3>. QED BY <3>1 DEF KeyBefore
    <2>. QED BY <2>3, <2>4, <2>5
  <1>3. ASSUME a # b PROVE KeyBefore(a, b) \/ KeyBefore(b, a)
    <2> DEFINE D == {i \in 1 .. n : a[i] # b[i]}
    <2>1. D \in SUBSET Nat /\ D # {}
      <3>1. (\A i \in 1 .. n : a[i] = b[i]) => a = b
        OBVIOUS
      <3>2. PICK i \in 1 .. n : a[i] # b[i]
        BY <1>3, <3>1
      <3>3. i \in D /\ D \subseteq 1 .. n
        BY <3>2
      <3>4. 1 .. n \subseteq Nat
        OBVIOUS
      <3> HIDE DEF D
      <3>5. D \in SUBSET Nat
        BY <3>3, <3>4
      <3>6. D # {}
        BY <3>3
      <3>. QED BY <3>5, <3>6
    <2>2. D \subseteq 1 .. n /\ \A i \in 1 .. n : i \notin D => a[i] = b[i]
      OBVIOUS
    <2>3. \A i \in D : a[i] # b[i]
      OBVIOUS
    <2> HIDE DEF D
    <2>4. PICK i \in D : \A j \in D : i <= j
      BY <2>1, LeastNatural
    <2>5. i \in 1 .. n /\ \A k \in 1 .. i - 1 : a[k] = b[k]
      BY <2>2, <2>4
    <2>6. a[i] < b[i] \/ b[i] < a[i]
      BY <1>0, <2>3, <2>4, <2>5
    <2>. QED BY <2>5, <2>6 DEF KeyBefore
  <1>. QED BY <1>1, <1>2, <1>3
=============================================================================
