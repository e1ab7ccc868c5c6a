-------------------------------- MODULE Orders --------------------------------
(***************************************************************************)
(* Sorting and selecting, as the queries and engines do, by rank.  They    *)
(* give what SetToSortSeq and SelectSeq do, which the provers cannot       *)
(* expand; OrderProofs says what they return.                              *)
(***************************************************************************)
EXTENDS Integers, Sequences, FiniteSets

(* The elements of a finite set in the strict order R, a set of pairs: the  *)
(* n-th is the one with n - 1 elements before it.                           *)
Enumerate(S, R) ==
    [n \in 1 .. Cardinality(S) |->
        CHOOSE x \in S : Cardinality({y \in S : <<y, x>> \in R}) = n - 1]

Sorted(S, Precedes(_, _)) == Enumerate(S, {p \in S \X S : Precedes(p[1], p[2])})

(* Lexicographic order of sequences of numbers.                             *)
KeyBefore(a, b) ==
    \E i \in DOMAIN a : a[i] < b[i] /\ \A j \in 1 .. i - 1 : a[j] = b[j]

(* The elements of a sequence at some of its indexes, in its order.         *)
At(s, indexes) ==
    LET order == Sorted(indexes, LAMBDA i, j : i < j) IN [n \in DOMAIN order |-> s[order[n]]]

Select(s, Test(_)) == At(s, {i \in DOMAIN s : Test(s[i])})
=============================================================================
