---------------------------- MODULE Subsequences ----------------------------
(***************************************************************************)
(* Array.filter, and deletion from a Map that is iterated: the elements    *)
(* that remain keep their order.                                           *)
(***************************************************************************)
EXTENDS Integers, Sequences, FiniteSets

(* How many indices of I come before i. *)
Rank(I, i) == Cardinality({j \in I : j < i})

(* The elements of s at the indices I, in order. *)
Subsequence(s, I) == [k \in 1..Cardinality(I) |-> s[CHOOSE i \in I : Rank(I, i) = k - 1]]
=============================================================================
