------------------------ MODULE SubsequencesProofs -------------------------
(***************************************************************************)
(* What a subsequence is: as long as the set of its indices, a sequence    *)
(* of the same elements, and in the order of the sequence it is taken      *)
(* from.                                                                   *)
(***************************************************************************)
EXTENDS Subsequences, FiniteSetTheorems, FunctionTheorems, TLAPS

LEMMA IndicesFinite ==
  ASSUME NEW n \in Nat, NEW I \in SUBSET (1..n)
  PROVE  IsFiniteSet(I) /\ Cardinality(I) \in Nat /\ Cardinality(I) <= n
PROOF
  <1>1. IsFiniteSet(1..n) /\ Cardinality(1..n) = n
    BY FS_Interval
  <1>2. QED
    BY <1>1, FS_Subset, FS_CardinalityType

LEMMA RankBelow ==
  ASSUME NEW I \in SUBSET Nat, IsFiniteSet(I), NEW i \in I
  PROVE  Rank(I, i) \in Nat /\ Rank(I, i) < Cardinality(I)
PROOF
  <1> DEFINE Before == {j \in I : j < i}
  <1>1. IsFiniteSet(I \ {i}) /\ Cardinality(I \ {i}) = Cardinality(I) - 1
    BY FS_RemoveElement
  <1>2. Before \in SUBSET (I \ {i})
    OBVIOUS
  <1>3. IsFiniteSet(Before) /\ Cardinality(Before) <= Cardinality(I \ {i})
    BY <1>1, <1>2, FS_Subset
  <1>4. Cardinality(Before) \in Nat /\ Cardinality(I) \in Nat
    BY <1>3, FS_CardinalityType
  <1>5. Rank(I, i) = Cardinality(Before)
    BY DEF Rank
  <1>6. QED
    BY <1>1, <1>3, <1>4, <1>5

LEMMA RankGrows ==
  ASSUME NEW I \in SUBSET Nat, IsFiniteSet(I), NEW i \in I, NEW j \in I, i < j
  PROVE  Rank(I, i) < Rank(I, j)
PROOF
  <1> DEFINE Before == {k \in I : k < i}
             Later  == {k \in I : k < j}
  <1>1. Later \in SUBSET I /\ i \in Later
    OBVIOUS
  <1>2. IsFiniteSet(Later)
    BY <1>1, FS_Subset
  <1>3. {k \in Later : k < i} = Before
    <2>1. \A k \in I : k < i => k < j
      OBVIOUS
    <2>2. QED
      BY <2>1
  <1>4. Rank(Later, i) < Cardinality(Later)
    BY <1>1, <1>2, RankBelow
  <1>5. QED
    BY <1>3, <1>4 DEF Rank

(* Which index each position of a subsequence comes from: every index has a  *)
(* position, and the order is kept.                                          *)
Places(at, s, I) ==
  /\ at \in [1..Len(Subsequence(s, I)) -> I]
  /\ \A k \in 1..Len(Subsequence(s, I)) : Subsequence(s, I)[k] = s[at[k]]
  /\ \A k, l \in 1..Len(Subsequence(s, I)) : k < l => at[k] < at[l]
  /\ \A i \in I : \E k \in 1..Len(Subsequence(s, I)) : at[k] = i

(* What is left of a list or a Map that was filtered (Array.filter, the      *)
(* loops of SeenCache): the elements at the indices that pass, all of them   *)
(* and in their order.                                                       *)
THEOREM SubsequenceFacts ==
  ASSUME NEW S, NEW s \in Seq(S), NEW I \in SUBSET (1..Len(s))
  PROVE  /\ Subsequence(s, I) \in Seq(S)
         /\ Len(Subsequence(s, I)) = Cardinality(I) /\ Len(Subsequence(s, I)) <= Len(s)
         /\ \E at : Places(at, s, I)
PROOF
  <1> DEFINE n     == Cardinality(I)
             place == [i \in I |-> Rank(I, i) + 1]
             at    == [k \in 1..n |-> CHOOSE i \in I : Rank(I, i) = k - 1]
  <1>1. IsFiniteSet(I) /\ n \in Nat /\ n <= Len(s) /\ I \in SUBSET Nat
    BY IndicesFinite
  <1>2. \A i \in I : Rank(I, i) \in Nat /\ Rank(I, i) < n
    BY <1>1, RankBelow
  <1>3. \A i, j \in I : i < j => Rank(I, i) < Rank(I, j)
    BY <1>1, RankGrows
  <1>4. \A i, j \in I : Rank(I, i) = Rank(I, j) => i = j
    <2> SUFFICES ASSUME NEW i \in I, NEW j \in I, i # j PROVE Rank(I, i) # Rank(I, j)
      OBVIOUS
    <2>1. i < j \/ j < i
      BY <1>1
    <2>2. QED
      BY <1>2, <1>3, <2>1
  <1>5. \A k \in 1..n : \E i \in I : Rank(I, i) = k - 1
    <2> HIDE DEF n
    <2>1. place \in [I -> 1..n]
      BY <1>1, <1>2
    <2>2. \A i, j \in I : place[i] = place[j] => i = j
      BY <1>2, <1>4
    <2>3. place \in Injection(I, 1..n)
      <3> HIDE DEF place
      <3>1. QED
        BY <2>1, <2>2 DEF Injection, IsInjective
    <2>4. IsFiniteSet(1..n) /\ Cardinality(1..n) = n
      BY <1>1, FS_Interval
    <2>5. place \in Surjection(I, 1..n)
      <3> HIDE DEF place
      <3>1. QED
        BY <1>1, <2>3, <2>4, FS_Injection DEF n
    <2>6. \A k \in 1..n : \E i \in I : place[i] = k
      <3> HIDE DEF place
      <3>1. QED
        BY <2>5 DEF Surjection
    <2>7. \A i \in I : place[i] = Rank(I, i) + 1
      OBVIOUS
    <2> HIDE DEF place
    <2>8. SUFFICES ASSUME NEW k \in 1..n PROVE \E i \in I : Rank(I, i) = k - 1
      OBVIOUS
    <2>9. PICK i \in I : place[i] = k
      BY <2>6
    <2>10. k = Rank(I, i) + 1 /\ Rank(I, i) \in Nat
      BY <1>2, <2>7, <2>9
    <2>11. Rank(I, i) = k - 1
      BY <2>10
    <2>12. QED
      BY <2>11
  <1>6. \A k \in 1..n : at[k] \in I /\ Rank(I, at[k]) = k - 1
    BY <1>5
  <1>7. at \in [1..n -> I]
    BY <1>6
  <1>8. Subsequence(s, I) = [k \in 1..n |-> s[at[k]]]
    BY DEF Subsequence
  <1> HIDE DEF n, at
  <1>9. \A k \in 1..n : s[at[k]] \in S
    <2>1. \A i \in 1..Len(s) : s[i] \in S
      OBVIOUS
    <2>2. QED
      BY <1>6, <2>1
  <1>10. Subsequence(s, I) \in Seq(S) /\ Len(Subsequence(s, I)) = n
    BY <1>1, <1>8, <1>9
  <1>11. \A k \in 1..n : Subsequence(s, I)[k] = s[at[k]]
    BY <1>8
  <1>12. \A k, l \in 1..n : k < l => at[k] < at[l]
    <2> SUFFICES ASSUME NEW k \in 1..n, NEW l \in 1..n, k < l PROVE at[k] < at[l]
      OBVIOUS
    <2>1. at[k] \in Nat /\ at[l] \in Nat /\ Rank(I, at[k]) = k - 1 /\ Rank(I, at[l]) = l - 1
      BY <1>1, <1>6
    <2>2. at[k] # at[l] /\ ~(at[l] < at[k])
      BY <1>3, <1>6, <2>1
    <2>3. QED
      BY <2>1, <2>2
  <1>13. \A i \in I : \E k \in 1..n : at[k] = i
    <2> SUFFICES ASSUME NEW i \in I PROVE \E k \in 1..n : at[k] = i
      OBVIOUS
    <2>1. Rank(I, i) + 1 \in 1..n /\ Rank(I, i) \in Nat
      BY <1>1, <1>2
    <2>2. Rank(I, at[Rank(I, i) + 1]) = Rank(I, i)
      BY <1>6, <2>1
    <2>3. QED
      BY <1>4, <1>6, <2>1, <2>2
  <1>14. Places(at, s, I)
    BY <1>7, <1>10, <1>11, <1>12, <1>13 DEF Places
  <1>15. QED
    BY <1>1, <1>10, <1>14 DEF n
=============================================================================
