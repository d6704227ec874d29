-------------------------- MODULE Selections_proofs --------------------------
(* What the provers need to know of the members of a set of positions in    *)
(* their order.  Cited by the proofs of several components.                 *)
EXTENDS Selections, FunctionTheorems, FiniteSetTheorems, SequenceTheorems,
        WellFoundedInduction, TLAPS

(* Ranks count from one, and grow with the positions.                       *)
LEMMA RankType ==
    ASSUME NEW S \in SUBSET Int, IsFiniteSet(S), NEW i \in S
    PROVE  Rank(S, i) \in 1..Cardinality(S)
  <1> DEFINE B == {j \in S : j <= i}
  <1>1. B \in SUBSET S /\ i \in B /\ Rank(S, i) = Cardinality(B)  BY DEF Rank
  <1> HIDE DEF B
  <1>2. IsFiniteSet(B) /\ Cardinality(B) <= Cardinality(S)  BY <1>1, FS_Subset
  <1>3. Cardinality(B) \in Nat /\ Cardinality(S) \in Nat  BY <1>2, FS_CardinalityType
  <1>4. Cardinality(B) # 0  BY <1>1, <1>2, FS_EmptySet
  <1> QED  BY <1>1, <1>2, <1>3, <1>4

LEMMA RankGrows ==
    ASSUME NEW S \in SUBSET Int, IsFiniteSet(S), NEW i \in S, NEW j \in S, i < j
    PROVE  Rank(S, i) < Rank(S, j)
  <1> DEFINE A == {k \in S : k <= i}
             B == {k \in S : k <= j}
  <1>0. i \in Int /\ j \in Int /\ \A k \in S : k \in Int  OBVIOUS
  <1>1. /\ A \in SUBSET B /\ B \in SUBSET S /\ j \in B /\ j \notin A
        /\ Rank(S, i) = Cardinality(A) /\ Rank(S, j) = Cardinality(B)
    <2>1. \A k \in S : k <= i => k <= j  BY <1>0
    <2>4. A \in SUBSET B  BY <2>1
    <2>2. B \in SUBSET S /\ j \in B /\ j \notin A  BY <1>0
    <2> QED  BY <2>2, <2>4 DEF Rank
  <1> HIDE DEF A, B
  <1>2. IsFiniteSet(B)  BY <1>1, FS_Subset
  <1>3. IsFiniteSet(A) /\ Cardinality(A) <= Cardinality(B) /\ Cardinality(A) # Cardinality(B)
    BY <1>1, <1>2, FS_Subset
  <1>4. Cardinality(A) \in Nat /\ Cardinality(B) \in Nat  BY <1>2, <1>3, FS_CardinalityType
  <1> QED  BY <1>1, <1>3, <1>4

(* Every rank up to the size of the set is that of one of its members.      *)
LEMMA NthIs ==
    ASSUME NEW S \in SUBSET Int, IsFiniteSet(S), NEW n \in 1..Cardinality(S)
    PROVE  Nth(S, n) \in S /\ Rank(S, Nth(S, n)) = n
  <1> DEFINE N == 1..Cardinality(S)
             f == [i \in S |-> Rank(S, i)]
  <1>1. Cardinality(S) \in Nat  BY FS_CardinalityType
  <1>2. IsFiniteSet(N) /\ Cardinality(N) = Cardinality(S)
    BY <1>1, FS_Interval
  <1>3. f \in [S -> N]  BY RankType
  <1>4. ASSUME NEW i \in S, NEW j \in S, f[i] = f[j]  PROVE i = j
    <2>1. i \in Int /\ j \in Int  OBVIOUS
    <2>2. Rank(S, i) = Rank(S, j)  BY <1>4
    <2>3. Rank(S, i) \in Int /\ Rank(S, j) \in Int  BY RankType
    <2> QED  BY <2>1, <2>2, <2>3, RankGrows
  <1>5. f \in Injection(S, N)  BY <1>3, <1>4 DEF Injection, IsInjective
  <1> HIDE DEF f, N
  <1>6. f \in Surjection(S, N)  BY <1>2, <1>5, FS_Injection
  <1>7. n \in N  BY DEF N
  <1>8. PICK i \in S : f[i] = n  BY <1>6, <1>7 DEF Surjection
  <1>9. Rank(S, i) = n  BY <1>8 DEF f
  <1> QED  BY <1>9 DEF Nth

LEMMA NthOfRank ==
    ASSUME NEW S \in SUBSET Int, IsFiniteSet(S), NEW i \in S
    PROVE  Rank(S, i) \in 1..Cardinality(S) /\ Nth(S, Rank(S, i)) = i
  <1>1. Rank(S, i) \in 1..Cardinality(S)  BY RankType
  <1>2. PICK j \in S : j = Nth(S, Rank(S, i)) /\ Rank(S, j) = Rank(S, i)  BY <1>1, NthIs
  <1>3. ~(i < j) /\ ~(j < i)
    <2>1. Rank(S, i) \in Int  BY <1>1
    <2> QED  BY <1>2, <2>1, RankGrows
  <1>4. i \in Int /\ j \in Int  BY <1>2
  <1> QED  BY <1>1, <1>2, <1>3, <1>4

LEMMA NthGrows ==
    ASSUME NEW S \in SUBSET Int, IsFiniteSet(S),
           NEW m \in 1..Cardinality(S), NEW n \in 1..Cardinality(S), m < n
    PROVE  Nth(S, m) < Nth(S, n)
  <1>0. Cardinality(S) \in Nat  BY FS_CardinalityType
  <1>1. PICK i \in S : i = Nth(S, m) /\ Rank(S, i) = m  BY NthIs
  <1>2. PICK j \in S : j = Nth(S, n) /\ Rank(S, j) = n  BY NthIs
  <1>3. i # j  BY <1>0, <1>1, <1>2
  <1>4. ~(j < i)  BY <1>0, <1>1, <1>2, RankGrows
  <1>5. i \in Int /\ j \in Int  OBVIOUS
  <1> QED  BY <1>1, <1>2, <1>3, <1>4, <1>5

(* The first and the last member.                                           *)
LEMMA NthEnds ==
    ASSUME NEW S \in SUBSET Int, IsFiniteSet(S), NEW i \in S
    PROVE  /\ Cardinality(S) \in Nat /\ Cardinality(S) >= 1
           /\ Nth(S, 1) \in S /\ Nth(S, 1) <= i
           /\ Nth(S, Cardinality(S)) \in S /\ i <= Nth(S, Cardinality(S))
  <1>0. Cardinality(S) \in Nat  BY FS_CardinalityType
  <1>1. PICK r \in 1..Cardinality(S) : r = Rank(S, i) /\ Nth(S, r) = i  BY NthOfRank
  <1>2. Cardinality(S) >= 1 /\ 1 \in 1..Cardinality(S) /\ Cardinality(S) \in 1..Cardinality(S)
    BY <1>0, <1>1
  <1>3. Nth(S, 1) \in S /\ Nth(S, Cardinality(S)) \in S  BY <1>2, NthIs
  <1>6. i \in Int /\ Nth(S, 1) \in Int /\ Nth(S, Cardinality(S)) \in Int  BY <1>3
  <1>4. Nth(S, 1) <= i
    <2>1. CASE r = 1  BY <1>1, <2>1
    <2>2. CASE r > 1
      <3>1. Nth(S, 1) < Nth(S, r)  BY <1>0, <1>2, <2>2, NthGrows
      <3> QED  BY <1>1, <1>6, <3>1
    <2> QED  BY <1>0, <2>1, <2>2
  <1>5. i <= Nth(S, Cardinality(S))
    <2>1. CASE r = Cardinality(S)  BY <1>1, <2>1
    <2>2. CASE r < Cardinality(S)
      <3>1. Nth(S, r) < Nth(S, Cardinality(S))  BY <1>0, <1>2, <2>2, NthGrows
      <3> QED  BY <1>1, <1>6, <3>1
    <2> QED  BY <1>0, <2>1, <2>2
  <1> QED  BY <1>0, <1>2, <1>3, <1>4, <1>5

(* Positions of a sequence.                                                 *)
LEMMA PositionsAre ==
    ASSUME NEW n \in Nat, NEW S \in SUBSET (1..n)
    PROVE  S \in SUBSET Int /\ IsFiniteSet(S) /\ Cardinality(S) \in 0..n
  <1>1. IsFiniteSet(1..n) /\ Cardinality(1..n) = n  BY FS_Interval
  <1>2. IsFiniteSet(S) /\ Cardinality(S) <= n  BY <1>1, FS_Subset
  <1>3. Cardinality(S) \in Nat  BY <1>2, FS_CardinalityType
  <1> QED  BY <1>2, <1>3

(* What is picked is what the sequence has there, in the same order.        *)
LEMMA PickedIs ==
    ASSUME NEW T, NEW s \in Seq(T), NEW S \in SUBSET (DOMAIN s)
    PROVE  /\ Picked(s, S) \in Seq(T)
           /\ Len(Picked(s, S)) = Cardinality(S) /\ Cardinality(S) \in Nat
           /\ \A k \in 1..Cardinality(S) : Nth(S, k) \in S /\ Picked(s, S)[k] = s[Nth(S, k)]
           /\ \A i \in S : /\ Rank(S, i) \in 1..Cardinality(S)
                           /\ Picked(s, S)[Rank(S, i)] = s[i]
           /\ \A i, j \in S : i < j => Rank(S, i) < Rank(S, j)
  <1>1. Len(s) \in Nat /\ DOMAIN s = 1..Len(s)  OBVIOUS
  <1>2. S \in SUBSET Int /\ IsFiniteSet(S) /\ Cardinality(S) \in Nat  BY <1>1, PositionsAre
  <1>3. \A k \in 1..Cardinality(S) : Nth(S, k) \in S  BY <1>2, NthIs
  <1>4. Picked(s, S) \in [1..Cardinality(S) -> T]
    <2>1. \A k \in 1..Cardinality(S) : s[Nth(S, k)] \in T  BY <1>1, <1>3
    <2> QED  BY <2>1 DEF Picked
  <1>5. Picked(s, S) \in Seq(T) /\ Len(Picked(s, S)) = Cardinality(S)  BY <1>2, <1>4
  <1>6. \A k \in 1..Cardinality(S) : Picked(s, S)[k] = s[Nth(S, k)]  BY DEF Picked
  <1>7. ASSUME NEW i \in S
        PROVE  Rank(S, i) \in 1..Cardinality(S) /\ Picked(s, S)[Rank(S, i)] = s[i]
    BY <1>2, <1>6, NthOfRank
  <1>8. ASSUME NEW i \in S, NEW j \in S, i < j  PROVE Rank(S, i) < Rank(S, j)
    BY <1>2, <1>8, RankGrows
  <1> QED  BY <1>2, <1>3, <1>5, <1>6, <1>7, <1>8

(* A non-empty set of numbers has a least one.                             *)
LEMMA LeastExists ==
    ASSUME NEW T \in SUBSET Nat, T # {}
    PROVE  \E m \in T : \A n \in T : m <= n
  <1> DEFINE Upto == {1..n : n \in T}
  <1> DEFINE Shorter == StrictSubsetOrdering(Nat)
  <1>1. Upto # {} /\ Upto \subseteq FiniteSubsetsOf(Nat)
    <2>1. ASSUME NEW n \in T  PROVE 1..n \in FiniteSubsetsOf(Nat)
      <3>1. n \in Nat /\ IsFiniteSet(1..n)  BY FS_Interval
      <3> QED  BY <3>1 DEF FiniteSubsetsOf
    <2> QED  BY <2>1
  <1>2. IsWellFoundedOn(Shorter, FiniteSubsetsOf(Nat))
    BY FS_StrictSubsetOrderingWellFounded
  <1>3. PICK s \in Upto : \A r \in Upto : <<r, s>> \notin Shorter
    <2> HIDE DEF Upto, Shorter
    <2> QED  BY <1>1, <1>2, WFMin
  <1>4. PICK m \in T : s = 1..m  BY <1>3
  <1>5. ASSUME NEW n \in T  PROVE m <= n
    <2> SUFFICES ASSUME n < m  PROVE FALSE  OBVIOUS
    <2>1. 1..n \in Upto /\ 1..n \subseteq 1..m /\ m \in 1..m /\ m \notin 1..n  OBVIOUS
    <2>2. 1..n # 1..m  BY <2>1
    <2>3. 1..n \in SUBSET Nat /\ 1..m \in SUBSET Nat  OBVIOUS
    <2>4. <<1..n, 1..m>> \in Shorter  BY <2>1, <2>2, <2>3 DEF StrictSubsetOrdering
    <2> QED  BY <1>3, <1>4, <2>1, <2>4
  <1> QED  BY <1>5
=============================================================================
