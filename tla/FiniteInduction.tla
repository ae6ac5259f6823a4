-------------------------- MODULE FiniteInduction --------------------------
(***************************************************************************)
(* Induction that a proof can use: the property to prove for every number  *)
(* or every finite set is given as a set, not as an operator.              *)
(***************************************************************************)
EXTENDS Integers, FiniteSets, FiniteSetTheorems, TLAPS

\* A set of subsets of a finite set has one that contains no other.
LEMMA SmallestSet ==
    ASSUME NEW S, IsFiniteSet(S), NEW T, T \subseteq SUBSET S, T # {}
    PROVE  \E x \in T : \A y \in T : y \subseteq x => y = x
<1>1. IsWellFoundedOn(StrictSubsetOrdering(S), SUBSET S)
    BY FS_StrictSubsetOrderingWellFounded, FS_FiniteSubsetsOfFinite
<1>2. PICK x \in T : \A y \in T : ~ (<<y, x>> \in StrictSubsetOrdering(S))
    BY <1>1, WFMin
<1>3. \A y \in T : y \subseteq x => y = x
    BY <1>2 DEF StrictSubsetOrdering
<1> QED
    BY <1>3

\* A set with 0, and with the successor of each of its numbers, has them all.
LEMMA NatInd ==
    ASSUME NEW P, 0 \in P, \A n \in P \cap Nat : n + 1 \in P
    PROVE  Nat \subseteq P
<1> SUFFICES ASSUME NEW n \in Nat, n \notin P PROVE FALSE
    OBVIOUS
<1> DEFINE S == 0..n
           T == {(0..m) : m \in {k \in 0..n : k \notin P}}
<1>1. IsFiniteSet(S)
    BY FS_Interval
<1>2. T \subseteq SUBSET S /\ T # {}
    OBVIOUS
<1> HIDE DEF S, T
<1>3. PICK x \in T : \A y \in T : y \subseteq x => y = x
    BY <1>1, <1>2, SmallestSet
<1>4. PICK m \in 0..n : m \notin P /\ x = 0..m
    BY DEF T
<1>5. m # 0 /\ m - 1 \in Nat /\ m - 1 \in 0..n
    BY <1>4
<1>6. m - 1 \notin P
    BY <1>4, <1>5
<1>7. (0..(m-1)) \in T
    BY <1>5, <1>6 DEF T
<1>8. 0..(m-1) \subseteq x /\ 0..(m-1) # x
  <2>1. m \in x /\ m \notin 0..(m-1)
    BY <1>4, <1>5
  <2>2. \A i \in 0..(m-1) : i \in 0..m
    BY <1>5
  <2> QED BY <2>1, <2>2, <1>4
<1> QED
    BY <1>3, <1>7, <1>8
=============================================================================
