----------------------------- MODULE FiniteFacts ----------------------------
(***************************************************************************)
(* Facts about finite sets that the proofs of several components need.     *)
(***************************************************************************)
EXTENDS Integers, FiniteSetTheorems, TLAPS

\* A finite, nonempty set of natural numbers has a maximum.
LEMMA FiniteMax ==
    ASSUME NEW S \in SUBSET Nat, IsFiniteSet(S), S # {}
    PROVE  \E m \in S : \A x \in S : x <= m
<1> DEFINE HasMax(T) == \E m \in T : \A x \in T : x <= m
           Bad == {T \in SUBSET S : T # {} /\ ~HasMax(T)}
<1>1. SUFFICES ASSUME Bad # {} PROVE FALSE
  <2>1. S \notin Bad => HasMax(S)
    OBVIOUS
  <2> QED BY <2>1
<1>2. Bad \subseteq FiniteSubsetsOf(S)
  BY FS_FiniteSubsetsOfFinite
<1> HIDE DEF Bad
<1>3. PICK T \in Bad : \A U \in Bad : ~(<<U, T>> \in StrictSubsetOrdering(S))
  BY <1>1, <1>2, FS_StrictSubsetOrderingWellFounded, WFMin
<1> USE DEF Bad
<1>4. PICK y \in T : TRUE
  OBVIOUS
<1>5. <<T \ {y}, T>> \in StrictSubsetOrdering(S)
  BY <1>4 DEF StrictSubsetOrdering
<1>6. T \ {y} \notin Bad
  BY <1>3, <1>5
<1>7. CASE T \ {y} = {}
  <2>1. T = {y}
    BY <1>4, <1>7
  <2> QED BY <2>1
<1>8. CASE T \ {y} # {}
  <2>1. HasMax(T \ {y})
    BY <1>6, <1>8
  <2>2. PICK m \in T \ {y} : \A x \in T \ {y} : x <= m
    BY <2>1
  <2>3. m \in Nat /\ y \in Nat /\ \A x \in T : x \in Nat
    BY <1>4
  <2>4. CASE y <= m
    BY <2>2, <2>3, <2>4
  <2>5. CASE m <= y
    <3>1. \A x \in T : x <= y
      BY <2>2, <2>3, <2>5
    <3> QED BY <3>1, <1>4
  <2> QED BY <2>3, <2>4, <2>5
<1> QED BY <1>7, <1>8

\* A finite set has subsets of every size up to its own.
LEMMA FiniteSubset ==
    ASSUME NEW S, IsFiniteSet(S), NEW n \in Nat, n <= Cardinality(S)
    PROVE  \E T \in SUBSET S : Cardinality(T) = n
<1> DEFINE Large == {T \in SUBSET S : n <= Cardinality(T)}
<1>1. Large \subseteq FiniteSubsetsOf(S) /\ S \in Large
  BY FS_FiniteSubsetsOfFinite
<1> HIDE DEF Large
<1>2. PICK T \in Large : \A U \in Large : ~(<<U, T>> \in StrictSubsetOrdering(S))
  BY <1>1, FS_StrictSubsetOrderingWellFounded, WFMin
<1> USE DEF Large
<1>3. T \in SUBSET S /\ IsFiniteSet(T) /\ Cardinality(T) \in Nat /\ n <= Cardinality(T)
  BY <1>2, FS_Subset, FS_CardinalityType
<1>4. SUFFICES ASSUME n < Cardinality(T) PROVE FALSE
  BY <1>3
<1>5. PICK y \in T : TRUE
  BY <1>3, <1>4, FS_EmptySet
<1>6. <<T \ {y}, T>> \in StrictSubsetOrdering(S)
  BY <1>3, <1>5 DEF StrictSubsetOrdering
<1>7. T \ {y} \in Large
  <2>1. Cardinality(T \ {y}) = Cardinality(T) - 1
    BY <1>3, <1>5, FS_RemoveElement
  <2>2. T \ {y} \in SUBSET S /\ n <= Cardinality(T \ {y})
    BY <1>3, <1>4, <2>1
  <2> QED BY <2>2
<1> QED BY <1>2, <1>6, <1>7
=============================================================================
