--------------------------- MODULE FailoverProofs ---------------------------
(***************************************************************************)
(* The invariants and the action properties of Failover, for any number of *)
(* regions, nodes, specs, edits and faults.                                *)
(*                                                                         *)
(* PlanForSpec speaks of the plan that is stored; PlanInv adds what is     *)
(* known of the plan that is about to be: it is for the spec as it is as   *)
(* long as nobody wrote to the deployment since it was read, and never for *)
(* a generation to come.  ReplicaInv adds the numbers in it: what the      *)
(* moves of reschedule leave in each region, and that they add up, for the *)
(* flags, the pods and the spec that the plan was made from.               *)
(*                                                                         *)
(* The first part holds the facts about sums over finite sets, and about   *)
(* the replicas that ParseRegionReplicas makes of percentages.             *)
(***************************************************************************)
EXTENDS Failover, FiniteSetTheorems, TLAPS

-----------------------------------------------------------------------------
(* Least elements, in place of induction                                   *)

\* A nonempty set of natural numbers has a least element.
LEMMA LeastNatural ==
    ASSUME NEW T \in SUBSET Nat, T # {}
    PROVE  \E m \in T : \A k \in T : m <= k
<1>1. PICK m \in T : \A k \in T : ~(<<k, m>> \in OpToRel(<, Nat))
  BY NatLessThanWellFounded, WFMin
<1>2. \A k \in T : ~(k < m)
  BY <1>1 DEF OpToRel
<1> QED BY <1>2

\* A nonempty set of finite sets, all subsets of S, has a member no other member
\* is a proper subset of.
LEMMA LeastSubset ==
    ASSUME NEW S, IsFiniteSet(S), NEW Bad \in SUBSET (SUBSET S), Bad # {}
    PROVE  \E T \in Bad : \A U \in Bad : ~(U \subseteq T /\ U # T)
<1>1. Bad \subseteq FiniteSubsetsOf(S)
  BY FS_FiniteSubsetsOfFinite
<1>2. PICK T \in Bad : \A U \in Bad : ~(<<U, T>> \in StrictSubsetOrdering(S))
  BY <1>1, FS_StrictSubsetOrderingWellFounded, WFMin
<1> QED BY <1>2 DEF StrictSubsetOrdering

\* What holds for the empty set, and for a set with one element more whenever it
\* holds for the set, holds for every finite set.
LEMMA SetInduction ==
    ASSUME NEW S, IsFiniteSet(S), NEW Good \in SUBSET (SUBSET S), {} \in Good,
           \A T \in Good : \A y \in S \ T : T \cup {y} \in Good
    PROVE  S \in Good
<1> DEFINE Bad == (SUBSET S) \ Good
<1> SUFFICES ASSUME S \notin Good PROVE FALSE
  OBVIOUS
<1>1. Bad \in SUBSET (SUBSET S) /\ Bad # {}
  <2>1. S \in Bad
    OBVIOUS
  <2> QED BY <2>1
<1>2. PICK T \in Bad : \A U \in Bad : ~(U \subseteq T /\ U # T)
  <2> HIDE DEF Bad
  <2> QED BY <1>1, LeastSubset
<1>3. T \in SUBSET S /\ T # {} /\ T \notin Good
  BY <1>2
<1>4. PICK y \in T : TRUE
  BY <1>3
<1>5. T \ {y} \in Good
  BY <1>2, <1>3, <1>4
<1>6. (T \ {y}) \cup {y} \in Good
  BY <1>3, <1>4, <1>5
<1>7. (T \ {y}) \cup {y} = T
  BY <1>4
<1> QED BY <1>3, <1>6, <1>7

-----------------------------------------------------------------------------
(* Sums                                                                    *)

Pick(s) == CHOOSE x \in s : TRUE

\* iter is a function on the sets in Dom that sums f up, element by element.
Sums(iter, f, Dom) ==
    iter = [s \in Dom |-> IF s = {} THEN 0 ELSE f[Pick(s)] + iter[s \ {Pick(s)}]]

LEMMA PickIn == \A s : s # {} => Pick(s) \in s
BY DEF Pick

\* The recursive function that MapThenSumSet defines exists.
LEMMA SumsExists ==
    ASSUME NEW S, IsFiniteSet(S), NEW f
    PROVE  \E iter : Sums(iter, f, SUBSET S)
<1> DEFINE Upto(k) == {s \in SUBSET S : Cardinality(s) <= k}
           Good(k) == \E iter : Sums(iter, f, Upto(k))
           Bad     == {k \in Nat : ~Good(k)}
<1>1. \A s \in SUBSET S : IsFiniteSet(s) /\ Cardinality(s) \in Nat
  BY FS_Subset, FS_CardinalityType
<1>2. \A s \in SUBSET S : Cardinality(s) = 0 <=> s = {}
  BY <1>1, FS_EmptySet
<1>3. \A s \in SUBSET S : s # {} =>
         /\ s \ {Pick(s)} \in SUBSET S
         /\ Cardinality(s \ {Pick(s)}) = Cardinality(s) - 1
  BY <1>1, PickIn, FS_RemoveElement
<1>4. Good(0)
  <2> DEFINE g == [s \in Upto(0) |-> 0]
  <2>1. Upto(0) = {{}}
    BY <1>1, <1>2, FS_EmptySet
  <2>2. g = [s \in Upto(0) |-> IF s = {} THEN 0 ELSE f[Pick(s)] + g[s \ {Pick(s)}]]
    BY <2>1
  <2>3. Sums(g, f, Upto(0))
    BY <2>2 DEF Sums
  <2> QED BY <2>3
<1>5. ASSUME NEW k \in Nat, Good(k) PROVE Good(k + 1)
  <2> DEFINE D == Upto(k)
             E == Upto(k + 1)
  <2>1. PICK g : Sums(g, f, D)
    BY <1>5
  <2> DEFINE h == [s \in E |-> IF s \in D THEN g[s] ELSE f[Pick(s)] + g[s \ {Pick(s)}]]
  <2>2. D \subseteq E /\ \A s \in E : s # {} => s \ {Pick(s)} \in D
    BY <1>1, <1>3
  <2>3. {} \in D
    BY <1>1, <1>2
  <2>4. \A s \in D : g[s] = IF s = {} THEN 0 ELSE f[Pick(s)] + g[s \ {Pick(s)}]
    BY <2>1 DEF Sums
  <2> HIDE DEF D, E
  <2>5. \A s \in E : s # {} => h[s \ {Pick(s)}] = g[s \ {Pick(s)}]
    BY <2>2
  <2>6. \A s \in E : h[s] = IF s = {} THEN 0 ELSE f[Pick(s)] + h[s \ {Pick(s)}]
    <3> SUFFICES ASSUME NEW s \in E
                 PROVE  h[s] = IF s = {} THEN 0 ELSE f[Pick(s)] + h[s \ {Pick(s)}]
      OBVIOUS
    <3>1. h[s] = IF s \in D THEN g[s] ELSE f[Pick(s)] + g[s \ {Pick(s)}]
      OBVIOUS
    <3> HIDE DEF h
    <3>2. CASE s = {}
      BY <2>3, <2>4, <3>1, <3>2
    <3>3. CASE s # {} /\ s \in D
      BY <2>4, <2>5, <3>1, <3>3
    <3>4. CASE s # {} /\ s \notin D
      BY <2>5, <3>1, <3>4
    <3> QED BY <3>2, <3>3, <3>4
  <2>7. h = [s \in E |-> h[s]]
    OBVIOUS
  <2> HIDE DEF h
  <2>8. h = [s \in E |-> IF s = {} THEN 0 ELSE f[Pick(s)] + h[s \ {Pick(s)}]]
    BY <2>6, <2>7
  <2>9. Sums(h, f, E)
    BY <2>8 DEF Sums
  <2> QED BY <2>9 DEF E
<1>6. Bad = {}
  <2> SUFFICES ASSUME Bad # {} PROVE FALSE
    OBVIOUS
  <2> HIDE DEF Good
  <2>1. PICK m \in Bad : \A k \in Bad : m <= k
    BY LeastNatural
  <2>2. m \in Nat /\ m # 0
    BY <1>4, <2>1
  <2>3. m - 1 \in Nat /\ m - 1 \notin Bad
    BY <2>1, <2>2
  <2>4. Good((m - 1) + 1)
    BY <1>5, <2>3
  <2>5. (m - 1) + 1 = m
    BY <2>2
  <2> QED BY <2>1, <2>4, <2>5
<1>7. Cardinality(S) \in Nat /\ Upto(Cardinality(S)) = SUBSET S
  BY <1>1, FS_Subset
<1>8. Good(Cardinality(S))
  BY <1>6, <1>7
<1> QED BY <1>7, <1>8

\* What SumOver sums up: every subset of S.
LEMMA SumOverIs ==
    ASSUME NEW S, IsFiniteSet(S), NEW f
    PROVE  \E iter : Sums(iter, f, SUBSET S) /\ SumOver(f, S) = iter[S]
<1> DEFINE iter == CHOOSE i : Sums(i, f, SUBSET S)
<1>1. SumOver(f, S) = iter[S]
  BY DEF SumOver, MapThenSumSet, MapThenFoldSet, Pick, Sums
<1>2. Sums(iter, f, SUBSET S)
  BY SumsExists
<1> QED BY <1>1, <1>2

\* iter[T] may be taken apart at any element of T.
Apart(iter, f, T) == \A y \in T : iter[T] = f[y] + iter[T \ {y}]

\* The sum does not depend on the order in which the elements are picked.
LEMMA SumsAnyOrder ==
    ASSUME NEW S, IsFiniteSet(S), NEW f, \A x \in S : f[x] \in Int,
           NEW iter, Sums(iter, f, SUBSET S), NEW R \in SUBSET S
    PROVE  iter[R] \in Int /\ Apart(iter, f, R)
<1> USE DEF Apart
<1> DEFINE Ok(T) == iter[T] \in Int /\ Apart(iter, f, T)
           Bad   == {T \in SUBSET S : ~Ok(T)}
<1>1. \A T \in SUBSET S : iter[T] = IF T = {} THEN 0 ELSE f[Pick(T)] + iter[T \ {Pick(T)}]
  BY DEF Sums
<1> SUFFICES ASSUME Bad # {} PROVE FALSE
  OBVIOUS
<1>2. PICK T \in Bad : \A U \in Bad : ~(U \subseteq T /\ U # T)
  <2> HIDE DEF Ok
  <2>1. Bad \in SUBSET (SUBSET S)
    OBVIOUS
  <2> HIDE DEF Bad
  <2> QED BY <2>1, LeastSubset
<1>3. \A U \in SUBSET S : U \subseteq T /\ U # T => Ok(U)
  <2> HIDE DEF Ok
  <2> QED BY <1>2
<1>4. CASE T = {}
  <2>1. iter[T] = 0
    BY <1>1, <1>4
  <2>2. Ok(T)
    BY <1>4, <2>1
  <2> QED BY <1>2, <2>2
<1>5. CASE T # {}
  <2> DEFINE x == Pick(T)
  <2>1. x \in T /\ T \in SUBSET S /\ f[x] \in Int
    BY <1>5, PickIn
  <2>2. iter[T] = f[x] + iter[T \ {x}]
    BY <1>1, <1>5, <2>1
  <2> HIDE DEF x
  <2>3. iter[T \ {x}] \in Int
    BY <1>3, <2>1
  <2>4. ASSUME NEW y \in T, y # x PROVE iter[T] = f[y] + iter[T \ {y}]
    <3>1. iter[T \ {x}] = f[y] + iter[(T \ {x}) \ {y}]
      BY <1>3, <2>1, <2>4
    <3>2. iter[T \ {y}] = f[x] + iter[(T \ {y}) \ {x}]
      BY <1>3, <2>1, <2>4
    <3>3. (T \ {x}) \ {y} = (T \ {y}) \ {x}
      OBVIOUS
    <3>4. iter[(T \ {x}) \ {y}] \in Int /\ f[y] \in Int
      BY <1>3, <2>1, <2>4
    <3> DEFINE c == iter[(T \ {x}) \ {y}]
    <3>5. iter[T \ {x}] = f[y] + c /\ iter[T \ {y}] = f[x] + c /\ c \in Int
      BY <3>1, <3>2, <3>3, <3>4
    <3> HIDE DEF Bad, c
    <3> QED BY <2>1, <2>2, <3>4, <3>5
  <2>5. iter[T] \in Int
    BY <2>1, <2>2, <2>3
  <2>6. \A y \in T : iter[T] = f[y] + iter[T \ {y}]
    <3> HIDE DEF Bad
    <3> QED BY <2>2, <2>4
  <2> QED BY <1>2, <2>5, <2>6
<1> QED BY <1>4, <1>5

LEMMA SumsAgree ==
    ASSUME NEW S, IsFiniteSet(S), NEW f, NEW T \in SUBSET S,
           NEW i, Sums(i, f, SUBSET S), NEW j, Sums(j, f, SUBSET T)
    PROVE  i[T] = j[T]
<1> DEFINE Bad == {U \in SUBSET T : i[U] # j[U]}
<1>1. \A U \in SUBSET T : /\ i[U] = IF U = {} THEN 0 ELSE f[Pick(U)] + i[U \ {Pick(U)}]
                          /\ j[U] = IF U = {} THEN 0 ELSE f[Pick(U)] + j[U \ {Pick(U)}]
  BY DEF Sums
<1> SUFFICES ASSUME Bad # {} PROVE FALSE
  OBVIOUS
<1>2. IsFiniteSet(T)
  BY FS_Subset
<1>3. PICK U \in Bad : \A V \in Bad : ~(V \subseteq U /\ V # U)
  <2>1. Bad \in SUBSET (SUBSET T)
    OBVIOUS
  <2> HIDE DEF Bad
  <2> QED BY <1>2, <2>1, LeastSubset
<1>4. U # {}
  BY <1>1
<1>5. Pick(U) \in U /\ U \ {Pick(U)} \in SUBSET T /\ U \ {Pick(U)} # U
  BY <1>4, PickIn
<1>6. i[U \ {Pick(U)}] = j[U \ {Pick(U)}]
  BY <1>3, <1>5
<1> QED BY <1>1, <1>4, <1>6

\* A sum over a finite set, taken apart at any of its elements.
LEMMA SumOverFacts ==
    ASSUME NEW S, IsFiniteSet(S), NEW f, \A x \in S : f[x] \in Int
    PROVE  /\ SumOver(f, S) \in Int
           /\ \A y \in S : SumOver(f, S) = f[y] + SumOver(f, S \ {y})
<1>1. PICK i : Sums(i, f, SUBSET S) /\ SumOver(f, S) = i[S]
  BY SumOverIs
<1>2. i[S] \in Int /\ \A y \in S : i[S] = f[y] + i[S \ {y}]
  <2>1. S \in SUBSET S
    OBVIOUS
  <2>2. i[S] \in Int /\ Apart(i, f, S)
    BY <1>1, <2>1, SumsAnyOrder
  <2> QED BY <2>2 DEF Apart
<1>3. ASSUME NEW y \in S PROVE SumOver(f, S \ {y}) = i[S \ {y}]
  <2>1. IsFiniteSet(S \ {y})
    BY FS_Subset
  <2>2. PICK j : Sums(j, f, SUBSET (S \ {y})) /\ SumOver(f, S \ {y}) = j[S \ {y}]
    BY <2>1, SumOverIs
  <2>3. i[S \ {y}] = j[S \ {y}]
    <3>1. S \ {y} \in SUBSET S
      OBVIOUS
    <3> QED BY <1>1, <2>2, <3>1, SumsAgree
  <2> QED BY <2>2, <2>3
<1> QED BY <1>1, <1>2, <1>3

LEMMA SumOverEmpty ==
    ASSUME NEW f
    PROVE  SumOver(f, {}) = 0
<1>1. IsFiniteSet({})
  BY FS_EmptySet
<1>2. PICK i : Sums(i, f, SUBSET {}) /\ SumOver(f, {}) = i[{}]
  BY <1>1, SumOverIs
<1> QED BY <1>2 DEF Sums

LEMMA SumOverInsert ==
    ASSUME NEW S, IsFiniteSet(S), NEW f, \A x \in S : f[x] \in Int,
           NEW T \in SUBSET S, NEW y \in S \ T
    PROVE  /\ SumOver(f, T) \in Int /\ SumOver(f, T \cup {y}) \in Int
           /\ SumOver(f, T \cup {y}) = f[y] + SumOver(f, T)
<1>1. IsFiniteSet(T) /\ IsFiniteSet(T \cup {y})
  BY FS_Subset, FS_AddElement
<1>2. SumOver(f, T) \in Int
  BY <1>1, SumOverFacts
<1>3. /\ SumOver(f, T \cup {y}) \in Int
      /\ \A z \in T \cup {y} : SumOver(f, T \cup {y}) = f[z] + SumOver(f, (T \cup {y}) \ {z})
  <2>1. \A x \in T \cup {y} : f[x] \in Int
    OBVIOUS
  <2> QED BY <1>1, <2>1, SumOverFacts
<1>4. (T \cup {y}) \ {y} = T
  OBVIOUS
<1> QED BY <1>2, <1>3, <1>4

\* Sums are equal, or bounded, if their terms are.
LEMMA SumOverEqual ==
    ASSUME NEW S, IsFiniteSet(S), NEW f, NEW g,
           \A x \in S : f[x] \in Int /\ f[x] = g[x]
    PROVE  SumOver(f, S) = SumOver(g, S)
<1> DEFINE Good == {T \in SUBSET S : SumOver(f, T) = SumOver(g, T)}
<1>1. {} \in Good
  BY SumOverEmpty
<1>2. ASSUME NEW T \in Good, NEW y \in S \ T PROVE T \cup {y} \in Good
  <2>1. /\ SumOver(f, T \cup {y}) = f[y] + SumOver(f, T)
        /\ SumOver(g, T \cup {y}) = g[y] + SumOver(g, T)
    BY SumOverInsert
  <2> QED BY <2>1
<1>3. Good \in SUBSET (SUBSET S)
  OBVIOUS
<1> HIDE DEF Good
<1>4. S \in Good
  BY <1>1, <1>2, <1>3, SetInduction
<1> QED BY <1>4 DEF Good

LEMMA SumOverNat ==
    ASSUME NEW S, IsFiniteSet(S), NEW f, \A x \in S : f[x] \in Nat
    PROVE  SumOver(f, S) \in Nat
<1> DEFINE Good == {T \in SUBSET S : SumOver(f, T) \in Nat}
<1>1. {} \in Good
  BY SumOverEmpty
<1>2. ASSUME NEW T \in Good, NEW y \in S \ T PROVE T \cup {y} \in Good
  <2>1. SumOver(f, T \cup {y}) = f[y] + SumOver(f, T)
    BY SumOverInsert
  <2> QED BY <2>1
<1>3. Good \in SUBSET (SUBSET S)
  OBVIOUS
<1> HIDE DEF Good
<1>4. S \in Good
  BY <1>1, <1>2, <1>3, SetInduction
<1> QED BY <1>4 DEF Good

LEMMA SumOverPlus ==
    ASSUME NEW S, IsFiniteSet(S), NEW f, NEW g, NEW h,
           \A x \in S : f[x] \in Int /\ g[x] \in Int /\ h[x] = f[x] + g[x]
    PROVE  /\ SumOver(f, S) \in Int /\ SumOver(g, S) \in Int
           /\ SumOver(h, S) = SumOver(f, S) + SumOver(g, S)
<1> DEFINE Good == {T \in SUBSET S : SumOver(h, T) = SumOver(f, T) + SumOver(g, T)}
<1>1. {} \in Good
  BY SumOverEmpty
<1>2. ASSUME NEW T \in Good, NEW y \in S \ T PROVE T \cup {y} \in Good
  <2>0. \A x \in S : h[x] \in Int
    OBVIOUS
  <2>1. /\ SumOver(f, T \cup {y}) = f[y] + SumOver(f, T) /\ SumOver(f, T) \in Int
        /\ SumOver(g, T \cup {y}) = g[y] + SumOver(g, T) /\ SumOver(g, T) \in Int
        /\ SumOver(h, T \cup {y}) = h[y] + SumOver(h, T)
    BY <2>0, SumOverInsert
  <2>2. f[y] \in Int /\ g[y] \in Int /\ h[y] = f[y] + g[y]
    OBVIOUS
  <2>3. SumOver(h, T) = SumOver(f, T) + SumOver(g, T)
    OBVIOUS
  <2>4. SumOver(h, T \cup {y}) = SumOver(f, T \cup {y}) + SumOver(g, T \cup {y})
    BY <2>1, <2>2, <2>3
  <2> QED BY <2>4
<1>3. Good \in SUBSET (SUBSET S)
  OBVIOUS
<1>5. SumOver(f, S) \in Int /\ SumOver(g, S) \in Int
  BY SumOverFacts
<1> HIDE DEF Good
<1>4. S \in Good
  BY <1>1, <1>2, <1>3, SetInduction
<1> QED BY <1>4, <1>5 DEF Good

\* A sum over S is that over a part of S and that over the rest.
LEMMA SumOverSplit ==
    ASSUME NEW S, IsFiniteSet(S), NEW f, \A x \in S : f[x] \in Int, NEW A \in SUBSET S
    PROVE  /\ SumOver(f, A) \in Int /\ SumOver(f, S \ A) \in Int
           /\ SumOver(f, S) = SumOver(f, A) + SumOver(f, S \ A)
<1> DEFINE B == S \ A
           Good == {T \in SUBSET B : SumOver(f, A \cup T) = SumOver(f, A) + SumOver(f, T)}
<1>1. IsFiniteSet(A) /\ IsFiniteSet(B)
  BY FS_Subset
<1>2. SumOver(f, A) \in Int /\ SumOver(f, B) \in Int
  BY <1>1, SumOverFacts
<1>3. {} \in Good
  <2>1. A \cup {} = A
    OBVIOUS
  <2> QED BY <1>2, <2>1, SumOverEmpty
<1>4. ASSUME NEW T \in Good, NEW y \in B \ T PROVE T \cup {y} \in Good
  <2>0. T \in SUBSET S /\ y \in S \ T /\ A \cup T \in SUBSET S /\ y \in S \ (A \cup T)
    OBVIOUS
  <2>1. SumOver(f, T \cup {y}) = f[y] + SumOver(f, T) /\ SumOver(f, T) \in Int
    BY <2>0, SumOverInsert
  <2>2. SumOver(f, (A \cup T) \cup {y}) = f[y] + SumOver(f, A \cup T)
    <3> DEFINE U == A \cup T
    <3>1. U \in SUBSET S /\ y \in S \ U
      BY <2>0
    <3> HIDE DEF U
    <3>2. SumOver(f, U \cup {y}) = f[y] + SumOver(f, U)
      BY <3>1, SumOverInsert
    <3> QED BY <3>2 DEF U
  <2>3. (A \cup T) \cup {y} = A \cup (T \cup {y})
    OBVIOUS
  <2>4. SumOver(f, A \cup T) = SumOver(f, A) + SumOver(f, T) /\ f[y] \in Int
    OBVIOUS
  <2>5. SumOver(f, A \cup (T \cup {y})) = f[y] + (SumOver(f, A) + SumOver(f, T))
    BY <2>2, <2>3, <2>4
  <2>6. SumOver(f, A \cup (T \cup {y})) = SumOver(f, A) + SumOver(f, T \cup {y})
    <3> HIDE DEF Good, B
    <3> QED BY <1>2, <2>1, <2>4, <2>5
  <2> QED BY <2>6
<1>5. Good \in SUBSET (SUBSET B)
  OBVIOUS
<1>6. A \cup B = S
  OBVIOUS
<1>7. B \in Good
  <2> HIDE DEF Good, B
  <2> QED BY <1>1, <1>3, <1>4, <1>5, SetInduction
<1> QED BY <1>2, <1>6, <1>7

-----------------------------------------------------------------------------
(* Replicas of regions                                                     *)

LEMMA AtLeastZeroNat == \A n \in Int : AtLeastZero(n) \in Nat
BY DEF AtLeastZero

\* One more in one region.
LEMMA TotalBumped ==
    ASSUME NEW f \in [Regions -> Int], NEW g \in [Regions -> Int], NEW t \in Regions,
           g[t] = f[t] + 1, \A r \in Regions \ {t} : g[r] = f[r]
    PROVE  Total(g) = Total(f) + 1
<1> USE RegionsAssumption
<1>1. /\ SumOver(f, Regions) = f[t] + SumOver(f, Regions \ {t})
      /\ SumOver(g, Regions) = g[t] + SumOver(g, Regions \ {t})
  <2>1. \A r \in Regions : f[r] \in Int /\ g[r] \in Int
    OBVIOUS
  <2> QED BY <2>1, SumOverFacts
<1>2. IsFiniteSet(Regions \ {t})
  BY FS_Subset
<1>3. SumOver(f, Regions \ {t}) = SumOver(g, Regions \ {t}) /\ SumOver(f, Regions \ {t}) \in Int
  <2>1. \A r \in Regions \ {t} : f[r] \in Int /\ f[r] = g[r]
    OBVIOUS
  <2> QED BY <1>2, <2>1, SumOverEqual, SumOverFacts
<1> QED BY <1>1, <1>3 DEF Total

\* z is zero throughout S.
LEMMA SumOverZero ==
    ASSUME NEW S, IsFiniteSet(S), NEW z, \A x \in S : z[x] = 0
    PROVE  SumOver(z, S) = 0
<1>1. \A x \in S : z[x] \in Int /\ z[x] \in Int /\ z[x] = z[x] + z[x]
  OBVIOUS
<1>2. SumOver(z, S) \in Int /\ SumOver(z, S) = SumOver(z, S) + SumOver(z, S)
  BY <1>1, SumOverPlus
<1>3. \A n \in Int : n = n + n => n = 0
  OBVIOUS
<1> QED BY <1>2, <1>3, Zenon

\* Part of f replaced by g.
LEMMA TotalReplaced ==
    ASSUME NEW f \in [Regions -> Int], NEW g \in [Regions -> Int],
           NEW h \in [Regions -> Int], NEW A \in SUBSET Regions,
           \A r \in Regions : h[r] = IF r \in A THEN g[r] ELSE f[r]
    PROVE  /\ SumOver(f, A) \in Int /\ SumOver(g, A) \in Int /\ Total(f) \in Int
           /\ Total(h) = Total(f) - SumOver(f, A) + SumOver(g, A)
<1> USE RegionsAssumption
<1> DEFINE B == Regions \ A
<1>1. IsFiniteSet(A) /\ IsFiniteSet(B)
  BY FS_Subset
<1>2. /\ SumOver(f, A) \in Int /\ SumOver(f, B) \in Int
      /\ SumOver(f, Regions) = SumOver(f, A) + SumOver(f, B)
  <2>1. \A r \in Regions : f[r] \in Int
    OBVIOUS
  <2> QED BY <2>1, SumOverSplit
<1>3. /\ SumOver(h, A) \in Int /\ SumOver(h, B) \in Int
      /\ SumOver(h, Regions) = SumOver(h, A) + SumOver(h, B)
  <2>1. \A r \in Regions : h[r] \in Int
    OBVIOUS
  <2> QED BY <2>1, SumOverSplit
<1>4. SumOver(h, A) = SumOver(g, A)
  <2>1. \A r \in A : h[r] \in Int /\ h[r] = g[r]
    OBVIOUS
  <2> QED BY <1>1, <2>1, SumOverEqual
<1>5. SumOver(h, B) = SumOver(f, B)
  <2>1. \A r \in B : h[r] \in Int /\ h[r] = f[r]
    OBVIOUS
  <2> QED BY <1>1, <2>1, SumOverEqual
<1> HIDE DEF B
<1> QED BY <1>2, <1>3, <1>4, <1>5 DEF Total

LEMMA Distributes ==
    ASSUME NEW a \in Int, NEW b \in Int, NEW c \in Int
    PROVE  a * (b + c) = a * b + a * c
OBVIOUS

\* round is off by at most a half.
LEMMA RoundedHalf ==
    ASSUME NEW w \in Nat
    PROVE  LET c == (w + 100) \div 200
           IN  c \in Nat /\ 200 * c - w <= 100 /\ w - 200 * c <= 100
OBVIOUS

LEMMA ConfigType ==
    ASSUME NEW s \in SpecType
    PROVE  Config(s) \in [Regions -> Nat \cup {Error}] /\ (Parses(s) => Config(s) \in [Regions -> Nat])
<1> SUFFICES ASSUME NEW r \in Regions
             PROVE  /\ ParseRegionReplicas(s.total, s.want[r]) \in Nat \cup {Error}
                    /\ Parses(s) => ParseRegionReplicas(s.total, s.want[r]) \in Nat
  BY DEF Config
<1>1. s.total \in Nat /\ s.want[r].val \in Int
  BY DEF SpecType, Quantity
<1>2. s.want[r].val \in 0..100 => (2 * s.total * s.want[r].val + 100) \div 200 \in Nat
  <2> SUFFICES ASSUME s.want[r].val \in 0..100
               PROVE  (2 * s.total * s.want[r].val + 100) \div 200 \in Nat
    OBVIOUS
  <2>1. 2 * s.total * s.want[r].val \in Nat
    BY <1>1
  <2> QED BY <2>1, RoundedHalf
<1>3. ParseRegionReplicas(s.total, s.want[r]) \in Nat \cup {Error}
  BY <1>1, <1>2 DEF ParseRegionReplicas
<1> QED BY <1>3 DEF Parses

\* The sum of percentages that the webhook admits is that of spec.replicas, up to
\* a half for each region.
LEMMA ConfigRounded ==
    ASSUME NEW s \in SpecType, CompareReplicas(s),
           \A r \in Regions : s.want[r].kind = "percent"
    PROVE  LET off == Total(Config(s)) - s.total
           IN  2 * off <= Cardinality(Regions) /\ -2 * off <= Cardinality(Regions)
<1> USE RegionsAssumption
<1> DEFINE t == s.total
           v == [r \in Regions |-> s.want[r].val]
           c == Config(s)
           Close(T) == LET off == 200 * SumOver(c, T) - (2 * t) * SumOver(v, T)
                       IN  off <= 100 * Cardinality(T) /\ -off <= 100 * Cardinality(T)
           Good == {T \in SUBSET Regions : Close(T)}
<1>1. t \in Nat /\ \A r \in Regions : v[r] \in 0..100
  BY DEF CompareReplicas, SpecType
<1>2. Total(v) = 100
  BY DEF CompareReplicas
<1>3. \A r \in Regions : /\ c[r] \in Nat
                         /\ 200 * c[r] - (2 * t) * v[r] <= 100
                         /\ (2 * t) * v[r] - 200 * c[r] <= 100
  <2> SUFFICES ASSUME NEW r \in Regions
               PROVE  /\ c[r] \in Nat
                      /\ 200 * c[r] - (2 * t) * v[r] <= 100
                      /\ (2 * t) * v[r] - 200 * c[r] <= 100
    OBVIOUS
  <2> DEFINE w == (2 * t) * v[r]
  <2>1. w \in Nat
    BY <1>1
  <2>2. c[r] = (w + 100) \div 200
    BY <1>1 DEF Config, ParseRegionReplicas
  <2> HIDE DEF w
  <2>3. c[r] \in Nat /\ 200 * c[r] - w <= 100 /\ w - 200 * c[r] <= 100
    <3> HIDE DEF c
    <3> QED BY <2>1, <2>2, RoundedHalf
  <2> QED BY <2>3 DEF w
<1> HIDE DEF t, v, c
<1>4. {} \in Good
  <2>1. SumOver(c, {}) = 0 /\ SumOver(v, {}) = 0 /\ Cardinality({}) = 0
    BY SumOverEmpty, FS_EmptySet
  <2> QED BY <1>1, <2>1
<1>5. ASSUME NEW T \in Good, NEW y \in Regions \ T PROVE T \cup {y} \in Good
  <2>1. IsFiniteSet(T) /\ Cardinality(T) \in Nat
    BY FS_Subset, FS_CardinalityType
  <2>2. Cardinality(T \cup {y}) = Cardinality(T) + 1
    BY <2>1, FS_AddElement
  <2>3. /\ SumOver(c, T) \in Int /\ SumOver(c, T \cup {y}) = c[y] + SumOver(c, T)
        /\ SumOver(v, T) \in Int /\ SumOver(v, T \cup {y}) = v[y] + SumOver(v, T)
    <3>1. \A r \in Regions : c[r] \in Int /\ v[r] \in Int
      BY <1>1, <1>3
    <3>2. T \in SUBSET Regions
      OBVIOUS
    <3> HIDE DEF Good
    <3> QED BY <3>1, <3>2, SumOverInsert
  <2> DEFINE a == (2 * t) * v[y]
             b == (2 * t) * SumOver(v, T)
             C == SumOver(c, T)
             n == Cardinality(T)
  <2>4. (2 * t) * SumOver(v, T \cup {y}) = a + b
    BY <1>1, <2>3, Distributes
  <2>5. a \in Int /\ b \in Int /\ C \in Int /\ c[y] \in Int /\ n \in Nat
    BY <1>1, <1>3, <2>1, <2>3
  <2>6. /\ 200 * C - b <= 100 * n /\ -(200 * C - b) <= 100 * n
    OBVIOUS
  <2>7. 200 * c[y] - a <= 100 /\ a - 200 * c[y] <= 100
    BY <1>3
  <2>8. /\ SumOver(c, T \cup {y}) = c[y] + C
        /\ Cardinality(T \cup {y}) = n + 1
    BY <2>2, <2>3
  <2> HIDE DEF a, b, C, n, Good
  <2>9. Close(T \cup {y})
    BY <2>4, <2>5, <2>6, <2>7, <2>8
  <2> HIDE DEF Close
  <2> QED BY <2>9 DEF Good
<1>6. Good \in SUBSET (SUBSET Regions)
  OBVIOUS
<1>7. Regions \in Good
  <2> HIDE DEF Good
  <2> QED BY <1>4, <1>5, <1>6, SetInduction
<1>8. /\ SumOver(v, Regions) = 100 /\ SumOver(c, Regions) \in Int
      /\ Cardinality(Regions) \in Nat
  <2>1. \A r \in Regions : c[r] \in Int
    BY <1>3
  <2> QED BY <1>2, <2>1, SumOverFacts, FS_CardinalityType DEF Total
<1>9. 200 * SumOver(c, Regions) - (2 * t) * 100 <= 100 * Cardinality(Regions)
      /\ -(200 * SumOver(c, Regions) - (2 * t) * 100) <= 100 * Cardinality(Regions)
  BY <1>7, <1>8
<1> HIDE DEF Good
<1> QED BY <1>1, <1>8, <1>9 DEF Total, t, c

-----------------------------------------------------------------------------
(* Plans are for the spec as it is                                         *)

ForSpec(p) == p.generation = generation => p.config = Config(spec)

PlanInv ==
    /\ generation \in Nat \ {0}
    /\ plan.generation \in 0..generation /\ ForSpec(plan)
    /\ \A p \in newPlan :
          /\ p.generation \in 0..generation
          /\ "reschedule" \notin stale => ForSpec(p)

USE DEF ForSpec

\* A plan made by RescheduleFailedRegions and RescheduleInsufficientPods carries
\* the generation and the configured replicas of the spec.
LEMMA PlansForSpec ==
    ASSUME NEW failed, NEW short, NEW p \in Plans(failed, short)
    PROVE  p.generation = generation /\ p.config = Config(spec)
<1>1. PICK s : p = Plan(s)
  BY DEF Plans
<1> QED
  BY <1>1 DEF Plan

LEMMA PlanInvInit == Init => PlanInv
BY DEF Init, PlanInv, NoPlan, Zero

\* Steps that change neither the spec nor a plan, and free no copy.
LEMMA PlanInvKept ==
    ASSUME PlanInv, UNCHANGED <<spec, generation, plan, newPlan>>,
           "reschedule" \in stale => "reschedule" \in stale'
    PROVE  PlanInv'
BY DEF PlanInv, Config

LEMMA PlanInvStep == PlanInv /\ [Next]_vars => PlanInv'
<1> SUFFICES ASSUME PlanInv, [Next]_vars PROVE PlanInv'
  OBVIOUS
<1>1. CASE RegionSync /\ UNCHANGED <<newPlan, edits>>
  <2>1. UNCHANGED <<spec, generation, plan, newPlan>>
    BY <1>1 DEF RegionSync, RebuildCache, RegionEvent, CheckRegionStatus, CheckRegionStatusReads,
                SetFailureAnnotation, SetFailureAnnotationFails, deployVars
  <2>2. "reschedule" \in stale => "reschedule" \in stale'
    BY <1>1 DEF RegionSync, RebuildCache, RegionEvent, CheckRegionStatus, CheckRegionStatusReads,
                SetFailureAnnotation, SetFailureAnnotationFails, deployVars, Copies
  <2> QED BY <2>1, <2>2, PlanInvKept
<1>2. CASE DropPlan
  BY <1>2 DEF DropPlan, PlanInv, deployVars, NoPlan, Zero, Config
<1>3. CASE MakePlan
  <2>1. PICK p \in Plans(flag, Short) : newPlan' = {p}
    BY <1>3 DEF MakePlan
  <2>2. p.generation = generation /\ p.config = Config(spec)
    BY <2>1, PlansForSpec
  <2> QED
    BY <1>3, <2>1, <2>2 DEF MakePlan, PlanInv, deployVars, Config
<1>4. CASE WritePlan
  BY <1>4 DEF WritePlan, PlanInv, Config
<1>5. CASE WriteCondition \/ WritePlanFails
  BY <1>5 DEF WriteCondition, WritePlanFails, PlanInv, deployVars, Config
<1>6. CASE Rollout
  BY <1>6, PlanInvKept DEF Rollout, RolloutStarts, RolloutEnds, Copies
<1>7. CASE Restart
  BY <1>7 DEF Restart, PlanInv, deployVars, Config
<1>8. CASE \E n \in Nodes : (NodeFails(n) \/ NodeRecovers(n)) /\ UNCHANGED <<newPlan, edits>>
  BY <1>8, PlanInvKept DEF NodeFails, NodeRecovers, deployVars, Copies
<1>9. CASE \E s \in Specs : UserEdit(s)
  BY <1>9 DEF UserEdit, PlanInv, Copies
<1>10. CASE UNCHANGED vars
  BY <1>10, PlanInvKept DEF vars, deployVars
<1> QED
  BY <1>1, <1>2, <1>3, <1>4, <1>5, <1>6, <1>7, <1>8, <1>9, <1>10 DEF Next, Reschedule

\* However reschedules, edits, failures and restarts interleave, a plan of the
\* current generation was made from the current spec: a reconcile of the
\* reschedule controller never stores a plan computed from a spec that the user
\* has replaced since, as the one that counts.
THEOREM PlanCurrent == Spec => []PlanForSpec
<1>1. PlanInv => PlanForSpec
  BY DEF PlanInv, PlanForSpec
<1> QED
  BY <1>1, PlanInvInit, PlanInvStep, PTL DEF Spec

-----------------------------------------------------------------------------
(* Room                                                                    *)

LEMMA MinNatural ==
    ASSUME NEW T \in SUBSET Nat, T # {}
    PROVE  Min(T) \in Nat
<1>1. \E m \in T : \A k \in T : m <= k
  BY LeastNatural
<1>2. Min(T) \in T
  BY <1>1 DEF Min
<1> QED BY <1>2

LEMMA RoomType == Room \in [Regions -> Nat]
<1>1. ASSUME NEW n \in Nodes PROVE Capacity[n] \in Nat
  <2> DEFINE res == NodeResource[n]
             T   == {res["pods"]} \cup
                    {Quotient(res[d], Request[d]) : d \in {d \in Divisible : Request[d] > 0}}
  <2>1. res["pods"] \in Nat
    BY RegionHealthAssumption DEF Resource, Divisible
  <2>2. ASSUME NEW d \in Divisible, Request[d] > 0
        PROVE  Quotient(res[d], Request[d]) \in Nat
    <3>1. res[d] \in Nat /\ Request[d] \in Nat
      BY RegionHealthAssumption DEF Resource, Divisible
    <3> HIDE DEF res
    <3> QED BY <2>2, <3>1 DEF Quotient
  <2>3. T \in SUBSET Nat /\ T # {}
    BY <2>1, <2>2
  <2>4. Capacity[n] = Min(T)
    BY DEF Capacity, MaxDivided
  <2> HIDE DEF T
  <2> QED BY <2>3, <2>4, MinNatural
<1>2. ASSUME NEW r \in Regions PROVE SumOver(Capacity, NodesOf(r)) \in Nat
  <2>1. IsFiniteSet(NodesOf(r))
    BY RegionHealthAssumption, FS_Subset DEF NodesOf
  <2>2. \A n \in NodesOf(r) : Capacity[n] \in Nat
    BY <1>1 DEF NodesOf
  <2> QED BY <2>1, <2>2, SumOverNat
<1>3. ASSUME NEW r \in Regions PROVE SumOver(Capacity, NodesOf(r)) - Used[r] \in Int
  BY <1>2, <1>3, FailoverAssumption
<1> QED BY <1>3, AtLeastZeroNat DEF Room

-----------------------------------------------------------------------------
(* Moving replicas                                                         *)

\* Move is a function on 0..k that moves replicas one by one.
Moves(Move, s, targets, k) ==
    Move = [i \in 0..k |-> IF i = 0 THEN {s}
                           ELSE UNION {MovedOne(x, targets) : x \in Move[i - 1]}]

\* The recursive function of Moved exists.
LEMMA MovesExists ==
    ASSUME NEW s, NEW targets, NEW n \in Nat
    PROVE  \E Move : Moves(Move, s, targets, n)
<1> DEFINE Good(k) == \E Move : Moves(Move, s, targets, k)
           Bad     == {k \in Nat : ~Good(k)}
           Step(X) == UNION {MovedOne(x, targets) : x \in X}
<1>1. Good(0)
  <2> DEFINE g == [i \in 0..0 |-> {s}]
  <2>1. g = [i \in 0..0 |-> IF i = 0 THEN {s} ELSE Step(g[i - 1])]
    <3> HIDE DEF Step
    <3> QED OBVIOUS
  <2>2. Moves(g, s, targets, 0)
    BY <2>1 DEF Moves
  <2> QED BY <2>2
<1>2. ASSUME NEW k \in Nat, Good(k) PROVE Good(k + 1)
  <2>1. PICK g : Moves(g, s, targets, k)
    BY <1>2
  <2> DEFINE h == [i \in 0..(k + 1) |-> IF i = k + 1 THEN Step(g[k]) ELSE g[i]]
  <2>2. \A i \in 0..k : g[i] = IF i = 0 THEN {s} ELSE Step(g[i - 1])
    BY <2>1 DEF Moves
  <2> HIDE DEF Step
  <2>3. \A i \in 0..(k + 1) : h[i] = IF i = 0 THEN {s} ELSE Step(h[i - 1])
    <3> SUFFICES ASSUME NEW i \in 0..(k + 1)
                 PROVE  h[i] = IF i = 0 THEN {s} ELSE Step(h[i - 1])
      OBVIOUS
    <3>1. CASE i = k + 1
      <4>1. h[i] = Step(g[k]) /\ h[i - 1] = g[k] /\ i # 0
        BY <3>1
      <4> QED BY <4>1
    <3>2. CASE i # k + 1 /\ i # 0
      <4>1. i \in 0..k /\ h[i] = g[i] /\ h[i - 1] = g[i - 1]
        BY <3>2
      <4> QED BY <2>2, <3>2, <4>1
    <3>3. CASE i = 0
      <4>1. i \in 0..k /\ h[i] = g[i]
        BY <3>3
      <4> QED BY <2>2, <3>3, <4>1
    <3> QED BY <3>1, <3>2, <3>3
  <2>4. h = [i \in 0..(k + 1) |-> h[i]]
    OBVIOUS
  <2> HIDE DEF h
  <2>5. h = [i \in 0..(k + 1) |-> IF i = 0 THEN {s} ELSE Step(h[i - 1])]
    BY <2>3, <2>4
  <2>6. Moves(h, s, targets, k + 1)
    BY <2>5 DEF Moves, Step
  <2> QED BY <2>6
<1>3. Bad = {}
  <2> SUFFICES ASSUME Bad # {} PROVE FALSE
    OBVIOUS
  <2> HIDE DEF Good
  <2>1. PICK m \in Bad : \A k \in Bad : m <= k
    BY LeastNatural
  <2>2. m \in Nat /\ m # 0
    BY <1>1, <2>1
  <2>3. m - 1 \in Nat /\ m - 1 \notin Bad
    BY <2>1, <2>2
  <2>4. Good((m - 1) + 1)
    BY <1>2, <2>3
  <2>5. (m - 1) + 1 = m
    BY <2>2
  <2> QED BY <2>1, <2>4, <2>5
<1> QED BY <1>3

\* What i moves from s into the targets leave: x.
After(x, s, targets, i) ==
    /\ x.n \in [Regions -> Nat]
    /\ \A r \in Regions \ targets : x.n[r] = s.n[r]
    /\ Total(x.n) = Total(s.n) + i
    /\ i = 0 => x.n = s.n

LEMMA AfterOne ==
    ASSUME NEW s, s.n \in [Regions -> Nat], NEW targets \in SUBSET Regions, NEW i \in Nat,
           NEW y, After(y, s, targets, i), NEW x \in MovedOne(y, targets)
    PROVE  After(x, s, targets, i + 1)
<1>1. PICK t \in targets :
         x.n = [r \in Regions |-> IF r = t THEN y.n[r] + 1 ELSE y.n[r]]
  BY DEF MovedOne
<1>2. y.n \in [Regions -> Nat] /\ t \in Regions
  BY DEF After
<1>3. x.n \in [Regions -> Nat]
  BY <1>1, <1>2
<1>4. x.n[t] = y.n[t] + 1 /\ \A r \in Regions \ {t} : x.n[r] = y.n[r]
  BY <1>1, <1>2
<1>5. Total(x.n) = Total(y.n) + 1
  <2>1. x.n \in [Regions -> Int] /\ y.n \in [Regions -> Int]
    BY <1>2, <1>3
  <2> QED BY <1>2, <1>4, <2>1, TotalBumped
<1>6. Total(s.n) \in Int
  <2>1. \A r \in Regions : s.n[r] \in Int
    OBVIOUS
  <2> QED BY <2>1, RegionsAssumption, SumOverFacts DEF Total
<1>7. \A r \in Regions \ targets : x.n[r] = s.n[r]
  BY <1>4 DEF After
<1>8. Total(x.n) = Total(s.n) + (i + 1)
  BY <1>5, <1>6 DEF After
<1> QED BY <1>3, <1>7, <1>8 DEF After

\* reschedule: what is planned for regions other than the targets stays, and in
\* all k replicas are added.
LEMMA MovedAfter ==
    ASSUME NEW s, s.n \in [Regions -> Nat], NEW targets \in SUBSET Regions, NEW k \in Nat,
           NEW z \in Moved(s, targets, k)
    PROVE  After(z, s, targets, k)
<1> DEFINE Move == CHOOSE M : Moves(M, s, targets, k)
<1>1. Moved(s, targets, k) = Move[k]
  BY DEF Moved, Moves
<1>2. Moves(Move, s, targets, k)
  BY MovesExists
<1> HIDE DEF Move
<1>3. Move[0] = {s} /\ \A i \in 1..k : Move[i] = UNION {MovedOne(x, targets) : x \in Move[i - 1]}
  BY <1>2 DEF Moves
<1> DEFINE Bad == {i \in 0..k : \E x \in Move[i] : ~After(x, s, targets, i)}
<1>4. After(s, s, targets, 0)
  <2>1. \A r \in Regions : s.n[r] \in Int
    OBVIOUS
  <2>2. Total(s.n) \in Int
    BY <2>1, RegionsAssumption, SumOverFacts DEF Total
  <2> QED BY <2>2 DEF After
<1>5. Bad = {}
  <2> SUFFICES ASSUME Bad # {} PROVE FALSE
    OBVIOUS
  <2>1. PICK m \in Bad : \A i \in Bad : m <= i
    <3>1. Bad \in SUBSET Nat
      OBVIOUS
    <3> HIDE DEF Bad
    <3> QED BY <3>1, LeastNatural
  <2>2. m \in 1..k
    BY <1>3, <1>4, <2>1
  <2>3. PICK x \in Move[m] : ~After(x, s, targets, m)
    BY <2>1
  <2>4. PICK y \in Move[m - 1] : x \in MovedOne(y, targets)
    BY <1>3, <2>2, <2>3
  <2>5. m - 1 \in Nat /\ After(y, s, targets, m - 1)
    BY <2>1, <2>2, <2>4
  <2>6. After(x, s, targets, (m - 1) + 1)
    BY <2>4, <2>5, AfterOne
  <2>7. (m - 1) + 1 = m
    BY <2>2
  <2> QED BY <2>3, <2>6, <2>7
<1> QED BY <1>1, <1>5

-----------------------------------------------------------------------------
(* Plans                                                                   *)

\* No region is asked for less than no replicas.
Fits(p) == p \in PlanType /\ \A r \in Regions : p.config[r] + p.schedule[r] \in Nat

\* p as FlaggedGetNothing and NothingLost want it when it is written.
FlaggedOut(p) == \A r \in flag : p.config[r] > 0 => p.config[r] + p.schedule[r] = 0
Balanced(p) ==
    (Short = {} \/ (flag = {} /\ \A r \in Short : Room[r] <= Config(spec)[r]))
        => Total(p.schedule) = 0

LEMMA NoPlanFits == Fits(NoPlan) /\ Total(NoPlan.schedule) = 0
<1>1. Fits(NoPlan)
  BY DEF Fits, PlanType, NoPlan, Zero
<1>2. SumOver(Zero, Regions) = 0
  BY RegionsAssumption, SumOverZero DEF Zero
<1> QED BY <1>1, <1>2 DEF NoPlan, Total

\* The replicas that run in a region are those that fit, or all.
LEMMA RunningType ==
    ASSUME placed \in [Regions -> Nat], NEW r \in Regions
    PROVE  /\ placed[r] - Pending(r) \in Nat
           /\ Pending(r) > 0 => placed[r] - Pending(r) = Room[r]
<1>1. placed[r] \in Nat /\ Room[r] \in Nat
  BY RoomType
<1> QED BY <1>1 DEF Pending, AtLeastZero

\* RescheduleFailedRegions takes everything out of the failed regions, and what
\* it takes out it gives to others.
LEMMA FailedMoved ==
    ASSUME Config(spec) \in [Regions -> Nat], NEW failed \in SUBSET Regions,
           NEW x \in RescheduleFailedRegions(Start, failed)
    PROVE  /\ x.n \in [Regions -> Nat] /\ Total(x.n) = Total(Config(spec))
           /\ \A r \in failed : x.n[r] = 0
           /\ failed = {} => x.n = Config(spec)
<1> DEFINE config == Config(spec)
           s == [Start EXCEPT !.n = [r \in Regions |-> IF r \in failed THEN 0 ELSE Start.n[r]]]
           k == SumOver(Start.n, failed)
<1>1. Start.n = config
  BY DEF Start
<1>2. s.n = [r \in Regions |-> IF r \in failed THEN 0 ELSE config[r]]
  BY <1>1 DEF Start
<1>3. x \in Moved(s, Regions \ failed, k)
  BY DEF RescheduleFailedRegions
<1>4. k \in Nat /\ (failed = {} => k = 0)
  <2>1. IsFiniteSet(failed)
    BY RegionsAssumption, FS_Subset
  <2>2. \A r \in failed : config[r] \in Nat
    OBVIOUS
  <2>3. SumOver(config, failed) \in Nat
    BY <2>1, <2>2, SumOverNat
  <2> HIDE DEF config
  <2> QED BY <1>1, <2>3, SumOverEmpty
<1>5. s.n \in [Regions -> Nat]
  BY <1>2
<1>6. Total(s.n) = Total(config) - k /\ Total(config) \in Int
  <2>1. config \in [Regions -> Int] /\ Zero \in [Regions -> Int] /\ s.n \in [Regions -> Int]
    BY <1>5 DEF Zero
  <2>2. \A r \in Regions : s.n[r] = IF r \in failed THEN Zero[r] ELSE config[r]
    BY <1>2 DEF Zero
  <2> HIDE DEF s, config
  <2>3. /\ SumOver(config, failed) \in Int /\ SumOver(Zero, failed) \in Int /\ Total(config) \in Int
        /\ Total(s.n) = Total(config) - SumOver(config, failed) + SumOver(Zero, failed)
    BY <2>1, <2>2, TotalReplaced
  <2>4. SumOver(Zero, failed) = 0
    <3>1. IsFiniteSet(failed)
      BY RegionsAssumption, FS_Subset
    <3>2. \A r \in failed : Zero[r] = 0
      BY DEF Zero
    <3> QED BY <3>1, <3>2, SumOverZero
  <2> QED BY <1>1, <2>3, <2>4
<1> HIDE DEF s, k
<1>7. After(x, s, Regions \ failed, k)
  BY <1>3, <1>4, <1>5, MovedAfter
<1>8. x.n \in [Regions -> Nat] /\ Total(x.n) = Total(s.n) + k
  BY <1>7 DEF After
<1>9. \A r \in failed : x.n[r] = 0
  BY <1>2, <1>7 DEF After
<1>10. failed = {} => x.n = config
  BY <1>2, <1>4, <1>7 DEF After
<1>11. Total(x.n) = Total(config)
  <2> HIDE DEF config
  <2> QED BY <1>4, <1>6, <1>8
<1> QED BY <1>8, <1>9, <1>10, <1>11

AfterShort(y, s, short) ==
    /\ y.n \in [Regions -> Nat]
    /\ \A r \in Regions \ short : s.n[r] < Config(spec)[r] => y.n[r] = s.n[r]
    /\ short = {} => y.n = s.n
    /\ s.n = Config(spec) /\ (\A r \in short : Room[r] <= Config(spec)[r])
          => Total(y.n) = Total(s.n)

\* RescheduleInsufficientPods leaves the failed regions empty, and if nothing is
\* short, or what runs is less than what is configured, it moves what it takes.
LEMMA InsufficientMoved ==
    ASSUME Config(spec) \in [Regions -> Nat], placed \in [Regions -> Nat],
           NEW short \in SUBSET Regions, \A r \in short : Pending(r) > 0,
           NEW s, s.n \in [Regions -> Nat],
           NEW y \in RescheduleInsufficientPods(s, short)
    PROVE  AfterShort(y, s, short)
<1> DEFINE config  == Config(spec)
           running == [r \in Regions |-> placed[r] - Pending(r)]
           targets == {r \in Regions \ short : s.n[r] >= config[r]}
           out     == [r \in Regions |-> AtLeastZero(config[r] - running[r])]
           k       == SumOver(out, short)
           t       == [s EXCEPT !.n = [r \in Regions |-> IF r \in short THEN running[r] ELSE s.n[r]]]
<1>0. y \in Moved(t, targets, k)
  BY DEF RescheduleInsufficientPods
<1>1. running \in [Regions -> Nat] /\ \A r \in short : running[r] = Room[r]
  BY RunningType
<1> HIDE DEF running
<1>2. config \in [Regions -> Nat]
  OBVIOUS
<1> HIDE DEF config
<1>3. out \in [Regions -> Nat]
  BY <1>1, <1>2, AtLeastZeroNat
<1>4. IsFiniteSet(short)
  BY RegionsAssumption, FS_Subset
<1>5. k \in Nat /\ (short = {} => k = 0)
  <2>1. \A r \in short : out[r] \in Nat
    BY <1>3
  <2> HIDE DEF out
  <2> QED BY <1>4, <2>1, SumOverNat, SumOverEmpty
<1>6. t.n \in [Regions -> Nat] /\ t.n = [r \in Regions |-> IF r \in short THEN running[r] ELSE s.n[r]]
  BY <1>1
<1> HIDE DEF t
<1>7. After(y, t, targets, k)
  <2> HIDE DEF k
  <2> QED BY <1>0, <1>5, <1>6, MovedAfter
<1>8. y.n \in [Regions -> Nat] /\ Total(y.n) = Total(t.n) + k
  BY <1>7 DEF After
<1>9. \A r \in Regions \ short : s.n[r] < config[r] => y.n[r] = s.n[r]
  <2> SUFFICES ASSUME NEW r \in Regions \ short, s.n[r] < config[r] PROVE y.n[r] = s.n[r]
    OBVIOUS
  <2>1. r \in Regions \ targets
    BY <1>2
  <2> QED BY <1>6, <1>7, <2>1 DEF After
<1>10. short = {} => y.n = s.n
  <2> HIDE DEF k, targets
  <2> SUFFICES ASSUME short = {} PROVE y.n = s.n
    OBVIOUS
  <2>1. y.n = t.n
    BY <1>5, <1>7 DEF After
  <2> QED BY <1>6, <2>1
<1>11. ASSUME s.n = config, \A r \in short : Room[r] <= config[r]
       PROVE  Total(y.n) = Total(s.n)
  <2>1. \A r \in short : /\ out[r] \in Int /\ running[r] \in Int
                         /\ config[r] = out[r] + running[r]
    <3> SUFFICES ASSUME NEW r \in short
                 PROVE  out[r] \in Int /\ running[r] \in Int /\ config[r] = out[r] + running[r]
      OBVIOUS
    <3>1. r \in Regions /\ config[r] \in Nat /\ running[r] \in Nat /\ running[r] <= config[r]
      BY <1>1, <1>2, <1>11
    <3>2. out[r] = AtLeastZero(config[r] - running[r])
      BY <3>1
    <3> QED BY <3>1, <3>2 DEF AtLeastZero
  <2> HIDE DEF out
  <2>2. /\ SumOver(out, short) \in Int /\ SumOver(running, short) \in Int
        /\ SumOver(config, short) = SumOver(out, short) + SumOver(running, short)
    BY <1>4, <2>1, SumOverPlus
  <2>3. /\ SumOver(config, short) \in Int /\ Total(config) \in Int
        /\ Total(t.n) = Total(config) - SumOver(config, short) + SumOver(running, short)
    <3>1. config \in [Regions -> Int] /\ running \in [Regions -> Int] /\ t.n \in [Regions -> Int]
      BY <1>1, <1>2, <1>6
    <3>2. \A r \in Regions : t.n[r] = IF r \in short THEN running[r] ELSE config[r]
      BY <1>6, <1>11
    <3> QED BY <3>1, <3>2, TotalReplaced
  <2> QED BY <1>8, <1>11, <2>2, <2>3
<1> QED BY <1>8, <1>9, <1>10, <1>11 DEF config, AfterShort

\* Plans made for the flag and the pending pods as they are.
LEMMA PlansMade ==
    ASSUME spec \in SpecType, Parses(spec), placed \in [Regions -> Nat],
           generation \in Nat \ {0}, flag \in SUBSET Regions,
           NEW p \in Plans(flag, Short)
    PROVE  Fits(p) /\ p # NoPlan /\ FlaggedOut(p) /\ Balanced(p)
<1> DEFINE config == Config(spec)
<1>1. PICK x \in RescheduleFailedRegions(Start, flag) :
         \E y \in RescheduleInsufficientPods(x, Short) : p = Plan(y)
  BY DEF Plans
<1>2. PICK y \in RescheduleInsufficientPods(x, Short) : p = Plan(y)
  BY <1>1
<1>3. config \in [Regions -> Nat]
  BY ConfigType
<1>4. /\ x.n \in [Regions -> Nat] /\ Total(x.n) = Total(config)
      /\ \A r \in flag : x.n[r] = 0
      /\ flag = {} => x.n = config
  BY <1>2, <1>3, FailedMoved
<1>5. Short \in SUBSET Regions /\ (\A r \in Short : Pending(r) > 0) /\ Short \cap flag = {}
  BY DEF Short
<1>6. /\ y.n \in [Regions -> Nat]
      /\ \A r \in Regions \ Short : x.n[r] < config[r] => y.n[r] = x.n[r]
      /\ Short = {} => y.n = x.n
      /\ x.n = config /\ (\A r \in Short : Room[r] <= config[r]) => Total(y.n) = Total(x.n)
  <2>1. x.n \in [Regions -> Nat]
    BY <1>4
  <2>2. AfterShort(y, x, Short)
    BY <1>2, <1>3, <1>5, <2>1, InsufficientMoved
  <2> QED BY <2>2 DEF AfterShort
<1> DEFINE moved == [r \in Regions |-> y.n[r] - config[r]]
<1>7. p = [generation |-> generation, config |-> config, schedule |-> moved]
  BY <1>2 DEF Plan
<1>8. /\ p.generation = generation /\ p.config = config
      /\ p.schedule = [r \in Regions |-> y.n[r] - config[r]]
  BY <1>7
<1> HIDE DEF config
<1>9. /\ p.schedule \in [Regions -> Int]
      /\ \A r \in Regions : p.config[r] + p.schedule[r] = y.n[r]
  BY <1>3, <1>6, <1>8
<1>10. Fits(p)
  <2>1. p \in PlanType
    BY <1>3, <1>7, <1>8, <1>9 DEF PlanType
  <2> QED BY <1>6, <1>9, <2>1 DEF Fits
<1>11. p # NoPlan
  BY <1>8 DEF NoPlan
<1>12. FlaggedOut(p)
  <2> SUFFICES ASSUME NEW r \in flag, p.config[r] > 0 PROVE p.config[r] + p.schedule[r] = 0
    BY DEF FlaggedOut
  <2>1. r \in Regions \ Short /\ x.n[r] = 0 /\ config[r] > 0
    BY <1>4, <1>5, <1>8
  <2>2. y.n[r] = 0
    BY <1>6, <2>1
  <2> QED BY <1>9, <2>1, <2>2
<1>13. Balanced(p)
  <2> SUFFICES ASSUME Short = {} \/ (flag = {} /\ \A r \in Short : Room[r] <= config[r])
               PROVE  Total(p.schedule) = 0
    BY DEF Balanced, config
  <2>1. Total(y.n) = Total(config)
    BY <1>4, <1>6
  <2>2. \A r \in Regions : /\ config[r] \in Int /\ p.schedule[r] \in Int
                           /\ y.n[r] = config[r] + p.schedule[r]
    BY <1>3, <1>8, <1>9
  <2>3. /\ SumOver(config, Regions) \in Int /\ SumOver(p.schedule, Regions) \in Int
        /\ SumOver(y.n, Regions) = SumOver(config, Regions) + SumOver(p.schedule, Regions)
    BY <2>2, RegionsAssumption, SumOverPlus
  <2> QED BY <2>1, <2>3 DEF Total
<1> QED BY <1>10, <1>11, <1>12, <1>13

-----------------------------------------------------------------------------
(* Types and plans                                                         *)

\* What is known of a plan about to be written as long as nobody wrote since.
Made(p) == p = NoPlan \/ (FlaggedOut(p) /\ Balanced(p))

ReplicaInv ==
    /\ TypeOK
    /\ CompareReplicas(spec)
    /\ Fits(plan)
    /\ \A p \in newPlan : Fits(p) /\ ("reschedule" \notin stale => Made(p))

LEMMA AtMostOne ==
    Cardinality({}) <= 1 /\ \A x : Cardinality({x}) <= 1
BY FS_EmptySet, FS_Singleton

LEMMA ReplicaInvInit == Init => ReplicaInv
<1> SUFFICES ASSUME Init PROVE ReplicaInv
  OBVIOUS
<1>1. spec \in SpecType /\ CompareReplicas(spec) /\ Parses(spec)
  BY FailoverAssumption DEF Init
<1>2. placed \in [Regions -> Nat]
  BY <1>1, ConfigType DEF Init
<1>3. Fits(plan) /\ plan \in PlanType
  BY NoPlanFits DEF Init, Fits
<1>4. newPlan = {} /\ newPlan \subseteq PlanType /\ Cardinality(newPlan) <= 1
  BY AtMostOne DEF Init
<1>5. TypeOK
  <2>1. faults \in 0..MaxFaults /\ changes \in 0..MaxNodeChanges /\ edits \in 0..MaxEdits
    BY RegionHealthAssumption, FailoverAssumption DEF Init, RegionInit
  <2>2. generation \in Nat \ {0}
    BY DEF Init
  <2>3. progressing \in BOOLEAN /\ synced \in BOOLEAN
    BY Zenon DEF Init, RegionInit
  <2>4. /\ up \subseteq Nodes /\ seenUp \subseteq Nodes /\ flag \subseteq Regions
        /\ status \in [Regions -> {"unknown", "ok", "failed"}]
        /\ queue \subseteq Regions /\ toCheck \subseteq Regions /\ stale \subseteq Copies
    BY DEF Init, RegionInit, Unknown
  <2>5. check \in [region : SUBSET Regions, failed : SUBSET Regions]
    BY DEF Init, RegionInit, NoCheck
  <2> QED
    BY <1>1, <1>2, <1>3, <1>4, <2>1, <2>2, <2>3, <2>4, <2>5 DEF TypeOK
<1> QED BY <1>1, <1>3, <1>4, <1>5 DEF ReplicaInv

\* The plans stay as good as they were in steps that leave them and the
\* deployment's replicas alone, and free no copy; they need not be good if
\* somebody wrote.
LEMMA ReplicaInvKept ==
    ASSUME ReplicaInv, TypeOK', UNCHANGED <<spec, plan, newPlan>>,
           \/ "reschedule" \in stale'
           \/ UNCHANGED <<flag, placed>> /\ ("reschedule" \in stale => "reschedule" \in stale')
    PROVE  ReplicaInv'
<1>1. CompareReplicas(spec)' /\ Fits(plan)' /\ \A p \in newPlan' : Fits(p)'
  <2>1. CompareReplicas(spec)'
    BY DEF ReplicaInv
  <2>2. Fits(plan)' /\ \A p \in newPlan' : Fits(p)'
    BY DEF ReplicaInv
  <2> QED BY <2>1, <2>2
<1>2. ASSUME NEW p \in newPlan', "reschedule" \notin stale' PROVE Made(p)'
  <2>1. UNCHANGED <<flag, placed, spec>> /\ Made(p)
    BY <1>2 DEF ReplicaInv
  <2>2. FlaggedOut(p)' <=> FlaggedOut(p)
    BY <2>1 DEF FlaggedOut
  <2>3. Balanced(p)' <=> Balanced(p)
    BY <2>1 DEF Balanced, Short, Pending, Config
  <2> QED BY <2>1, <2>2, <2>3 DEF Made
<1> QED BY <1>1, <1>2 DEF ReplicaInv

\* The region controller and the nodes.
LEMMA TypeOfRegions ==
    ASSUME TypeOK, UNCHANGED <<newPlan, edits>>,
           RegionSync \/ \E n \in Nodes : NodeFails(n) \/ NodeRecovers(n)
    PROVE  TypeOK'
<1>1. CASE RebuildCache
  BY <1>1, Zenon DEF TypeOK, RebuildCache, deployVars, Unknown, NoCheck
<1>2. CASE \E r \in Regions : RegionEvent(r)
  BY <1>2 DEF TypeOK, RegionEvent, deployVars
<1>3. CASE \E r \in Regions : CheckRegionStatus(r)
  BY <1>3 DEF TypeOK, CheckRegionStatus, CheckDone, RegionStatus, deployVars, NoCheck
<1>4. CASE \E r \in Regions : CheckRegionStatusReads(r)
  BY <1>4 DEF TypeOK, CheckRegionStatusReads, FailedRegions, deployVars
<1>5. CASE SetFailureAnnotation
  BY <1>5 DEF TypeOK, SetFailureAnnotation, CheckDone, RegionStatus, NoCheck
<1>6. CASE SetFailureAnnotationFails
  BY <1>6, RegionHealthAssumption DEF TypeOK, SetFailureAnnotationFails, deployVars, NoCheck
<1>7. CASE \E n \in Nodes : NodeFails(n)
  <2>1. PICK n \in Nodes : NodeFails(n)
    BY <1>7
  <2>2. progressing' \in BOOLEAN
    BY <2>1, Zenon DEF NodeFails, TypeOK
  <2>3. up' \subseteq Nodes /\ changes' \in 0..MaxNodeChanges
    BY <2>1, RegionHealthAssumption DEF NodeFails, TypeOK
  <2>4. stale' \subseteq Copies
    BY <2>1, Zenon DEF NodeFails, TypeOK
  <2>5. UNCHANGED <<spec, generation, flag, plan, placed, cacheVars, faults, newPlan, edits>>
    BY <2>1 DEF NodeFails
  <2> QED BY <2>2, <2>3, <2>4, <2>5 DEF TypeOK, cacheVars
<1>8. CASE \E n \in Nodes : NodeRecovers(n)
  BY <1>8, RegionHealthAssumption DEF TypeOK, NodeRecovers, deployVars, cacheVars
<1> QED
  BY <1>1, <1>2, <1>3, <1>4, <1>5, <1>6, <1>7, <1>8 DEF RegionSync

\* The rollout brings every region to what is asked for it, or closer to it.
LEMMA DesiredType ==
    ASSUME spec \in SpecType, Parses(spec), Fits(plan), NEW r \in Regions
    PROVE  DesiredReplicas(r) \in Nat
<1>1. ParseRegionReplicas(spec.total, spec.want[r]) \in Nat
  BY ConfigType DEF Config
<1> QED BY <1>1 DEF DesiredReplicas, Fits

LEMMA TowardType ==
    ASSUME placed \in [Regions -> Nat], \A r \in Regions : DesiredReplicas(r) \in Nat,
           NEW k \in Nat
    PROVE  Toward(k) \in [Regions -> Nat]
<1>1. ASSUME NEW n \in Nat, NEW want \in Nat
      PROVE  (IF n + k < want THEN n + k ELSE IF n - k > want THEN n - k ELSE want) \in Nat
  OBVIOUS
<1> QED BY <1>1 DEF Toward

LEMMA ReplicaInvStep == ReplicaInv /\ [Next]_vars => ReplicaInv'
<1> SUFFICES ASSUME ReplicaInv, [Next]_vars PROVE ReplicaInv'
  OBVIOUS
<1>0. TypeOK
  BY DEF ReplicaInv
<1>1. CASE RegionSync /\ UNCHANGED <<newPlan, edits>>
  <2>1. TypeOK'
    BY <1>0, <1>1, TypeOfRegions
  <2>2. UNCHANGED <<spec, plan, newPlan>>
    BY <1>1 DEF RegionSync, RebuildCache, RegionEvent, CheckRegionStatus, CheckRegionStatusReads,
                SetFailureAnnotation, SetFailureAnnotationFails, deployVars
  <2>3. \/ "reschedule" \in stale'
        \/ UNCHANGED <<flag, placed>> /\ ("reschedule" \in stale => "reschedule" \in stale')
    BY <1>1 DEF RegionSync, RebuildCache, RegionEvent, CheckRegionStatus, CheckRegionStatusReads,
                SetFailureAnnotation, SetFailureAnnotationFails, deployVars, Copies
  <2> QED BY <2>1, <2>2, <2>3, ReplicaInvKept
<1>2. CASE DropPlan
  <2>1. newPlan' = {NoPlan} /\ UNCHANGED <<spec, plan>>
    BY <1>2 DEF DropPlan, deployVars
  <2>2. Fits(NoPlan) /\ Made(NoPlan)'
    BY NoPlanFits DEF Made
  <2>3. newPlan' \subseteq PlanType /\ Cardinality(newPlan') <= 1
    BY <2>1, <2>2, AtMostOne DEF Fits
  <2>4. TypeOK'
    BY <1>0, <1>2, <2>3 DEF TypeOK, DropPlan, deployVars, cacheVars
  <2>5. CompareReplicas(spec)' /\ Fits(plan)'
    BY <2>1 DEF ReplicaInv
  <2> QED BY <2>1, <2>2, <2>4, <2>5 DEF ReplicaInv
<1>3. CASE MakePlan
  <2>1. PICK p \in Plans(flag, Short) : newPlan' = {p}
    BY <1>3 DEF MakePlan
  <2>2. Fits(p) /\ FlaggedOut(p) /\ Balanced(p)
    BY <1>0, <1>3, <2>1, PlansMade DEF MakePlan, TypeOK
  <2>3. UNCHANGED <<spec, generation, flag, plan, progressing, placed>>
    BY <1>3 DEF MakePlan, deployVars
  <2>4. Made(p)'
    BY <2>2, <2>3 DEF Made, FlaggedOut, Balanced, Short, Pending, Config
  <2>5. newPlan' \subseteq PlanType /\ Cardinality(newPlan') <= 1
    BY <2>1, <2>2, AtMostOne DEF Fits
  <2>6. TypeOK'
    BY <1>0, <1>3, <2>5 DEF TypeOK, MakePlan, deployVars, cacheVars
  <2>7. CompareReplicas(spec)' /\ Fits(plan)'
    BY <2>3 DEF ReplicaInv
  <2> QED BY <2>1, <2>2, <2>4, <2>6, <2>7 DEF ReplicaInv
<1>4. CASE WritePlan
  <2>1. UNCHANGED <<spec, flag, placed, newPlan>> /\ "reschedule" \notin stale
    BY <1>4 DEF WritePlan
  <2>2. Fits(plan')
    BY <1>4 DEF WritePlan, ReplicaInv
  <2>3. TypeOK'
    BY <1>0, <1>4, <2>2 DEF TypeOK, WritePlan, Fits, cacheVars
  <2>4. CompareReplicas(spec)'
    BY <2>1 DEF ReplicaInv
  <2>5. ASSUME NEW p \in newPlan' PROVE Fits(p) /\ Made(p)'
    <3>1. Fits(p) /\ Made(p)
      BY <2>1, <2>5 DEF ReplicaInv
    <3>2. FlaggedOut(p)' <=> FlaggedOut(p)
      BY <2>1 DEF FlaggedOut
    <3>3. Balanced(p)' <=> Balanced(p)
      BY <2>1 DEF Balanced, Short, Pending, Config
    <3> QED BY <3>1, <3>2, <3>3 DEF Made
  <2> QED BY <2>2, <2>3, <2>4, <2>5 DEF ReplicaInv
<1>5. CASE WriteCondition \/ WritePlanFails
  <2>1. newPlan' = {} /\ UNCHANGED <<spec, plan>>
    BY <1>5 DEF WriteCondition, WritePlanFails, deployVars
  <2>2. TypeOK'
    <3>1. newPlan' \subseteq PlanType /\ Cardinality(newPlan') <= 1
      BY <2>1, AtMostOne
    <3>2. faults' \in 0..MaxFaults /\ stale' \subseteq Copies
      BY <1>0, <1>5, RegionHealthAssumption DEF TypeOK, WriteCondition, WritePlanFails
    <3>3. UNCHANGED <<up, deployVars, cacheVars, changes, edits>>
      BY <1>5 DEF WriteCondition, WritePlanFails
    <3> QED BY <1>0, <3>1, <3>2, <3>3 DEF TypeOK, deployVars, cacheVars
  <2>3. CompareReplicas(spec)' /\ Fits(plan)'
    BY <2>1 DEF ReplicaInv
  <2> QED BY <2>1, <2>2, <2>3 DEF ReplicaInv
<1>6. CASE RolloutStarts
  <2>1. UNCHANGED <<spec, plan, newPlan>> /\ "reschedule" \in stale'
    BY <1>6 DEF RolloutStarts, Copies
  <2>2. progressing' \in BOOLEAN
    BY <1>6, Zenon DEF RolloutStarts
  <2>3. TypeOK'
    BY <1>0, <1>6, <2>2 DEF TypeOK, RolloutStarts, cacheVars
  <2> QED BY <2>1, <2>3, ReplicaInvKept
<1>7. CASE RolloutEnds
  <2>1. UNCHANGED <<spec, plan, newPlan>> /\ "reschedule" \in stale'
    BY <1>7 DEF RolloutEnds, Copies
  <2>2. progressing' \in BOOLEAN
    BY <1>7, Zenon DEF RolloutEnds
  <2>3. placed' \in [Regions -> Nat]
    <3>1. placed \in [Regions -> Nat] /\ \A r \in Regions : DesiredReplicas(r) \in Nat
      BY <1>0, <1>7, DesiredType DEF RolloutEnds, ReplicaInv, TypeOK
    <3>2. PICK k \in UNION {0..(placed[r] - DesiredReplicas(r)) \cup
                             0..(DesiredReplicas(r) - placed[r]) : r \in Regions} :
            placed' = Toward(k)
      BY <1>7 DEF RolloutEnds
    <3>3. k \in Nat
      BY <3>1, <3>2
    <3> QED BY <3>1, <3>2, <3>3, TowardType
  <2>4. TypeOK'
    BY <1>0, <1>7, <2>2, <2>3 DEF TypeOK, RolloutEnds, cacheVars
  <2> QED BY <2>1, <2>4, ReplicaInvKept
<1>8. CASE Restart
  <2>1. newPlan' = {} /\ UNCHANGED <<spec, plan>>
    BY <1>8 DEF Restart, deployVars
  <2>2. synced' \in BOOLEAN
    BY <1>8, Zenon DEF Restart, CacheLost
  <2>3. status' \in [Regions -> {"unknown", "ok", "failed"}]
        /\ check' \in [region : SUBSET Regions, failed : SUBSET Regions]
    BY <1>8 DEF Restart, CacheLost, Unknown, NoCheck
  <2>4. TypeOK'
    BY <1>0, <1>8, <2>1, <2>2, <2>3, RegionHealthAssumption, AtMostOne
       DEF TypeOK, Restart, CacheLost, deployVars
  <2>5. CompareReplicas(spec)' /\ Fits(plan)'
    BY <2>1 DEF ReplicaInv
  <2> QED BY <2>1, <2>4, <2>5 DEF ReplicaInv
<1>9. CASE \E n \in Nodes : (NodeFails(n) \/ NodeRecovers(n)) /\ UNCHANGED <<newPlan, edits>>
  <2>1. TypeOK'
    BY <1>0, <1>9, TypeOfRegions
  <2>2. UNCHANGED <<spec, plan, newPlan, flag, placed>>
    BY <1>9 DEF NodeFails, NodeRecovers, deployVars
  <2>3. "reschedule" \in stale => "reschedule" \in stale'
    BY <1>9 DEF NodeFails, NodeRecovers, Copies
  <2> QED BY <2>1, <2>2, <2>3, ReplicaInvKept
<1>10. CASE \E s \in Specs : UserEdit(s)
  <2>1. PICK s \in Specs : UserEdit(s)
    BY <1>10
  <2>2. spec' = s /\ s \in SpecType /\ CompareReplicas(s)
    BY <2>1, FailoverAssumption DEF UserEdit
  <2>3. UNCHANGED <<plan, newPlan>> /\ "reschedule" \in stale'
    BY <2>1 DEF UserEdit, Copies
  <2>4. TypeOK'
    BY <1>0, <2>1, <2>2, FailoverAssumption DEF TypeOK, UserEdit, cacheVars
  <2>5. CompareReplicas(spec)' /\ Fits(plan)' /\ \A p \in newPlan' : Fits(p)'
    BY <2>2, <2>3 DEF ReplicaInv
  <2> QED BY <2>3, <2>4, <2>5 DEF ReplicaInv
<1>11. CASE UNCHANGED vars
  <2>1. TypeOK'
    BY <1>0, <1>11 DEF TypeOK, vars, deployVars, cacheVars
  <2> QED BY <1>11, <2>1, ReplicaInvKept DEF vars, deployVars
<1> QED
  BY <1>1, <1>2, <1>3, <1>4, <1>5, <1>6, <1>7, <1>8, <1>9, <1>10, <1>11
     DEF Next, Reschedule, Rollout

-----------------------------------------------------------------------------
(* Theorems                                                                *)

\* Whatever the nodes and the room on them, the specs the webhook admits and the
\* order of edits, failures, restarts and write conflicts, every variable keeps
\* its type: the reschedule controller never plans, and the rollout never asks
\* for, less than no replicas in a region.
THEOREM TypeCorrect == Spec => []TypeOK
<1>1. ReplicaInv => TypeOK
  BY DEF ReplicaInv
<1> QED BY <1>1, ReplicaInvInit, ReplicaInvStep, PTL DEF Spec

\* For any number of regions and any percentages that the webhook admits,
\* ParseRegionReplicas gives the configured total up to half a replica for each
\* region.
THEOREM TotalRounded == Spec => []RoundedTotal
<1>1. ReplicaInv => RoundedTotal
  BY ConfigRounded DEF ReplicaInv, TypeOK, RoundedTotal
<1> QED BY <1>1, ReplicaInvInit, ReplicaInvStep, PTL DEF Spec

\* Only WritePlan changes the plan, to one that is still as it was made.
LEMMA PlanWritten ==
    ASSUME ReplicaInv, [Next]_vars, plan' # plan
    PROVE  Made(plan')
<1>1. WritePlan
  BY DEF Next, vars, deployVars, Reschedule, DropPlan, MakePlan, WriteCondition, WritePlanFails,
         Rollout, RolloutStarts, RolloutEnds, Restart, UserEdit, NodeFails, NodeRecovers, RegionSync,
         RebuildCache, RegionEvent, CheckRegionStatus, CheckRegionStatusReads,
         SetFailureAnnotation, SetFailureAnnotationFails
<1> QED BY <1>1 DEF WritePlan, ReplicaInv

\* However the region controller's flags, pods that wait, edits and restarts
\* interleave with a reconcile of the reschedule controller, the plan it stores
\* leaves nothing in the regions that are flagged at that moment and have
\* replicas configured.
THEOREM FlaggedEmptiedByPlan == Spec => FlaggedGetNothing
<1>1. ReplicaInv /\ [Next]_vars =>
        [plan' # plan /\ plan' # NoPlan
          => \A r \in flag : plan'.config[r] > 0 => plan'.config[r] + plan'.schedule[r] = 0]_vars
  BY PlanWritten DEF Made, FlaggedOut
<1> QED BY <1>1, ReplicaInvInit, ReplicaInvStep, PTL DEF Spec, FlaggedGetNothing

\* A stored plan moves replicas and neither loses nor adds any, be it for any
\* number of failed regions, or for regions short of resources that run no more
\* than they were configured to.
THEOREM PlansBalanced == Spec => NothingLost
<1>1. ReplicaInv /\ [Next]_vars =>
        [plan' # plan /\ (Short = {} \/ (flag = {} /\ \A r \in Short : Room[r] <= Config(spec)[r]))
          => Total(plan'.schedule) = 0]_vars
  BY PlanWritten, NoPlanFits DEF Made, Balanced
<1> QED BY <1>1, ReplicaInvInit, ReplicaInvStep, PTL DEF Spec, NothingLost
=============================================================================
