--------------------------- MODULE RevisionsProofs --------------------------
(***************************************************************************)
(* Theorems about Revisions, for every number of specs, edits and faults   *)
(* and every history limit, with lists of revisions however stale.         *)
(***************************************************************************)
EXTENDS Revisions, FiniteFacts, FiniteSetTheorems, TLAPS

USE RevisionsAssumption

-----------------------------------------------------------------------------
(* The order of revisions                                                  *)

\* No two revisions of rs were created at the same time.
Ordered(rs) == \A s, t \in Stored(rs) : s # t => rs[s].born # rs[t].born

Revs == {rs \in [Specs -> Rev] : Ordered(rs)}

Below(rs, s) == {t \in Stored(rs) : Older(rs[t], rs[s])}

\* s is the newest revision of rs.
Top(rs, s) == s \in Stored(rs) /\ \A t \in Stored(rs) \ {s} : Older(rs[t], rs[s])

LEMMA RevsType ==
    ASSUME NEW rs \in Revs
    PROVE  /\ rs \in [Specs -> Rev]
           /\ \A s \in Specs : rs[s].num \in Nat /\ rs[s].born \in Nat
           /\ \A s, t \in Stored(rs) : s # t => rs[s].born # rs[t].born
           /\ Stored(rs) \subseteq Specs
BY DEF Revs, Rev, Ordered, Stored

LEMMA StoredFinite ==
    ASSUME NEW rs
    PROVE  IsFiniteSet(Stored(rs)) /\ Cardinality(Stored(rs)) \in Nat
<1>1. Stored(rs) \in SUBSET Specs
  BY DEF Stored
<1> QED BY <1>1, FS_Subset, FS_CardinalityType

\* SortControllerRevisions has one result: the order is total.
LEMMA OlderTotal ==
    ASSUME NEW rs \in Revs, NEW s \in Stored(rs), NEW t \in Stored(rs)
    PROVE  /\ ~Older(rs[s], rs[s])
           /\ s # t => Older(rs[s], rs[t]) \/ Older(rs[t], rs[s])
           /\ ~(Older(rs[s], rs[t]) /\ Older(rs[t], rs[s]))
           /\ \A u \in Stored(rs) : Older(rs[u], rs[s]) /\ Older(rs[s], rs[t]) => Older(rs[u], rs[t])
<1>1. \A u \in Stored(rs) : rs[u].num \in Nat /\ rs[u].born \in Nat
  BY RevsType
<1>2. s # t => rs[s].born # rs[t].born
  BY RevsType
<1>3. \A u \in Stored(rs) : Older(rs[u], rs[s]) /\ Older(rs[s], rs[t]) => Older(rs[u], rs[t])
  BY <1>1 DEF Older
<1> QED BY <1>1, <1>2, <1>3 DEF Older

LEMMA RankType ==
    ASSUME NEW rs \in Revs, NEW s \in Stored(rs)
    PROVE  /\ IsFiniteSet(Below(rs, s)) /\ Cardinality(Below(rs, s)) \in Nat
           /\ Rank(rs, s) = Cardinality(Below(rs, s)) + 1
           /\ Rank(rs, s) \in 1..Cardinality(Stored(rs))
<1>1. IsFiniteSet(Stored(rs)) /\ Cardinality(Stored(rs)) \in Nat
  BY StoredFinite
<1>2. /\ IsFiniteSet(Stored(rs) \ {s})
      /\ Cardinality(Stored(rs) \ {s}) = Cardinality(Stored(rs)) - 1
  BY <1>1, FS_RemoveElement
<1>3. Below(rs, s) \in SUBSET (Stored(rs) \ {s})
  BY OlderTotal DEF Below
<1>4. /\ IsFiniteSet(Below(rs, s))
      /\ Cardinality(Below(rs, s)) <= Cardinality(Stored(rs)) - 1
  BY <1>2, <1>3, FS_Subset
<1>5. Cardinality(Below(rs, s)) \in Nat
  BY <1>4, FS_CardinalityType
<1>6. Rank(rs, s) = Cardinality(Below(rs, s)) + 1
  BY DEF Rank, Below
<1> QED BY <1>1, <1>4, <1>5, <1>6

\* The order of the ranks is that of the revisions.
LEMMA RankOrder ==
    ASSUME NEW rs \in Revs, NEW s \in Stored(rs), NEW t \in Stored(rs), Older(rs[s], rs[t])
    PROVE  Rank(rs, s) < Rank(rs, t)
<1>1. s \notin Below(rs, s)
  BY OlderTotal DEF Below
<1>2. Below(rs, s) \cup {s} \in SUBSET Below(rs, t)
  BY OlderTotal DEF Below
<1>3. Cardinality(Below(rs, s) \cup {s}) = Cardinality(Below(rs, s)) + 1
  BY <1>1, RankType, FS_AddElement
<1>4. Cardinality(Below(rs, s) \cup {s}) <= Cardinality(Below(rs, t))
  BY <1>2, RankType, FS_Subset
<1> QED BY <1>3, <1>4, RankType

\* The revision of the highest rank is the newest one.
LEMMA RankTop ==
    ASSUME NEW rs \in Revs, NEW s \in Stored(rs)
    PROVE  Rank(rs, s) = Cardinality(Stored(rs)) <=> Top(rs, s)
<1>1. IsFiniteSet(Stored(rs)) /\ Cardinality(Stored(rs)) \in Nat
  BY StoredFinite
<1>2. /\ IsFiniteSet(Stored(rs) \ {s})
      /\ Cardinality(Stored(rs) \ {s}) = Cardinality(Stored(rs)) - 1
  BY <1>1, FS_RemoveElement
<1>3. Below(rs, s) \in SUBSET (Stored(rs) \ {s})
  BY OlderTotal DEF Below
<1>4. Cardinality(Below(rs, s)) = Cardinality(Stored(rs) \ {s}) <=> Below(rs, s) = Stored(rs) \ {s}
  BY <1>2, <1>3, FS_Subset
<1>5. Below(rs, s) = Stored(rs) \ {s} <=> Top(rs, s)
  BY OlderTotal DEF Below, Top
<1> QED BY <1>1, <1>2, <1>4, <1>5, RankType

LEMMA TopExists ==
    ASSUME NEW rs \in Revs, Stored(rs) # {}
    PROVE  \E s \in Stored(rs) : Top(rs, s)
<1> DEFINE ranks == {Rank(rs, s) : s \in Stored(rs)}
           n     == Cardinality(Stored(rs))
<1>1. ranks \in SUBSET (1..n) /\ ranks # {}
  BY RankType
<1>2. n \in Nat
  BY StoredFinite
<1>3. IsFiniteSet(ranks) /\ ranks \in SUBSET Nat
  <2> HIDE DEF ranks, n
  <2>1. IsFiniteSet(1..n)
    BY <1>2, FS_Interval
  <2>2. IsFiniteSet(ranks)
    BY <1>1, <2>1, FS_Subset
  <2> QED BY <1>1, <1>2, <2>2
<1>4. PICK m \in ranks : \A x \in ranks : x <= m
  <2> HIDE DEF ranks
  <2> QED BY <1>1, <1>3, FiniteMax
<1>5. PICK s \in Stored(rs) : Rank(rs, s) = m
  OBVIOUS
<1>6. ASSUME NEW t \in Stored(rs) \ {s} PROVE Older(rs[t], rs[s])
  <2>1. Rank(rs, t) <= Rank(rs, s)
    BY <1>4, <1>5
  <2>2. Rank(rs, t) \in Nat /\ Rank(rs, s) \in Nat
    BY RankType
  <2>3. ~Older(rs[s], rs[t])
    BY <2>1, <2>2, RankOrder
  <2> QED BY <2>3, OlderTotal
<1> QED BY <1>6 DEF Top

\* There is one newest revision, and Newest is it.
LEMMA NewestTop ==
    ASSUME NEW rs \in Revs
    PROVE  /\ Stored(rs) # {} => Top(rs, Newest(rs))
           /\ \A s : Top(rs, s) => Newest(rs) = s
           /\ Stored(rs) = {} <=> Newest(rs) = NoSpec
<1>1. ASSUME Stored(rs) # {} PROVE Top(rs, Newest(rs))
  <2>1. \E s \in Stored(rs) : Rank(rs, s) = Cardinality(Stored(rs))
    BY <1>1, TopExists, RankTop
  <2>2. /\ Newest(rs) \in Stored(rs)
        /\ Rank(rs, Newest(rs)) = Cardinality(Stored(rs))
    BY <1>1, <2>1 DEF Newest
  <2> QED BY <2>2, RankTop
<1>2. ASSUME NEW s, Top(rs, s) PROVE Newest(rs) = s
  <2>1. s \in Stored(rs) /\ Top(rs, Newest(rs))
    BY <1>1, <1>2 DEF Top
  <2> QED BY <1>2, <2>1, OlderTotal DEF Top
<1>3. Stored(rs) # {} => Newest(rs) # NoSpec
  BY <1>1 DEF Top, Stored, NoSpec
<1>4. Stored(rs) = {} => Newest(rs) = NoSpec
  BY DEF Newest
<1> QED BY <1>1, <1>2, <1>3, <1>4

\* nextRevision is above the number of every revision, and it is the next one.
LEMMA NextRevisionType ==
    ASSUME NEW rs \in Revs
    PROVE  /\ NextRevision(rs) \in Nat \ {0}
           /\ \A s \in Specs : rs[s].num < NextRevision(rs)
           /\ \A s : Top(rs, s) => NextRevision(rs) = rs[s].num + 1
<1>1. CASE Stored(rs) = {}
  BY <1>1, RevsType DEF NextRevision, Stored, Top
<1>2. CASE Stored(rs) # {}
  <2>1. Top(rs, Newest(rs)) /\ Newest(rs) \in Specs
    BY <1>2, NewestTop, RevsType DEF Top
  <2>2. NextRevision(rs) = rs[Newest(rs)].num + 1
    BY <1>2 DEF NextRevision
  <2>3. \A s \in Stored(rs) : rs[s].num <= rs[Newest(rs)].num
    <3>1. \A s \in Stored(rs) : rs[s].num \in Nat
      BY RevsType
    <3> QED BY <2>1, <3>1 DEF Top, Older
  <2>4. \A s \in Specs : s \in Stored(rs) \/ rs[s].num = 0
    BY RevsType DEF Stored
  <2>5. \A s \in Specs : rs[s].num \in Nat
    BY RevsType
  <2>6. \A s : Top(rs, s) => Newest(rs) = s
    BY NewestTop
  <2> DEFINE n == Newest(rs)
  <2>7. n \in Specs /\ rs[n].num \in Nat /\ NextRevision(rs) = rs[n].num + 1
    BY <2>1, <2>2, <2>5
  <2>8. NextRevision(rs) \in Nat \ {0} /\ \A s \in Specs : rs[s].num < NextRevision(rs)
    <3> HIDE DEF n
    <3> SUFFICES ASSUME NEW s \in Specs PROVE rs[s].num < NextRevision(rs)
      BY <2>7
    <3>1. rs[s].num <= rs[n].num
      BY <2>3, <2>4, <2>7 DEF n
    <3> QED BY <2>5, <2>7, <3>1
  <2>9. \A s : Top(rs, s) => NextRevision(rs) = rs[s].num + 1
    BY <2>2, <2>6
  <2> QED BY <2>8, <2>9
<1> QED BY <1>1, <1>2

\* The number that no other exceeds is the one before the next.
LEMMA NextRevisionIs ==
    ASSUME NEW rs \in Revs, NEW s \in Stored(rs), \A t \in Specs : rs[t].num <= rs[s].num
    PROVE  NextRevision(rs) = rs[s].num + 1
<1> DEFINE n == Newest(rs)
<1>1. Top(rs, n) /\ n \in Specs /\ s \in Specs
  BY NewestTop, RevsType DEF Top
<1>2. NextRevision(rs) = rs[n].num + 1 /\ rs[n].num <= rs[s].num
  BY <1>1, NextRevisionType
<1>3. rs[s].num < NextRevision(rs) /\ rs[n].num \in Nat /\ rs[s].num \in Nat
  BY <1>1, NextRevisionType, RevsType
<1> QED BY <1>2, <1>3

\* truncateHistory never deletes the newest revision of its list,
LEMMA ExcessNotTop ==
    ASSUME NEW rs \in Revs, NEW s, Top(rs, s)
    PROVE  s \notin Excess(rs)
<1>1. s \in Stored(rs) /\ Rank(rs, s) = Cardinality(Stored(rs)) /\ Cardinality(Stored(rs)) \in Nat
  BY RankTop, StoredFinite DEF Top
<1> QED BY <1>1 DEF Excess

\* and leaves no more than historyLimit and one of them.
LEMMA ExcessEnough ==
    ASSUME NEW rs \in Revs
    PROVE  Cardinality(Stored(rs) \ Excess(rs)) <= HistoryLimit + 1
<1> DEFINE n    == Cardinality(Stored(rs))
           kept == Stored(rs) \ Excess(rs)
           T    == (n - HistoryLimit)..n
           f    == [s \in kept |-> Rank(rs, s)]
<1>1. n \in Nat
  BY StoredFinite
<1>2. \A s \in kept : Rank(rs, s) \in T
  <2> SUFFICES ASSUME NEW s \in kept PROVE Rank(rs, s) \in T
    OBVIOUS
  <2>1. Rank(rs, s) \in 1..n
    BY RankType
  <2>2. ~(Rank(rs, s) <= n - HistoryLimit - 1)
    BY DEF Excess
  <2> HIDE DEF n
  <2> QED BY <1>1, <2>1, <2>2
<1>3. \A s, t \in kept : s # t => Rank(rs, s) # Rank(rs, t)
  <2> SUFFICES ASSUME NEW s \in kept, NEW t \in kept, s # t PROVE Rank(rs, s) # Rank(rs, t)
    OBVIOUS
  <2>1. Older(rs[s], rs[t]) \/ Older(rs[t], rs[s])
    BY OlderTotal
  <2>2. Rank(rs, s) \in Int /\ Rank(rs, t) \in Int
    BY RankType
  <2>3. Rank(rs, s) < Rank(rs, t) \/ Rank(rs, t) < Rank(rs, s)
    BY <2>1, RankOrder
  <2> QED BY <2>2, <2>3
<1> HIDE DEF n, kept
<1>4. f \in Injection(kept, T)
  <2>1. f \in [kept -> T] /\ \A s, t \in kept : f[s] = f[t] => s = t
    BY <1>2, <1>3
  <2> HIDE DEF f, T
  <2> QED BY <2>1 DEF Injection, IsInjective
<1>5. IsFiniteSet(T) /\ Cardinality(T) = HistoryLimit + 1
  BY <1>1, FS_Interval
<1> HIDE DEF f, T
<1>6. Cardinality(kept) <= Cardinality(T)
  BY <1>4, <1>5, FS_Injection
<1> QED BY <1>5, <1>6 DEF kept

\* A revision s is created or gets the highest number: it is the newest then,
\* or the one that was newest before still is.
LEMMA Raised ==
    ASSUME NEW rs \in Revs, NEW s \in Specs, NEW e \in Rev, e.num > 0,
           \A t \in Specs : rs[t].num <= e.num,
           s \in Stored(rs) => e.born = rs[s].born,
           \A t \in Stored(rs) \ {s} : rs[t].born # e.born
    PROVE  LET r == [rs EXCEPT ![s] = e]
           IN  /\ r \in Revs
               /\ Stored(r) = Stored(rs) \cup {s}
               /\ NextRevision(r) = e.num + 1
               /\ Newest(r) \in {s, Newest(rs)}
<1> DEFINE r == [rs EXCEPT ![s] = e]
<1>1. /\ rs \in [Specs -> Rev] /\ \A t \in Specs : rs[t].num \in Nat /\ rs[t].born \in Nat
      /\ e.num \in Nat /\ e.born \in Nat
  BY RevsType DEF Rev
<1>2. r \in [Specs -> Rev] /\ r[s] = e /\ \A t \in Specs \ {s} : r[t] = rs[t]
  BY <1>1
<1> HIDE DEF r
<1>3. Stored(r) = Stored(rs) \cup {s} /\ s \in Stored(r)
  BY <1>2 DEF Stored
<1>4. r \in Revs
  <2> SUFFICES ASSUME NEW t \in Stored(r), NEW u \in Stored(r), t # u PROVE r[t].born # r[u].born
    BY <1>2 DEF Revs, Ordered
  <2>1. \A x, y \in Stored(rs) : x # y => rs[x].born # rs[y].born
    BY RevsType
  <2>2. t \in Specs /\ u \in Specs
    BY DEF Stored
  <2> QED BY <1>2, <1>3, <2>1, <2>2
<1>5. \A t \in Specs : r[t].num <= e.num
  BY <1>1, <1>2
<1>6. NextRevision(r) = e.num + 1
  BY <1>2, <1>3, <1>4, <1>5, NextRevisionIs
<1>7. Newest(r) \in {s, Newest(rs)}
  <2> DEFINE x == Newest(r)
  <2>1. Top(r, x)
    BY <1>3, <1>4, NewestTop
  <2> HIDE DEF x
  <2>2. ASSUME x # s PROVE Top(rs, x)
    <3>1. x \in Stored(rs) /\ x \in Specs /\ r[x] = rs[x]
      BY <1>2, <1>3, <2>1, <2>2 DEF Top, Stored
    <3>2. ASSUME NEW t \in Stored(rs) \ {x} PROVE Older(rs[t], rs[x])
      <4>1. Older(r[t], r[x]) /\ t \in Specs
        BY <1>3, <2>1 DEF Top, Stored
      <4>2. CASE t # s
        BY <1>2, <3>1, <4>1, <4>2
      <4>3. CASE t = s
        <5>1. Older(e, rs[x]) /\ e.born = rs[t].born /\ rs[t].num <= e.num
          BY <1>2, <3>1, <3>2, <4>1, <4>3
        <5>2. /\ rs[t].num \in Nat /\ rs[t].born \in Nat
              /\ rs[x].num \in Nat /\ rs[x].born \in Nat
          BY <1>1, <3>1, <4>1
        <5> QED BY <1>1, <5>1, <5>2 DEF Older
      <4> QED BY <4>2, <4>3
    <3> QED BY <3>1, <3>2 DEF Top
  <2>3. x # s => Newest(rs) = x
    BY <2>2, NewestTop
  <2> QED BY <2>3 DEF x
<1> QED BY <1>3, <1>4, <1>6, <1>7 DEF r

\* Revisions other than the newest are deleted: it stays the newest.
LEMMA Dropped ==
    ASSUME NEW rs \in Revs, NEW D, Newest(rs) \notin D
    PROVE  LET r == [s \in Specs |-> IF s \in D THEN NoRev ELSE rs[s]]
           IN  /\ r \in Revs
               /\ Stored(r) = Stored(rs) \ D
               /\ NextRevision(r) = NextRevision(rs)
               /\ Newest(r) = Newest(rs)
<1> DEFINE r == [s \in Specs |-> IF s \in D THEN NoRev ELSE rs[s]]
<1>1. rs \in [Specs -> Rev] /\ NoRev \in Rev /\ NoRev.num = 0
  BY RevsType DEF NoRev, Rev
<1>2. r \in [Specs -> Rev] /\ \A s \in Specs : r[s] = IF s \in D THEN NoRev ELSE rs[s]
  BY <1>1
<1> HIDE DEF r
<1>3. Stored(r) = Stored(rs) \ D /\ \A s \in Stored(r) : r[s] = rs[s]
  <2>1. \A s \in Specs : r[s].num > 0 <=> rs[s].num > 0 /\ s \notin D
    BY <1>1, <1>2
  <2>2. Stored(r) = Stored(rs) \ D
    BY <2>1 DEF Stored
  <2> QED BY <1>2, <2>2 DEF Stored
<1>4. r \in Revs
  <2>1. \A x, y \in Stored(rs) : x # y => rs[x].born # rs[y].born
    BY RevsType
  <2> QED BY <1>2, <1>3, <2>1 DEF Revs, Ordered
<1>5. CASE Stored(rs) = {}
  <2>1. Stored(r) = {}
    BY <1>3, <1>5
  <2> QED BY <1>3, <1>4, <1>5, <2>1 DEF r, Newest, NextRevision
<1>6. CASE Stored(rs) # {}
  <2> DEFINE x == Newest(rs)
  <2>1. Top(rs, x)
    BY <1>6, NewestTop
  <2> HIDE DEF x
  <2>2. Top(r, x) /\ r[x] = rs[x]
    BY <1>3, <2>1 DEF Top, x
  <2>3. Newest(r) = x /\ NextRevision(r) = NextRevision(rs)
    BY <1>4, <2>1, <2>2, NewestTop, NextRevisionType
  <2> QED BY <1>3, <1>4, <2>3 DEF r, x
<1> QED BY <1>5, <1>6

-----------------------------------------------------------------------------
(* The invariant                                                           *)

\* Creation times lie in the past.
OrderInv ==
    /\ revs \in Revs /\ list \in Revs
    /\ \A s \in Specs : revs[s].born <= created /\ list[s].born <= created

\* What a list that lags behind still says of the revisions: none has a number
\* above the next one; one that is in the list is as old as the list says; one
\* that is not has the next number, and is younger than all of the list.
ListInv ==
    \A s \in Specs :
        /\ revs[s].num <= NextRevision(list)
        /\ list[s].num > 0 /\ revs[s].num > 0 => revs[s].born = list[s].born
        /\ list[s].num = 0 /\ revs[s].num > 0 =>
              /\ revs[s].num = NextRevision(list)
              /\ \A t \in Stored(list) : list[t].born < revs[s].born

\* Where the reconcile is.
ReadInv ==
    /\ pc # "idle" => read \in Specs
    /\ pc \in {"annotateNew", "truncate"} => list[read].num = 0 /\ revs[read].num > 0

RevInv == TypeOK /\ OrderInv /\ ListInv /\ ReadInv

LEMMA RevInvInit == Init => RevInv
<1> SUFFICES ASSUME Init PROVE RevInv
  OBVIOUS
<1>1. revs \in [Specs -> Rev] /\ \A s \in Specs : revs[s].num = 0 /\ revs[s].born = 0
  BY DEF Init, NoRev, Rev
<1>2. Stored(revs) = {}
  <2>1. \A s \in Specs : ~(revs[s].num > 0)
    BY DEF Init, NoRev
  <2> QED BY <2>1 DEF Stored
<1>3. revs \in Revs /\ list = revs /\ NextRevision(revs) = 1
  BY <1>1, <1>2 DEF Init, Revs, Ordered, NextRevision
<1>4. TypeOK /\ ReadInv
  BY <1>1, <1>3 DEF Init, TypeOK, ReadInv, None, NoSpec
<1>5. OrderInv
  <2>1. \A s \in Specs : revs[s].born <= 0
    BY <1>1
  <2> QED BY <1>3, <2>1 DEF Init, OrderInv
<1>6. ListInv
  <2>1. \A s \in Specs : revs[s].num <= 1 /\ ~(revs[s].num > 0)
    BY <1>1
  <2> QED BY <1>3, <2>1 DEF ListInv
<1> QED BY <1>4, <1>5, <1>6 DEF RevInv

\* syncRevisions raises the number of an older revision.
LEMMA UpdateStep ==
    ASSUME RevInv, UpdateControllerRevision
    PROVE  /\ RevInv'
           /\ Newest(revs') \in {read, Newest(revs)}
           /\ NextRevision(revs') = NextRevision(list) + 1
           /\ Stored(revs') = Stored(revs)
<1> DEFINE n == NextRevision(list)
           e == [num |-> n, born |-> revs[read].born]
<1>1. read \in Specs /\ list \in Revs /\ revs \in Revs /\ revs[read].num > 0 /\ list[read].num > 0
  BY DEF RevInv, OrderInv, ReadInv, UpdateControllerRevision
<1>2. n \in Nat \ {0} /\ read \in Stored(revs)
  BY <1>1, NextRevisionType DEF Stored
<1> HIDE DEF n
<1>3. /\ revs \in [Specs -> Rev] /\ \A s \in Specs : revs[s].num \in Nat /\ revs[s].born \in Nat
      /\ \A s, t \in Stored(revs) : s # t => revs[s].born # revs[t].born
  BY <1>1, RevsType
<1>4. revs' = [revs EXCEPT ![read] = e] /\ e \in Rev /\ e.num = n /\ e.born = revs[read].born
  <2>1. e \in Rev /\ e.num = n /\ e.born = revs[read].born
    BY <1>1, <1>2, <1>3 DEF Rev
  <2>2. revs' = [revs EXCEPT ![read].num = n]
    BY DEF UpdateControllerRevision, n
  <2>3. [revs[read] EXCEPT !.num = n] = e
    BY <1>1, <1>3 DEF Rev
  <2> QED BY <2>1, <2>2, <2>3
<1> HIDE DEF e
<1>5. \A t \in Specs : revs[t].num <= n
  BY DEF RevInv, ListInv, n
<1>6. /\ revs' \in Revs /\ Stored(revs') = Stored(revs) \cup {read}
      /\ NextRevision(revs') = n + 1 /\ Newest(revs') \in {read, Newest(revs)}
  <2>1. e.num > 0 /\ \A t \in Specs : revs[t].num <= e.num
    BY <1>2, <1>4, <1>5
  <2>2. \A t \in Stored(revs) \ {read} : revs[t].born # e.born
    BY <1>2, <1>3, <1>4
  <2> QED BY <1>1, <1>4, <2>1, <2>2, Raised
<1>7. Stored(revs') = Stored(revs)
  BY <1>2, <1>6
<1>8. revs'[read] = e /\ \A s \in Specs \ {read} : revs'[s] = revs[s]
  BY <1>1, <1>3, <1>4
<1>9. UNCHANGED <<spec, rollback, annotated, created, list, read, fresh, edits, faults>>
  BY DEF UpdateControllerRevision, deployVars
<1>10. OrderInv'
  BY <1>1, <1>4, <1>6, <1>8, <1>9 DEF RevInv, OrderInv
<1>11. ListInv'
  <2>1. NextRevision(list') = n /\ Stored(list') = Stored(list)
    BY <1>9 DEF n
  <2> QED BY <1>1, <1>2, <1>4, <1>8, <1>9, <2>1 DEF RevInv, ListInv, n
<1>12. TypeOK' /\ ReadInv'
  <2>1. revs' \in [Specs -> Rev] /\ list' \in [Specs -> Rev]
    BY <1>1, <1>6, <1>9, RevsType
  <2>2. number' = n /\ issued' = issued \cup {<<n, read>>} /\ pc' = "annotate"
    BY DEF UpdateControllerRevision, n
  <2> QED BY <1>1, <1>2, <1>9, <2>1, <2>2 DEF RevInv, TypeOK, ReadInv
<1> QED BY <1>6, <1>7, <1>10, <1>11, <1>12 DEF RevInv, n

\* syncRevisions creates a revision: it is the newest one.
LEMMA CreateStep ==
    ASSUME RevInv, CreateControllerRevision, revs[read].num = 0
    PROVE  /\ RevInv'
           /\ Newest(revs') \in {read, Newest(revs)}
           /\ NextRevision(revs') = NextRevision(list) + 1
           /\ Stored(revs') = Stored(revs) \cup {read} /\ read \notin Stored(revs)
           /\ revs' = [revs EXCEPT ![read] = revs'[read]]
<1> DEFINE n == NextRevision(list)
           e == [num |-> n, born |-> created + 1]
<1>1. read \in Specs /\ list \in Revs /\ revs \in Revs /\ list[read].num = 0 /\ created \in Nat
  BY DEF RevInv, TypeOK, OrderInv, ReadInv, CreateControllerRevision
<1>2. n \in Nat \ {0} /\ read \notin Stored(revs)
  BY <1>1, NextRevisionType DEF Stored
<1> HIDE DEF n
<1>3. /\ revs \in [Specs -> Rev] /\ list \in [Specs -> Rev]
      /\ \A s \in Specs : revs[s].num \in Nat /\ revs[s].born \in Nat
      /\ \A s \in Specs : list[s].num \in Nat /\ list[s].born \in Nat
  BY <1>1, RevsType
<1>4. /\ revs' = [revs EXCEPT ![read] = e] /\ e \in Rev /\ e.num = n /\ e.born = created + 1
      /\ created' = created + 1
  BY <1>1, <1>2 DEF CreateControllerRevision, Rev, n
<1> HIDE DEF e
<1>5. \A t \in Specs : revs[t].num <= n
  BY DEF RevInv, ListInv, n
<1>6. \A t \in Specs : revs[t].born <= created /\ list[t].born <= created
  BY DEF RevInv, OrderInv
<1>7. /\ revs' \in Revs /\ Stored(revs') = Stored(revs) \cup {read}
      /\ NextRevision(revs') = n + 1 /\ Newest(revs') \in {read, Newest(revs)}
  <2>1. \A t \in Stored(revs) \ {read} : revs[t].born # e.born
    <3> SUFFICES ASSUME NEW t \in Stored(revs) PROVE revs[t].born # created + 1
      BY <1>4
    <3>1. t \in Specs
      BY DEF Stored
    <3>2. revs[t].born \in Nat /\ revs[t].born <= created
      BY <1>3, <1>6, <3>1
    <3> QED BY <1>1, <3>2
  <2>2. e.num > 0
    BY <1>2, <1>4
  <2> QED BY <1>1, <1>2, <1>4, <1>5, <2>1, <2>2, Raised
<1>8. revs'[read] = e /\ \A s \in Specs \ {read} : revs'[s] = revs[s]
  BY <1>1, <1>3, <1>4
<1>9. UNCHANGED <<spec, rollback, annotated, list, read, fresh, edits, faults>>
  BY DEF CreateControllerRevision, deployVars
<1>10. OrderInv'
  <2> SUFFICES ASSUME NEW s \in Specs
               PROVE  revs'[s].born <= created + 1 /\ list[s].born <= created + 1
    BY <1>1, <1>4, <1>7, <1>9 DEF OrderInv
  <2> QED BY <1>1, <1>3, <1>4, <1>6, <1>8
<1>11. ListInv'
  <2>1. NextRevision(list') = n /\ Stored(list') = Stored(list)
    BY <1>9 DEF n
  <2>2. \A t \in Stored(list) : list[t].born < e.born
    <3> SUFFICES ASSUME NEW t \in Stored(list) PROVE list[t].born < created + 1
      BY <1>4
    <3>1. t \in Specs
      BY DEF Stored
    <3>2. list[t].born \in Nat /\ list[t].born <= created
      BY <1>3, <1>6, <3>1
    <3> QED BY <1>1, <3>2
  <2>3. n <= n
    BY <1>2
  <2> QED BY <1>1, <1>2, <1>4, <1>8, <1>9, <2>1, <2>2, <2>3 DEF RevInv, ListInv, n
<1>12. TypeOK' /\ ReadInv'
  <2>1. revs' \in [Specs -> Rev] /\ list' \in [Specs -> Rev]
    BY <1>1, <1>7, <1>9, RevsType
  <2>2. number' = n /\ issued' = issued \cup {<<n, read>>} /\ pc' = "annotateNew"
    BY DEF CreateControllerRevision, n
  <2>3. revs'[read].num > 0 /\ list'[read].num = 0 /\ created' \in Nat
    BY <1>1, <1>2, <1>4, <1>8, <1>9
  <2> QED BY <1>1, <1>2, <1>9, <2>1, <2>2, <2>3 DEF RevInv, TypeOK, ReadInv
<1> QED BY <1>2, <1>4, <1>7, <1>8, <1>10, <1>11, <1>12 DEF RevInv, n

\* truncateHistory, from a list that may lag behind and however far it gets,
\* deletes revisions but never the newest one: the revision created last is not
\* in the list, has the next number and is younger than all of it.
LEMMA TruncateStep ==
    ASSUME RevInv, NEW errs, Truncate(errs), faults' \in 0..MaxFaults
    PROVE  /\ RevInv'
           /\ Newest(revs') = Newest(revs)
           /\ NextRevision(revs') = NextRevision(revs)
           /\ Stored(revs') = Stored(revs) \ Truncated(errs)
<1> DEFINE n == NextRevision(list)
           x == Newest(revs)
           D == Truncated(errs)
<1>1. /\ read \in Specs /\ list \in Revs /\ revs \in Revs /\ list[read].num = 0
      /\ revs[read].num > 0 /\ read \in Stored(revs)
  BY DEF RevInv, OrderInv, ReadInv, Truncate, Stored
<1>2. /\ revs \in [Specs -> Rev] /\ list \in [Specs -> Rev]
      /\ \A s \in Specs : revs[s].num \in Nat /\ revs[s].born \in Nat
      /\ \A s \in Specs : list[s].num \in Nat /\ list[s].born \in Nat
  BY <1>1, RevsType
<1>3. revs[read].num = n /\ \A t \in Stored(list) : list[t].born < revs[read].born
  BY <1>1 DEF RevInv, ListInv
<1>4. n \in Nat /\ \A s \in Specs : list[s].num < n
  BY <1>1, NextRevisionType
<1>5. \A s \in Specs : revs[s].num <= n
  BY DEF RevInv, ListInv
<1>6. \A s \in Specs : list[s].num > 0 /\ revs[s].num > 0 => revs[s].born = list[s].born
  BY DEF RevInv, ListInv
<1> HIDE DEF n
<1>7. /\ Listed \in [Specs -> Rev] /\ Listed[read] = revs[read]
      /\ \A s \in Specs \ {read} : Listed[s] = list[s]
  BY <1>1, <1>2 DEF Listed
<1>8. Stored(Listed) = Stored(list) \cup {read}
  <2>1. \A s \in Specs : Listed[s].num > 0 <=> list[s].num > 0 \/ s = read
    BY <1>1, <1>7
  <2> QED BY <1>1, <2>1 DEF Stored
<1>9. Listed \in Revs
  <2> SUFFICES ASSUME NEW s \in Stored(Listed), NEW t \in Stored(Listed), s # t
               PROVE  Listed[s].born # Listed[t].born
    BY <1>7 DEF Revs, Ordered
  <2>1. \A u, v \in Stored(list) : u # v => list[u].born # list[v].born
    BY <1>1, RevsType
  <2>2. s \in Specs /\ t \in Specs
    BY DEF Stored
  <2>3. \A u \in Stored(list) : list[u].born # revs[read].born
    <3>1. \A u \in Stored(list) : u \in Specs
      BY DEF Stored
    <3> QED BY <1>1, <1>2, <1>3, <3>1
  <2> QED BY <1>7, <1>8, <2>1, <2>2, <2>3
<1>10. Top(Listed, read)
  <2> SUFFICES ASSUME NEW s \in Stored(Listed) \ {read} PROVE Older(Listed[s], Listed[read])
    BY <1>8 DEF Top
  <2>1. s \in Stored(list) /\ s \in Specs /\ Listed[s] = list[s]
    BY <1>7, <1>8 DEF Stored
  <2>2. list[s].num < revs[read].num
    BY <1>3, <1>4, <2>1
  <2> QED BY <1>7, <2>1, <2>2 DEF Older
<1>11. x \notin D
  <2> SUFFICES ASSUME x \in D PROVE FALSE
    OBVIOUS
  <2>1. Top(revs, x) /\ x \in Specs
    BY <1>1, NewestTop DEF Top, Stored
  <2> HIDE DEF x
  <2>2. x \in Excess(Listed) /\ x \in Stored(Listed)
    BY DEF Truncated, Excess
  <2>3. x # read
    BY <1>9, <1>10, <2>2, ExcessNotTop
  <2>4. Older(revs[read], revs[x])
    BY <1>1, <2>1, <2>3 DEF Top
  <2>5. x \in Stored(list) /\ list[x].num > 0 /\ revs[x].num > 0
    BY <1>8, <2>1, <2>2, <2>3 DEF Top, Stored
  <2>6. revs[x].num <= revs[read].num /\ revs[x].born < revs[read].born
    BY <1>3, <1>5, <1>6, <2>1, <2>5
  <2>7. /\ revs[x].num \in Nat /\ revs[x].born \in Nat
        /\ revs[read].num \in Nat /\ revs[read].born \in Nat
    BY <1>1, <1>2, <2>1
  <2> QED BY <2>4, <2>6, <2>7 DEF Older
<1>12. revs' = [s \in Specs |-> IF s \in D THEN NoRev ELSE revs[s]]
  BY DEF Truncate
<1>13. /\ revs' \in Revs /\ Stored(revs') = Stored(revs) \ D
       /\ NextRevision(revs') = NextRevision(revs) /\ Newest(revs') = Newest(revs)
  <2> HIDE DEF D
  <2> QED BY <1>1, <1>11, <1>12, Dropped
<1> HIDE DEF D
<1>14. /\ UNCHANGED <<spec, rollback, annotated, created, list, fresh, issued, edits>>
       /\ pc' = "idle" /\ read' = NoSpec /\ number' = 0
  BY DEF Truncate, Stop, deployVars
<1>15. \A s \in Specs : revs'[s] = revs[s] \/ (revs'[s].num = 0 /\ revs'[s].born = 0)
  BY <1>12 DEF NoRev
<1>16. OrderInv'
  <2> SUFFICES ASSUME NEW s \in Specs PROVE revs'[s].born <= created /\ list[s].born <= created
    BY <1>1, <1>13, <1>14 DEF OrderInv
  <2>1. revs[s].born <= created /\ list[s].born <= created /\ created \in Nat
    BY DEF RevInv, OrderInv, TypeOK
  <2>2. CASE revs'[s] = revs[s]
    BY <2>1, <2>2
  <2>3. CASE revs'[s].born = 0
    BY <2>1, <2>3
  <2> QED BY <1>15, <2>2, <2>3
<1>17. ListInv'
  <2>1. NextRevision(list') = n /\ Stored(list') = Stored(list) /\ list' = list
    BY <1>14 DEF n
  <2> SUFFICES ASSUME NEW s \in Specs
               PROVE  /\ revs'[s].num <= n
                      /\ list[s].num > 0 /\ revs'[s].num > 0 => revs'[s].born = list[s].born
                      /\ list[s].num = 0 /\ revs'[s].num > 0 =>
                            /\ revs'[s].num = n
                            /\ \A t \in Stored(list) : list[t].born < revs'[s].born
    BY <2>1 DEF ListInv
  <2>2. CASE revs'[s] = revs[s]
    BY <2>2 DEF RevInv, ListInv, n
  <2>3. CASE revs'[s].num = 0
    BY <1>4, <2>3
  <2> QED BY <1>15, <2>2, <2>3
<1>18. TypeOK' /\ ReadInv'
  <2>1. revs' \in [Specs -> Rev]
    BY <1>13, RevsType
  <2> QED BY <1>14, <2>1 DEF RevInv, TypeOK, ReadInv, NoSpec
<1> QED BY <1>13, <1>16, <1>17, <1>18 DEF RevInv, D

\* A reconcile starts, from the revisions as they are or from the list it had.
LEMMA StartStep ==
    ASSUME RevInv, NEW rs \in {revs, list}, Start(rs), faults' \in 0..MaxFaults
    PROVE  RevInv'
<1>1. UNCHANGED <<spec, rollback, annotated, revs, created, number, issued, edits>>
  BY DEF Start, deployVars
<1>2. list' = rs /\ read' = spec /\ fresh' = TRUE /\ pc' \in {"rollback", "revise"}
  BY DEF Start
<1>3. revs \in Revs /\ list \in Revs
  BY DEF RevInv, OrderInv
<1>4. TypeOK' /\ ReadInv'
  BY <1>1, <1>2 DEF RevInv, TypeOK, ReadInv
<1>5. OrderInv'
  BY <1>1, <1>2 DEF RevInv, OrderInv
<1>6. ListInv'
  <2>1. CASE rs = list
    <3>1. list' = list /\ Stored(list') = Stored(list) /\ NextRevision(list') = NextRevision(list)
      BY <1>2, <2>1
    <3> QED BY <1>1, <3>1 DEF RevInv, ListInv
  <2>2. CASE rs = revs
    <3>1. list' = revs /\ Stored(list') = Stored(revs) /\ NextRevision(list') = NextRevision(revs)
      BY <1>2, <2>2
    <3>2. NextRevision(revs) \in Nat /\ \A s \in Specs : revs[s].num < NextRevision(revs)
      BY <1>3, NextRevisionType
    <3>3. \A s \in Specs : revs[s].num \in Nat
      BY <1>3, RevsType
    <3>4. \A s \in Specs : /\ revs[s].num <= NextRevision(revs)
                           /\ ~(revs[s].num = 0 /\ revs[s].num > 0)
      BY <3>2, <3>3
    <3> QED BY <1>1, <3>1, <3>4 DEF ListInv
  <2> QED BY <2>1, <2>2
<1> QED BY <1>4, <1>5, <1>6 DEF RevInv

\* Steps that leave the revisions and the list alone.
LEMMA KeptStep ==
    ASSUME RevInv, UNCHANGED <<revs, created, list>>, TypeOK', ReadInv'
    PROVE  RevInv'
<1>1. Stored(list') = Stored(list) /\ NextRevision(list') = NextRevision(list)
  OBVIOUS
<1> QED BY <1>1 DEF RevInv, OrderInv, ListInv

LEMMA RevInvStep == RevInv /\ [Next]_vars => RevInv'
<1> SUFFICES ASSUME RevInv, [Next]_vars PROVE RevInv'
  OBVIOUS
<1>1. CASE Reconcile
  BY <1>1, StartStep DEF Reconcile, RevInv, TypeOK
<1>2. CASE ReconcileStale
  <2>1. faults' \in 0..MaxFaults
    BY <1>2 DEF ReconcileStale, RevInv, TypeOK
  <2> QED BY <1>2, <2>1, StartStep DEF ReconcileStale
<1>3. CASE RollbackTo
  <2>1. spec' \in Specs
    <3>1. Target \subseteq Specs
      BY DEF Target, Nth, Numbered, Stored
    <3> QED BY <1>3, <3>1 DEF RollbackTo, RevInv, TypeOK
  <2>2. fresh' \in BOOLEAN
    BY <1>3 DEF RollbackTo
  <2>3. /\ rollback' = -2 /\ pc' = "idle" /\ read' = 0 /\ number' = 0
        /\ UNCHANGED <<annotated, revs, created, list, issued, edits, faults>>
    BY <1>3 DEF RollbackTo, Stop, None, NoSpec
  <2>4. TypeOK' /\ ReadInv'
    BY <2>1, <2>2, <2>3 DEF RevInv, TypeOK, ReadInv, NoSpec
  <2> QED BY <2>3, <2>4, KeptStep
<1>4. CASE RollbackUnchanged
  <2>1. TypeOK' /\ ReadInv'
    BY <1>4 DEF RollbackUnchanged, Stop, RevInv, TypeOK, ReadInv, NoSpec, deployVars
  <2> QED BY <1>4, <2>1, KeptStep DEF RollbackUnchanged
<1>5. CASE UpdateControllerRevision
  BY <1>5, UpdateStep
<1>6. CASE CreateControllerRevision /\ revs[read].num = 0
  BY <1>6, CreateStep
<1>7. CASE CreateControllerRevision /\ revs[read].num # 0
  <2>1. revs[read].num \in Nat /\ read \in Specs
    BY <1>7 DEF CreateControllerRevision, RevInv, OrderInv, TypeOK, ReadInv, Rev
  <2>2. revs[read].num > 0
    BY <1>7, <2>1
  <2>3. /\ UNCHANGED <<spec, rollback, annotated, revs, created, list, read, fresh, issued, edits, faults>>
        /\ number' = revs[read].num /\ pc' = "annotateNew" /\ list[read].num = 0
    BY <1>7, <2>2 DEF CreateControllerRevision, deployVars
  <2>4. TypeOK' /\ ReadInv'
    BY <2>1, <2>2, <2>3 DEF RevInv, TypeOK, ReadInv
  <2> QED BY <2>3, <2>4, KeptStep
<1>8. CASE UpdateAnnotations
  <2>1. TypeOK' /\ ReadInv'
    <3>1. fresh' \in BOOLEAN
      BY <1>8 DEF UpdateAnnotations
    <3>2. /\ rollback' = -2 /\ annotated' = number
          /\ UNCHANGED <<spec, revs, created, list, issued, edits, faults>>
          /\ pc' = "idle" \/ (pc = "annotateNew" /\ pc' = "truncate")
          /\ read' \in {0, read} /\ number' \in {0, number}
          /\ pc' # "idle" => read' = read
      BY <1>8 DEF UpdateAnnotations, Stop, None, NoSpec
    <3>3. TypeOK'
      BY <3>1, <3>2 DEF RevInv, TypeOK, NoSpec
    <3>4. ReadInv'
      BY <3>2 DEF RevInv, ReadInv
    <3> QED BY <3>3, <3>4
  <2> QED BY <1>8, <2>1, KeptStep DEF UpdateAnnotations
<1>9. CASE TruncateHistory
  BY <1>9, TruncateStep DEF TruncateHistory, RevInv, TypeOK
<1>10. CASE TruncateFails
  <2>1. faults' \in 0..MaxFaults
    BY <1>10 DEF TruncateFails, RevInv, TypeOK
  <2> QED BY <1>10, <2>1, TruncateStep DEF TruncateFails
<1>11. CASE ReconcileFails
  <2>1. TypeOK' /\ ReadInv'
    BY <1>11 DEF ReconcileFails, Stop, RevInv, TypeOK, ReadInv, NoSpec, deployVars
  <2> QED BY <1>11, <2>1, KeptStep DEF ReconcileFails
<1>12. CASE \E s \in Specs : UserApply(s)
  <2>1. TypeOK' /\ ReadInv'
    <3>1. fresh' \in BOOLEAN
      BY <1>12 DEF UserApply
    <3>2. /\ spec' \in Specs /\ edits' = edits + 1 /\ edits < MaxEdits
          /\ UNCHANGED <<rollback, annotated, revs, created, list, pc, read, number, issued, faults>>
      BY <1>12 DEF UserApply
    <3> QED BY <3>1, <3>2 DEF RevInv, TypeOK, ReadInv
  <2> QED BY <1>12, <2>1, KeptStep DEF UserApply
<1>13. CASE \E v \in {Invalid, Previous} \cup {p[1] : p \in issued} : UserRollback(v)
  <2>1. PICK v \in {Invalid, Previous} \cup {p[1] : p \in issued} : UserRollback(v)
    BY <1>13
  <2>2. v \in Int
    BY DEF Invalid, Previous, RevInv, TypeOK
  <2>3. TypeOK' /\ ReadInv'
    <3>1. fresh' \in BOOLEAN
      BY <2>1 DEF UserRollback
    <3>2. /\ rollback' = v /\ edits' = edits + 1 /\ edits < MaxEdits
          /\ UNCHANGED <<spec, annotated, revs, created, list, pc, read, number, issued, faults>>
      BY <2>1 DEF UserRollback
    <3> QED BY <2>2, <3>1, <3>2 DEF RevInv, TypeOK, ReadInv
  <2> QED BY <2>1, <2>3, KeptStep DEF UserRollback
<1>14. CASE UNCHANGED vars
  <2>1. TypeOK' /\ ReadInv'
    BY <1>14 DEF vars, deployVars, RevInv, TypeOK, ReadInv
  <2> QED BY <1>14, <2>1, KeptStep DEF vars
<1> QED
  BY <1>1, <1>2, <1>3, <1>4, <1>5, <1>6, <1>7, <1>8, <1>9, <1>10, <1>11, <1>12, <1>13, <1>14
     DEF Next, Sync

LEMMA RevInvAlways == Spec => []RevInv
BY RevInvInit, RevInvStep, PTL DEF Spec

\* Through edits, rollbacks, truncations, stale lists and failures, every
\* variable keeps its type; above all a rollback only ever brings back a spec
\* of the user.
THEOREM TypeCorrect == Spec => []TypeOK
BY RevInvAlways, PTL DEF RevInv

-----------------------------------------------------------------------------
(* Revisions implements LastRevision                                       *)

\* The variable read of LastRevision: the spec about to be recorded.
Recording == IF pc = "revise" THEN read ELSE NoSpec

LEMMA StepImplements == RevInv /\ [Next]_vars => [LastRev!Next]_LastRev!vars
<1> SUFFICES ASSUME RevInv, [Next]_vars
             PROVE  \/ LastRev!Next
                    \/ UNCHANGED <<spec, Recording, Newest(revs)>>
  BY DEF LastRev!vars, Recording
<1> USE DEF Recording
<1>0. revs \in Revs /\ (pc = "revise" => read \in Specs /\ read # NoSpec) /\ spec \in Specs
  BY DEF RevInv, OrderInv, ReadInv, TypeOK, NoSpec
<1>1. ASSUME NEW rs, Start(rs) PROVE LastRev!Next \/ UNCHANGED <<spec, Recording, Newest(revs)>>
  <2>1. UNCHANGED <<spec, Newest(revs)>> /\ pc = "idle" /\ read' = spec
    BY <1>1 DEF Start, deployVars
  <2>2. CASE pc' = "revise"
    BY <2>1, <2>2 DEF LastRev!Next, LastRev!Read
  <2>3. CASE pc' # "revise"
    BY <2>1, <2>3
  <2> QED BY <2>2, <2>3
<1>2. CASE Reconcile \/ ReconcileStale
  BY <1>1, <1>2 DEF Reconcile, ReconcileStale
<1>3. CASE RollbackTo
  <2>1. UNCHANGED Newest(revs) /\ pc = "rollback" /\ pc' = "idle"
    BY <1>3 DEF RollbackTo, Stop
  <2>2. spec' \in Specs
    <3>1. Target \subseteq Specs
      BY DEF Target, Nth, Numbered, Stored
    <3> QED BY <1>0, <1>3, <3>1 DEF RollbackTo
  <2> QED BY <2>1, <2>2 DEF LastRev!Next, LastRev!Change
<1>4. CASE RollbackUnchanged
  BY <1>4 DEF RollbackUnchanged, Stop, deployVars
<1>5. CASE UpdateControllerRevision
  <2>1. Newest(revs') \in {read, Newest(revs)}
    BY <1>5, UpdateStep
  <2>2. pc = "revise" /\ pc' = "annotate" /\ UNCHANGED spec
    BY <1>5 DEF UpdateControllerRevision, deployVars
  <2> QED BY <1>0, <2>1, <2>2 DEF LastRev!Next, LastRev!Record, LastRev!GiveUp
<1>6. CASE CreateControllerRevision
  <2>1. Newest(revs') \in {read, Newest(revs)}
    <3>1. CASE revs[read].num = 0
      BY <1>6, <3>1, CreateStep
    <3>2. CASE revs[read].num # 0
      <4>1. revs[read].num \in Nat
        BY <1>0, <1>6, RevsType DEF CreateControllerRevision
      <4>2. revs' = revs
        BY <1>6, <3>2, <4>1 DEF CreateControllerRevision
      <4> QED BY <4>2
    <3> QED BY <3>1, <3>2
  <2>2. pc = "revise" /\ pc' = "annotateNew" /\ UNCHANGED spec
    BY <1>6 DEF CreateControllerRevision, deployVars
  <2> QED BY <1>0, <2>1, <2>2 DEF LastRev!Next, LastRev!Record, LastRev!GiveUp
<1>7. CASE UpdateAnnotations
  BY <1>7 DEF UpdateAnnotations, Stop
<1>8. CASE TruncateHistory \/ TruncateFails
  <2>1. PICK errs : Truncate(errs)
    BY <1>8 DEF TruncateHistory, TruncateFails
  <2>2. faults' \in 0..MaxFaults
    BY <1>8 DEF TruncateHistory, TruncateFails, RevInv, TypeOK
  <2>3. Newest(revs') = Newest(revs)
    BY <2>1, <2>2, TruncateStep
  <2>4. pc = "truncate" /\ pc' = "idle" /\ UNCHANGED spec
    BY <2>1 DEF Truncate, Stop, deployVars
  <2> QED BY <2>3, <2>4
<1>9. CASE ReconcileFails
  <2>1. UNCHANGED <<spec, Newest(revs)>> /\ pc' = "idle"
    BY <1>9 DEF ReconcileFails, Stop, deployVars
  <2> QED BY <2>1 DEF LastRev!Next, LastRev!GiveUp
<1>10. CASE \E s \in Specs : UserApply(s)
  <2>1. spec' \in Specs /\ UNCHANGED <<Newest(revs), pc, read>>
    BY <1>10 DEF UserApply
  <2> QED BY <2>1 DEF LastRev!Next, LastRev!Change
<1>11. CASE \E v \in {Invalid, Previous} \cup {p[1] : p \in issued} : UserRollback(v)
  BY <1>11 DEF UserRollback
<1>12. CASE UNCHANGED vars
  BY <1>12 DEF vars, deployVars
<1> QED
  BY <1>2, <1>3, <1>4, <1>5, <1>6, <1>7, <1>8, <1>9, <1>10, <1>11, <1>12 DEF Next, Sync

\* The revision history implements LastRevision, the specification that Rollout
\* relies on: however stale the list a reconcile works from, and wherever it
\* fails, the newest revision only ever changes to a spec that syncRevisions
\* read and found to differ, and no truncation brings back another one.
THEOREM HistoryImplements == Spec => ImplementsLastRevision
<1>1. Init => LastRev!Init
  <2> SUFFICES ASSUME Init PROVE LastRev!Init
    OBVIOUS
  <2>1. RevInv
    BY RevInvInit
  <2>2. Stored(revs) = {}
    <3>1. \A s \in Specs : ~(revs[s].num > 0)
      BY DEF Init, NoRev
    <3> QED BY <3>1 DEF Stored
  <2> QED BY <2>1, <2>2, NewestTop DEF Init, LastRev!Init, RevInv, OrderInv
<1> QED
  BY <1>1, RevInvAlways, StepImplements, PTL DEF Spec, ImplementsLastRevision, LastRev!Spec

-----------------------------------------------------------------------------
(* Numbers and the annotation that names them                              *)

\* Without faults a reconcile works from the revisions as they are, and every
\* number given so far is below the next one.
NumInv ==
    faults = 0 =>
        /\ pc \in {"rollback", "revise"} => list = revs
        /\ \A p \in issued : p[1] < NextRevision(revs)
        /\ \A p, q \in issued : p[1] = q[1] => p[2] = q[2]
        /\ pc \in {"idle", "rollback", "revise", "truncate"} /\ Stored(revs) # {} =>
              annotated + 1 = NextRevision(revs)
        /\ pc \in {"annotate", "annotateNew"} => number + 1 = NextRevision(revs)

\* Steps that neither store a revision nor start, annotate or fail.
LEMMA NumKept ==
    ASSUME NumInv, UNCHANGED <<revs, list, issued, annotated, number, pc, faults>>
    PROVE  NumInv'
<1>1. Stored(revs') = Stored(revs) /\ NextRevision(revs') = NextRevision(revs)
  OBVIOUS
<1> QED BY <1>1 DEF NumInv

LEMMA NumInvStep == RevInv /\ NumInv /\ [Next]_vars => NumInv'
<1> SUFFICES ASSUME RevInv, NumInv, [Next]_vars, faults' = 0 PROVE NumInv'
  BY DEF NumInv
<1>0. /\ faults \in Nat /\ revs \in Revs /\ list \in Revs /\ issued \subseteq Nat \X Specs
      /\ (pc = "revise" => read \in Specs)
  BY DEF RevInv, TypeOK, OrderInv, ReadInv
<1>1. CASE Reconcile
  <2>1. /\ UNCHANGED <<annotated, revs, issued, faults>> /\ list' = revs
        /\ pc = "idle" /\ pc' \in {"rollback", "revise"}
    BY <1>1 DEF Reconcile, Start, deployVars
  <2>2. Stored(revs') = Stored(revs) /\ NextRevision(revs') = NextRevision(revs) /\ revs' = revs
    BY <2>1
  <2> QED BY <2>1, <2>2 DEF NumInv
<1>2. CASE ReconcileStale \/ TruncateFails
  BY <1>0, <1>2 DEF ReconcileStale, TruncateFails
<1>3. CASE RollbackTo \/ RollbackUnchanged \/ ReconcileFails
  <2>1. /\ UNCHANGED <<annotated, revs, list, issued>> /\ pc' = "idle"
        /\ pc \in {"rollback", "revise"} /\ UNCHANGED faults
    BY <1>0, <1>3 DEF RollbackTo, RollbackUnchanged, ReconcileFails, Stop, deployVars
  <2>2. Stored(revs') = Stored(revs) /\ NextRevision(revs') = NextRevision(revs)
    BY <2>1
  <2> QED BY <2>1, <2>2 DEF NumInv
<1>4. ASSUME UpdateControllerRevision \/ CreateControllerRevision,
             NEW n \in Nat, n = NextRevision(list), NextRevision(revs') = n + 1,
             issued' = issued \cup {<<n, read>>}, number' = n,
             pc' \in {"annotate", "annotateNew"}
      PROVE  NumInv'
  <2>1. faults = 0 /\ pc = "revise"
    BY <1>4 DEF UpdateControllerRevision, CreateControllerRevision
  <2>2. list = revs
    BY <2>1 DEF NumInv
  <2>3. \A p \in issued : p[1] < n /\ p[1] \in Nat
    BY <1>0, <1>4, <2>1, <2>2 DEF NumInv
  <2>4. \A p \in issued' : p \in issued \/ (p[1] = n /\ p[2] = read)
    BY <1>4
  <2>5. \A p \in issued' : p[1] < n + 1
    BY <2>3, <2>4
  <2>6. \A p, q \in issued' : p[1] = q[1] => p[2] = q[2]
    <3> SUFFICES ASSUME NEW p \in issued', NEW q \in issued', p[1] = q[1] PROVE p[2] = q[2]
      OBVIOUS
    <3>1. CASE p \in issued /\ q \in issued
      BY <2>1, <3>1 DEF NumInv
    <3>2. CASE p \notin issued /\ q \notin issued
      BY <2>4, <3>2
    <3>3. CASE p \in issued /\ q \notin issued
      BY <2>3, <2>4, <3>3
    <3>4. CASE p \notin issued /\ q \in issued
      BY <2>3, <2>4, <3>4
    <3> QED BY <3>1, <3>2, <3>3, <3>4
  <2> QED BY <1>4, <2>5, <2>6 DEF NumInv
<1>5. CASE UpdateControllerRevision
  <2>1. NextRevision(list) \in Nat /\ NextRevision(revs') = NextRevision(list) + 1
    BY <1>0, <1>5, UpdateStep, NextRevisionType
  <2>2. /\ issued' = issued \cup {<<NextRevision(list), read>>} /\ number' = NextRevision(list)
        /\ pc' = "annotate"
    BY <1>5 DEF UpdateControllerRevision
  <2> QED BY <1>4, <1>5, <2>1, <2>2
<1>6. CASE CreateControllerRevision
  <2>1. list = revs /\ list[read].num = 0
    BY <1>6 DEF CreateControllerRevision, NumInv
  <2>2. NextRevision(list) \in Nat /\ NextRevision(revs') = NextRevision(list) + 1
    BY <1>0, <1>6, <2>1, CreateStep, NextRevisionType
  <2>3. /\ issued' = issued \cup {<<NextRevision(list), read>>} /\ number' = NextRevision(list)
        /\ pc' = "annotateNew"
    BY <1>6, <2>1 DEF CreateControllerRevision
  <2> QED BY <1>4, <1>6, <2>2, <2>3
<1>7. CASE UpdateAnnotations
  <2>1. /\ annotated' = number /\ pc' \in {"idle", "truncate"} /\ pc \in {"annotate", "annotateNew"}
        /\ UNCHANGED <<revs, issued, faults>>
    BY <1>7 DEF UpdateAnnotations, Stop
  <2>2. Stored(revs') = Stored(revs) /\ NextRevision(revs') = NextRevision(revs)
    BY <2>1
  <2> QED BY <2>1, <2>2 DEF NumInv
<1>8. CASE TruncateHistory
  <2>1. /\ NextRevision(revs') = NextRevision(revs)
        /\ Stored(revs') = Stored(revs) \ Truncated(Gone)
    BY <1>8, TruncateStep DEF TruncateHistory, RevInv, TypeOK
  <2>2. pc = "truncate" /\ pc' = "idle" /\ UNCHANGED <<annotated, issued, faults>>
    BY <1>8 DEF TruncateHistory, Truncate, Stop, deployVars
  <2> QED BY <2>1, <2>2 DEF NumInv
<1>9. CASE \/ \E s \in Specs : UserApply(s)
           \/ \E v \in {Invalid, Previous} \cup {p[1] : p \in issued} : UserRollback(v)
           \/ UNCHANGED vars
  BY <1>9, NumKept DEF UserApply, UserRollback, vars, deployVars
<1> QED
  BY <1>1, <1>2, <1>3, <1>5, <1>6, <1>7, <1>8, <1>9 DEF Next, Sync

LEMMA NumInvAlways == Spec => []NumInv
<1>1. Init => NumInv
  <2> SUFFICES ASSUME Init PROVE NumInv
    OBVIOUS
  <2>1. Stored(revs) = {}
    <3>1. \A s \in Specs : ~(revs[s].num > 0)
      BY DEF Init, NoRev
    <3> QED BY <3>1 DEF Stored
  <2> QED BY <2>1 DEF Init, NumInv
<1> QED BY <1>1, RevInvAlways, NumInvStep, PTL DEF Spec

\* While caches are current and no call fails, nextRevision never gives a number
\* twice, through any number of edits, rollbacks and truncations: a rollback to
\* a number cannot bring back another spec than the one it was given to.
THEOREM NumbersUnique == Spec => []NumbersNotReused
<1>1. NumInv => NumbersNotReused
  BY DEF NumInv, NumbersNotReused
<1> QED BY <1>1, NumInvAlways, PTL

\* Under the same conditions the revision annotation names the newest revision
\* whenever no reconcile is under way.
THEOREM AnnotationCurrent == Spec => []AnnotatedNewest
<1>1. RevInv /\ NumInv => AnnotatedNewest
  <2> SUFFICES ASSUME RevInv, NumInv, faults = 0, pc = "idle", Stored(revs) # {}
               PROVE  annotated = revs[Newest(revs)].num
    BY DEF AnnotatedNewest
  <2>1. revs \in Revs /\ annotated \in Nat
    BY DEF RevInv, OrderInv, TypeOK
  <2>2. Top(revs, Newest(revs)) /\ Newest(revs) \in Specs
    BY <2>1, NewestTop DEF Top, Stored
  <2>3. NextRevision(revs) = revs[Newest(revs)].num + 1 /\ revs[Newest(revs)].num \in Nat
    BY <2>1, <2>2, NextRevisionType, RevsType
  <2>4. annotated + 1 = NextRevision(revs)
    BY DEF NumInv
  <2> QED BY <2>1, <2>3, <2>4
<1> QED BY <1>1, RevInvAlways, NumInvAlways, PTL

-----------------------------------------------------------------------------
(* The length of the history                                               *)

\* A reconcile that will not truncate enough, because its list lags behind, is
\* paid for by a fault.
Count == Cardinality(Stored(revs))
Limit == HistoryLimit + 1 + faults

HistInv ==
    /\ pc \in {"idle", "annotate"} => Count <= Limit
    /\ pc \in {"rollback", "revise"} => Count < Limit \/ (Count <= Limit /\ list = revs)
    /\ pc \in {"annotateNew", "truncate"} =>
          Count <= Limit \/ (Count <= Limit + 1 /\ Listed = revs)

LEMMA CountType ==
    ASSUME RevInv
    PROVE  Count \in Nat /\ Limit \in Nat /\ faults \in Nat
BY StoredFinite DEF RevInv, TypeOK, Count, Limit

LEMMA HistInvStep == RevInv /\ HistInv /\ [Next]_vars => HistInv'
<1> SUFFICES ASSUME RevInv, HistInv, [Next]_vars PROVE HistInv'
  OBVIOUS
<1>0. Count \in Nat /\ Limit \in Nat /\ faults \in Nat
  BY CountType
<1>00. RevInv'
  BY RevInvStep
<1>a. Count' \in Nat
  BY <1>00, StoredFinite DEF Count
<1>b. (UNCHANGED faults => Limit' = Limit) /\ (faults' = faults + 1 => Limit' = Limit + 1)
  BY <1>0 DEF Limit
<1>1. CASE Reconcile
  <2>1. /\ UNCHANGED <<revs, faults>> /\ list' = revs
        /\ pc = "idle" /\ pc' \in {"rollback", "revise"}
    BY <1>1 DEF Reconcile, Start
  <2>2. Count' = Count
    BY <2>1 DEF Count
  <2> QED BY <1>b, <2>1, <2>2 DEF HistInv
<1>2. CASE ReconcileStale
  <2>1. /\ UNCHANGED revs /\ faults' = faults + 1
        /\ pc = "idle" /\ pc' \in {"rollback", "revise"}
    BY <1>2 DEF ReconcileStale, Start
  <2>2. Count' = Count
    BY <2>1 DEF Count
  <2>3. Count < Limit + 1
    BY <1>0, <2>1 DEF HistInv
  <2> QED BY <1>b, <2>1, <2>2, <2>3 DEF HistInv
<1>3. CASE RollbackTo \/ RollbackUnchanged
  <2>1. UNCHANGED <<revs, faults>> /\ pc' = "idle" /\ pc = "rollback"
    BY <1>3 DEF RollbackTo, RollbackUnchanged, Stop
  <2>2. Count' = Count
    BY <2>1 DEF Count
  <2>3. Count <= Limit
    BY <1>0, <2>1 DEF HistInv
  <2> QED BY <1>b, <2>1, <2>2, <2>3 DEF HistInv
<1>4. CASE ReconcileFails
  <2>1. UNCHANGED revs /\ pc' = "idle" /\ pc # "idle"
    BY <1>4 DEF ReconcileFails, Stop
  <2>2. Count' = Count
    BY <2>1 DEF Count
  <2>3. CASE UNCHANGED faults
    <3>1. pc \in {"rollback", "revise"}
      BY <1>0, <1>4, <2>3 DEF ReconcileFails
    <3>2. Count <= Limit
      BY <1>0, <3>1 DEF HistInv
    <3> QED BY <1>b, <2>1, <2>2, <2>3, <3>2 DEF HistInv
  <2>4. CASE faults' = faults + 1
    <3>1. Count <= Limit + 1
      BY <1>0 DEF HistInv, RevInv, TypeOK
    <3> QED BY <1>b, <2>1, <2>2, <2>4, <3>1 DEF HistInv
  <2> QED BY <1>4, <2>3, <2>4 DEF ReconcileFails
<1>5. CASE UpdateControllerRevision
  <2>1. Stored(revs') = Stored(revs)
    BY <1>5, UpdateStep
  <2>2. pc = "revise" /\ pc' = "annotate" /\ UNCHANGED faults
    BY <1>5 DEF UpdateControllerRevision
  <2>3. Count' = Count
    BY <2>1 DEF Count
  <2>4. Count <= Limit
    BY <1>0, <2>2 DEF HistInv
  <2> QED BY <1>b, <2>2, <2>3, <2>4 DEF HistInv
<1>6. CASE CreateControllerRevision
  <2>1. /\ pc = "revise" /\ pc' = "annotateNew" /\ UNCHANGED <<faults, list, read>>
        /\ list[read].num = 0
    BY <1>6 DEF CreateControllerRevision
  <2>2. CASE revs[read].num = 0
    <3>1. /\ Stored(revs') = Stored(revs) \cup {read} /\ read \notin Stored(revs)
          /\ revs' = [revs EXCEPT ![read] = revs'[read]]
      BY <1>6, <2>2, CreateStep
    <3>2. Count' = Count + 1
      BY <3>1, StoredFinite, FS_AddElement DEF Count
    <3>3. CASE list = revs
      <4>1. Listed' = revs'
        BY <2>1, <3>1, <3>3 DEF Listed
      <4>2. Count + 1 <= Limit + 1
        BY <1>0, <2>1 DEF HistInv
      <4> QED BY <1>b, <2>1, <3>2, <4>1, <4>2 DEF HistInv
    <3>4. CASE list # revs
      <4>1. Count + 1 <= Limit
        BY <1>0, <2>1, <3>4 DEF HistInv
      <4> QED BY <1>b, <2>1, <3>2, <4>1 DEF HistInv
    <3> QED BY <3>3, <3>4
  <2>3. CASE revs[read].num # 0
    <3>1. list # revs
      BY <2>1, <2>3
    <3>2. revs[read].num \in Nat
      BY <2>1, RevsType DEF RevInv, OrderInv, ReadInv
    <3>3. UNCHANGED revs
      BY <1>6, <2>3, <3>2 DEF CreateControllerRevision
    <3>4. Count' = Count
      BY <3>3 DEF Count
    <3>5. Count <= Limit
      BY <1>0, <2>1, <3>1 DEF HistInv
    <3> QED BY <1>b, <2>1, <3>4, <3>5 DEF HistInv
  <2> QED BY <2>2, <2>3
<1>7. CASE UpdateAnnotations
  <2>1. UNCHANGED <<revs, list, faults>>
    BY <1>7 DEF UpdateAnnotations
  <2>2. Count' = Count /\ Limit' = Limit
    BY <1>b, <2>1 DEF Count
  <2>3. CASE pc = "annotate"
    <3>1. pc' = "idle"
      BY <1>7, <2>3 DEF UpdateAnnotations, Stop
    <3> QED BY <2>2, <2>3, <3>1 DEF HistInv
  <2>4. CASE pc = "annotateNew"
    <3>1. pc' = "truncate" /\ UNCHANGED read
      BY <1>7, <2>4 DEF UpdateAnnotations
    <3>2. Listed' = Listed /\ revs' = revs
      BY <2>1, <3>1 DEF Listed
    <3> QED BY <2>2, <2>4, <3>1, <3>2 DEF HistInv
  <2> QED BY <1>7, <2>3, <2>4 DEF UpdateAnnotations
<1>8. ASSUME NEW errs, Truncate(errs), faults' \in 0..MaxFaults
      PROVE  Stored(revs') = Stored(revs) \ Truncated(errs) /\ Count' <= Count
  <2>1. Stored(revs') = Stored(revs) \ Truncated(errs)
    BY <1>8, TruncateStep
  <2> QED BY <2>1, StoredFinite, FS_Subset DEF Count
<1>9. CASE TruncateHistory
  <2>1. pc = "truncate" /\ pc' = "idle" /\ UNCHANGED faults /\ Truncate(Gone)
    BY <1>9 DEF TruncateHistory, Truncate, Stop
  <2>2. faults' \in 0..MaxFaults
    BY <2>1 DEF RevInv, TypeOK
  <2>3. Stored(revs') = Stored(revs) \ Truncated(Gone) /\ Count' <= Count
    BY <1>8, <2>1, <2>2
  <2>4. CASE Listed = revs
    <3>1. Truncated(Gone) = Excess(revs)
      BY <2>4 DEF Truncated, Gone, Excess, Stored
    <3>2. Count' <= HistoryLimit + 1
      BY <2>3, <3>1, ExcessEnough DEF RevInv, OrderInv, Count
    <3> QED BY <1>0, <1>a, <1>b, <2>1, <3>2 DEF HistInv, Limit
  <2>5. CASE Listed # revs
    <3>1. Count <= Limit
      BY <2>1, <2>5 DEF HistInv
    <3> QED BY <1>0, <1>a, <1>b, <2>1, <2>3, <3>1 DEF HistInv
  <2> QED BY <2>4, <2>5
<1>10. CASE TruncateFails
  <2>1. PICK errs : Truncate(errs)
    BY <1>10 DEF TruncateFails
  <2>2. pc = "truncate" /\ pc' = "idle" /\ faults' = faults + 1 /\ faults' \in 0..MaxFaults
    BY <1>10, <2>1 DEF TruncateFails, Truncate, Stop, RevInv, TypeOK
  <2>3. Count' <= Count
    BY <1>8, <2>1, <2>2
  <2>4. Count <= Limit + 1
    BY <1>0, <2>2 DEF HistInv
  <2> QED BY <1>0, <1>a, <1>b, <2>2, <2>3, <2>4 DEF HistInv
<1>11. CASE \/ \E s \in Specs : UserApply(s)
            \/ \E v \in {Invalid, Previous} \cup {p[1] : p \in issued} : UserRollback(v)
            \/ UNCHANGED vars
  <2>1. UNCHANGED <<revs, list, read, pc, faults>>
    BY <1>11 DEF UserApply, UserRollback, vars
  <2>2. Count' = Count /\ Limit' = Limit /\ Listed' = Listed
    BY <1>b, <2>1 DEF Count, Listed
  <2> QED BY <2>1, <2>2 DEF HistInv
<1> QED
  BY <1>1, <1>2, <1>3, <1>4, <1>5, <1>6, <1>7, <1>9, <1>10, <1>11 DEF Next, Sync

\* Between reconciles there is at most one revision more than historyLimit, and
\* one more for every stale list and failed call, however these interleave with
\* edits and rollbacks: the history of a deployment does not grow for ever.
THEOREM HistoryLimited == Spec => []HistoryBounded
<1>1. Init => HistInv
  <2> SUFFICES ASSUME Init PROVE HistInv
    OBVIOUS
  <2>1. Stored(revs) = {}
    <3>1. \A s \in Specs : ~(revs[s].num > 0)
      BY DEF Init, NoRev
    <3> QED BY <3>1 DEF Stored
  <2>2. Count = 0
    BY <2>1, FS_EmptySet DEF Count
  <2> QED BY <2>2 DEF Init, HistInv, Limit
<1>2. HistInv => HistoryBounded
  BY DEF HistInv, HistoryBounded, Count, Limit
<1> QED BY <1>1, <1>2, RevInvAlways, HistInvStep, PTL DEF Spec
=============================================================================
