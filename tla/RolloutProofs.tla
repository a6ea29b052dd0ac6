--------------------------- MODULE RolloutProofs ---------------------------
(***************************************************************************)
(* Theorems about Rollout, for every number of regions, templates,         *)
(* replicas, edits and faults.                                             *)
(***************************************************************************)
EXTENDS Rollout, FiniteFacts, FiniteSetTheorems, TLAPS

-----------------------------------------------------------------------------
(* Facts about the operators                                               *)

\* The replicas of finitely many subsets are finitely many.
LEMMA ReplicasFinite ==
    ASSUME NEW size \in [Templates -> Nat], NEW ts \in SUBSET Templates
    PROVE  /\ IsFiniteSet(UNION {{t} \X (1..size[t]) : t \in ts})
           /\ Cardinality(UNION {{t} \X (1..size[t]) : t \in ts}) \in Nat
<1> DEFINE f == [t \in ts |-> {t} \X (1..size[t])]
           R == {{t} \X (1..size[t]) : t \in ts}
<1>1. IsFiniteSet(ts)
  BY RolloutAssumption, FS_Subset
<1>2. f \in Surjection(ts, R)
  BY DEF Surjection
<1>3. IsFiniteSet(R)
  BY <1>1, <1>2, FS_Surjection
<1>4. ASSUME NEW t \in ts PROVE IsFiniteSet({t} \X (1..size[t]))
  <2>1. IsFiniteSet(1..size[t])
    <3>1. 1 \in Int /\ size[t] \in Int
      OBVIOUS
    <3> QED BY <3>1, FS_Interval
  <2> QED BY <2>1, FS_Singleton, FS_Product
<1>5. \A T \in R : IsFiniteSet(T)
  BY <1>4
<1>6. IsFiniteSet(UNION R)
  BY <1>3, <1>5, FS_UNION
<1> QED BY <1>6, FS_CardinalityType

\* The sum of the replicas of some subsets of a region is a number.
LEMMA SpecReplicasType ==
    ASSUME NEW ss \in [Templates -> Subset], NEW ts \in SUBSET Templates
    PROVE  SpecReplicas(ss, ts) \in Nat
<1> DEFINE size == [t \in Templates |-> ss[t].spec]
<1>1. size \in [Templates -> Nat]
  BY DEF Subset
<1>2. {{t} \X (1..ss[t].spec) : t \in ts} = {{t} \X (1..size[t]) : t \in ts}
  OBVIOUS
<1> HIDE DEF size
<1> QED BY <1>1, <1>2, ReplicasFinite DEF SpecReplicas

\* maxRevisionForSubsets returns a number, and no subset has a higher revision.
LEMMA MaxRevisionType ==
    ASSUME NEW ss \in [Templates -> Subset], NEW ts \in SUBSET Templates
    PROVE  MaxRevision(ss, ts) \in Nat /\ \A t \in ts : ss[t].rev <= MaxRevision(ss, ts)
<1> DEFINE f == [t \in ts |-> ss[t].rev]
           R == {ss[t].rev : t \in ts}
           S == {0} \cup R
<1>1. IsFiniteSet(ts)
  BY RolloutAssumption, FS_Subset
<1>2. f \in Surjection(ts, R)
  BY DEF Surjection
<1>3. IsFiniteSet(R)
  BY <1>1, <1>2, FS_Surjection
<1>4. IsFiniteSet(S)
  <2>1. S = R \cup {0}
    OBVIOUS
  <2> QED BY <1>3, <2>1, FS_AddElement
<1>5. S \in SUBSET Nat /\ S # {}
  BY DEF Subset
<1>6. \E m \in S : \A x \in S : x <= m
  BY <1>4, <1>5, FiniteMax
<1>7. \E m \in S : \A t \in ts : ss[t].rev <= m
  BY <1>6
<1> QED BY <1>5, <1>7 DEF MaxRevision

LEMMA OldsType ==
    ASSUME NEW ss, NEW t
    PROVE  Olds(ss, t) \in SUBSET Templates
BY DEF Olds

\* What regionSyncOnce and reconcileOldSubsets compute from a region is a number.
LEMMA CountsType ==
    ASSUME NEW ss \in [Templates -> Subset], NEW t \in Templates, NEW want \in Nat
    PROVE  /\ MaxCleanupCount(ss, t, want) \in Int
           /\ MinAvailable(want) \in Int
           /\ MaxScaleDown(ss, t, want) \in Int
           /\ SpecReplicas(ss, Olds(ss, t)) \in Nat
<1>1. SpecReplicas(ss, Olds(ss, t)) \in Nat
  BY OldsType, SpecReplicasType
<1>2. ss[t].spec \in Nat /\ ss[t].avail \in Nat
  BY DEF Subset
<1>3. MinAvailable(want) \in Int
  BY RolloutAssumption DEF MinAvailable
<1> QED BY <1>1, <1>2, <1>3 DEF MaxCleanupCount, MaxScaleDown

\* calculateStepSize never goes below zero and never past the size asked for.
LEMMA StepSizeType ==
    ASSUME NEW want \in Nat, NEW n \in Nat
    PROVE  /\ CalculateStepSize(want, n) \in Int
           /\ n + CalculateStepSize(want, n) \in Nat
           /\ want >= n => n + CalculateStepSize(want, n) \in n..want
           /\ want < n => n + CalculateStepSize(want, n) \in want..n
           /\ CalculateStepSize(want, n) <= BatchSize
BY RolloutAssumption DEF CalculateStepSize, Lesser

\* NewRSNewReplicas returns at least the current size.
LEMMA RollingReplicasType ==
    ASSUME NEW want \in Nat, NEW total \in Nat, NEW n \in Nat, n <= want
    PROVE  RollingReplicas(want, total, n) \in Nat
BY RolloutAssumption DEF RollingReplicas, Lesser

-----------------------------------------------------------------------------
(* The type invariant                                                      *)

\* Changing one field of a subset keeps its type.
LEMMA WriteType ==
    ASSUME NEW s \in Subset, NEW n \in Nat
    PROVE  /\ WithSpec(s, n) \in Subset /\ WithAvail(s, n) \in Subset
           /\ WithRev(s, n) \in Subset /\ Deleted(s) \in Subset
BY DEF Subset, WithSpec, WithAvail, WithRev, Deleted

\* Replacing one subset of one region keeps the type of the store.
LEMMA ReplaceType ==
    ASSUME NEW f \in [Regions -> [Templates -> Subset]],
           NEW r \in Regions, NEW t \in Templates, NEW s \in Subset
    PROVE  [f EXCEPT ![r][t] = s] \in [Regions -> [Templates -> Subset]]
OBVIOUS

LEMMA AbsentType == Absent \in Subset /\ NoSubsets \in [Regions -> [Templates -> Subset]]
BY DEF Absent, NoSubsets, Subset

LEMMA AnyRegionType == AnyRegion \in Regions
BY RolloutAssumption DEF AnyRegion

\* The informer's copy of well-typed subsets is well typed.
LEMMA PublishedType ==
    ASSUME StoreOK, Published, sub' \in [Regions -> [Templates -> Subset]],
           granted' \in [Regions -> BOOLEAN]
    PROVE  StoreOK'
BY DEF StoreOK, Published

LEMMA SetReplicasType ==
    ASSUME StoreOK, NEW r \in Regions, NEW t \in Templates, NEW n \in Nat,
           SetReplicas(r, t, n)
    PROVE  StoreOK'
<1>1. sub' \in [Regions -> [Templates -> Subset]]
  <2>1. WithSpec(sub[r][t], n) \in Subset
    BY WriteType DEF StoreOK
  <2>2. sub' = [sub EXCEPT ![r][t] = WithSpec(sub[r][t], n)]
    BY DEF SetReplicas
  <2> QED BY <2>1, <2>2, ReplaceType DEF StoreOK
<1>2. granted' \in [Regions -> BOOLEAN]
  BY DEF SetReplicas, StoreOK
<1> QED BY <1>1, <1>2, PublishedType DEF SetReplicas

LEMMA NoWriteType == StoreOK /\ NoWrite => StoreOK'
BY DEF StoreOK, NoWrite, storeVars

LEMMA ReturnType == Return => LoopOK' /\ pc' \in Steps
<1>1. NoSnap \in [tmpl : Templates, want : [Regions -> Nat],
                  confirm : {"none", "false", "true"}, progressing : BOOLEAN]
  BY RolloutAssumption DEF NoSnap
<1> QED BY <1>1, AbsentType, AnyRegionType DEF Return, LoopOK, Steps

\* NewSubset, where the subset exists: RaiseRevision.
LEMMA RaiseRevisionType ==
    ASSUME StoreOK, LoopOK, NEW r \in Regions, NEW rev \in Nat, RaiseRevision(r, rev)
    PROVE  StoreOK' /\ info' \in [Regions -> [Templates -> Subset]]
<1>1. snap.tmpl \in Templates
  BY DEF LoopOK
<1>2. CASE NoWrite /\ UNCHANGED info
  BY <1>2, NoWriteType DEF LoopOK
<1>3. CASE /\ sub' = [sub EXCEPT ![r][snap.tmpl] = WithRev(sub[r][snap.tmpl], rev)]
           /\ Published /\ UNCHANGED granted
           /\ info' = [info EXCEPT ![r][snap.tmpl] = WithRev(info[r][snap.tmpl], rev)]
  <2>1. WithRev(sub[r][snap.tmpl], rev) \in Subset /\ WithRev(info[r][snap.tmpl], rev) \in Subset
    BY <1>1, WriteType DEF StoreOK, LoopOK
  <2>2. sub' \in [Regions -> [Templates -> Subset]]
    BY <1>1, <1>3, <2>1, ReplaceType DEF StoreOK
  <2>3. info' \in [Regions -> [Templates -> Subset]]
    BY <1>1, <1>3, <2>1, ReplaceType DEF LoopOK
  <2> QED BY <1>3, <2>2, <2>3, PublishedType DEF StoreOK
<1> QED BY <1>2, <1>3 DEF RaiseRevision

\* The deployment the controller reads is well typed, from the cache or not.
LEMMA SeenType ==
    ASSUME UserOK, StatusOK
    PROVE  /\ Deployment \in [template : Templates, desired : [Regions -> Sizes],
                              confirm : {"none", "false", "true"}, cond : {"none", "True", "False"}]
           /\ Seen.template \in Templates /\ Seen.desired \in [Regions -> Sizes]
           /\ Seen.confirm \in {"none", "false", "true"}
<1>1. Deployment \in [template : Templates, desired : [Regions -> Sizes],
                      confirm : {"none", "false", "true"}, cond : {"none", "True", "False"}]
  BY DEF UserOK, StatusOK, Deployment
<1>2. seen \in [template : Templates, desired : [Regions -> Sizes],
                confirm : {"none", "false", "true"}, cond : {"none", "True", "False"}]
  BY DEF StatusOK
<1>3. Seen = seen \/ Seen = Deployment
  BY DEF Seen
<1> QED BY <1>1, <1>2, <1>3

\* Every step of the controller and of its environment keeps the types.
LEMMA TypeStep == TypeOK /\ [Next]_vars => TypeOK'
<1> SUFFICES ASSUME TypeOK, [Next]_vars PROVE TypeOK'
  OBVIOUS
<1> USE RolloutAssumption
<1>a. UserOK /\ StatusOK /\ StoreOK /\ LoopOK /\ pc \in Steps /\ faults \in 0..MaxFaults
  BY DEF TypeOK
<1>b. UNCHANGED userVars => UserOK'
  BY <1>a DEF UserOK, userVars
<1>c. UNCHANGED statusVars => StatusOK'
  BY <1>a DEF StatusOK, statusVars
<1>d. UNCHANGED storeVars => StoreOK'
  BY <1>a DEF StoreOK, storeVars
<1>e. UNCHANGED loopVars => LoopOK'
  BY <1>a DEF LoopOK, loopVars
<1>f. UNCHANGED faults => faults' \in 0..MaxFaults
  BY <1>a
<1>g. snap.tmpl \in Templates /\ snap.want \in [Regions -> Nat] /\ cur \in Regions
      /\ rest \subseteq Templates /\ todo \subseteq Regions /\ left \in Int
      /\ info \in [Regions -> [Templates -> Subset]]
  BY <1>a DEF LoopOK
<1>h. \A r \in Regions, t \in Templates :
        /\ info[r][t].spec \in Nat /\ info[r][t].avail \in Nat /\ info[r][t].rev \in Nat
        /\ sub[r][t].spec \in Nat /\ sub[r][t].avail \in Nat /\ sub[r][t].rev \in Nat
  BY <1>a DEF LoopOK, StoreOK, Subset
<1>i. \A r \in Regions : info[r] \in [Templates -> Subset] /\ snap.want[r] \in Nat
  BY <1>g
<1>j. \A r \in Regions : MaxRevision(info[r], Olds(info[r], snap.tmpl)) + 1 \in Nat
  BY <1>i, OldsType, MaxRevisionType
<1>1. CASE SyncRevisions
  BY <1>1, <1>a, <1>c, <1>d, <1>e, <1>f DEF SyncRevisions, TypeOK, UserOK
<1>2. CASE SyncRevisionsFails
  <2>1. UserOK'
    BY <1>2, <1>a, SeenType DEF SyncRevisionsFails, UserOK
  <2>2. faults' \in 0..MaxFaults
    BY <1>2, <1>a DEF SyncRevisionsFails
  <2> QED BY <1>2, <1>a, <1>c, <1>d, <1>e, <2>1, <2>2 DEF SyncRevisionsFails, TypeOK
<1>3. CASE ReconcileStart
  <2>1. LoopOK'
    <3>1. snap' \in [tmpl : Templates, want : [Regions -> Nat],
                     confirm : {"none", "false", "true"}, progressing : BOOLEAN]
      <4>1. Seen.desired \in [Regions -> Nat]
        BY <1>a, SeenType
      <4> QED BY <1>3, <1>a, <4>1, SeenType DEF ReconcileStart
    <3> QED BY <1>3, <1>a, <3>1 DEF ReconcileStart, LoopOK, StoreOK
  <2>2. pc' \in Steps
    BY <1>3 DEF ReconcileStart, Steps, TermFlags
  <2> QED BY <1>3, <1>b, <1>c, <1>d, <1>f, <2>1, <2>2 DEF ReconcileStart, TypeOK
<1>4. CASE CheckUpgradeConfirm
  <2>1. UserOK'
    BY <1>4, <1>a DEF CheckUpgradeConfirm, UserOK, UsedConfirm
  <2>2. LoopOK' /\ pc' \in Steps
    <3>1. Return \/ (UNCHANGED loopVars /\ pc' \in {"refresh", "manage"})
      BY <1>4 DEF CheckUpgradeConfirm
    <3> QED BY <1>e, <3>1, ReturnType DEF Steps
  <2> QED BY <1>4, <1>c, <1>d, <1>f, <2>1, <2>2 DEF CheckUpgradeConfirm, TypeOK
<1>5. CASE RefreshStatus
  BY <1>5, <1>a, <1>b, <1>d, <1>f, ReturnType DEF RefreshStatus, TypeOK, StatusOK
<1>6. CASE WaitStatus
  BY <1>6, <1>a, <1>b, <1>d, <1>f, ReturnType DEF WaitStatus, TypeOK, StatusOK
<1>7. CASE SaturatedStatus
  <2>1. UserOK' /\ StatusOK'
    BY <1>7, <1>a DEF SaturatedStatus, UserOK, StatusOK, statusVars
  <2>2. StoreOK'
    BY <1>7, <1>a DEF SaturatedStatus, StoreOK
  <2> QED BY <1>7, <1>e, <1>f, <2>1, <2>2 DEF SaturatedStatus, TypeOK, Steps
<1>8. ASSUME NEW r \in Regions, NewSubset(r) PROVE TypeOK'
  <2> DEFINE t == snap.tmpl
             olds == Olds(info[r], t)
             size == CASE UpdateStrategy = "ReCreate" -> CalculateStepSize(snap.want[r], 0)
                       [] UpdateStrategy = "RollingUpdate" ->
                             RollingReplicas(snap.want[r], SpecReplicas(info[r], olds), 0)
                       [] UpdateStrategy = "DeleteAllFirst" -> snap.want[r]
             new == [live |-> TRUE, spec |-> size, avail |-> 0,
                     rev |-> MaxRevision(info[r], olds) + 1]
  <2>1. size \in Nat
    <3>1. CASE UpdateStrategy = "ReCreate"
      <4>1. 0 + CalculateStepSize(snap.want[r], 0) \in Nat /\ CalculateStepSize(snap.want[r], 0) \in Int
        BY <1>i, StepSizeType
      <4> QED BY <3>1, <4>1
    <3>2. CASE UpdateStrategy = "RollingUpdate"
      <4>1. SpecReplicas(info[r], olds) \in Nat /\ snap.want[r] \in Nat
        BY <1>i, <1>g, CountsType
      <4>a. 0 \in Nat /\ 0 <= snap.want[r]
        BY <4>1
      <4>2. RollingReplicas(snap.want[r], SpecReplicas(info[r], olds), 0) \in Nat
        BY <4>1, <4>a, RollingReplicasType
      <4> QED BY <3>2, <4>2
    <3>3. CASE UpdateStrategy = "DeleteAllFirst"
      BY <3>3, <1>i
    <3> QED BY <3>1, <3>2, <3>3
  <2>2. new \in Subset
    <3>1. MaxRevision(info[r], olds) + 1 \in Nat
      BY <1>j
    <3> HIDE DEF size, olds
    <3> QED BY <2>1, <3>1 DEF Subset
  <2>3. NoWrite \/ (sub' = [sub EXCEPT ![r][t] = new] /\ Published
                     /\ granted' = [granted EXCEPT ![r] = FALSE])
    BY <1>8 DEF NewSubset
  <2>4. StoreOK'
    <3> HIDE DEF new
    <3>1. CASE NoWrite
      BY <1>a, <3>1, NoWriteType
    <3>2. CASE /\ sub' = [sub EXCEPT ![r][t] = new] /\ Published
               /\ granted' = [granted EXCEPT ![r] = FALSE]
      <4>1. sub' \in [Regions -> [Templates -> Subset]]
        BY <1>a, <1>g, <2>2, <3>2, ReplaceType DEF StoreOK
      <4>2. granted' \in [Regions -> BOOLEAN]
        BY <1>a, <3>2 DEF StoreOK
      <4> QED BY <1>a, <3>2, <4>1, <4>2, PublishedType
    <3> QED BY <2>3, <3>1, <3>2
  <2> QED BY <1>8, <1>b, <1>c, <1>f, <2>4, ReturnType DEF NewSubset, TypeOK
<1>9. ASSUME NEW r \in Regions, RecreateRegion(r) PROVE TypeOK'
  <2> DEFINE rev == MaxRevision(info[r], Olds(info[r], snap.tmpl)) + 1
  <2>1. CASE RaiseRevisionFails(r, rev)
    BY <1>9, <2>1, <1>a, <1>b, <1>c, <1>f, ReturnType, NoWriteType
       DEF RecreateRegion, RaiseRevisionFails, TypeOK
  <2>2. CASE /\ RaiseRevision(r, rev)
             /\ pc' = "cleanup" /\ cur' = r /\ rest' = Olds(info[r], snap.tmpl)
             /\ todo' = todo \ {r}
             /\ left' = MaxCleanupCount(info[r], snap.tmpl, snap.want[r])
             /\ UNCHANGED snap
    <3>1. StoreOK' /\ info' \in [Regions -> [Templates -> Subset]]
      BY <1>a, <1>j, <2>2, RaiseRevisionType
    <3>2. left' \in Int
      BY <1>g, <1>i, <2>2, CountsType
    <3>3. LoopOK'
      BY <1>a, <2>2, <3>1, <3>2, OldsType DEF LoopOK
    <3> QED BY <1>9, <2>2, <1>b, <1>c, <1>f, <3>1, <3>3 DEF RecreateRegion, TypeOK, Steps
  <2> QED BY <1>9, <2>1, <2>2 DEF RecreateRegion
<1>10. ASSUME NEW o \in Templates, CleanupUnhealthyReplicas(o) PROVE TypeOK'
  <2> DEFINE old == info[cur][o]
             count == Lesser(old.spec - old.avail, left)
             Go == left' = left - count /\ rest' = rest \ {o} /\ UNCHANGED <<pc, snap, todo, cur>>
  <2>1. count \in Int /\ (left > 0 /\ old.avail < old.spec => old.spec - count \in Nat)
    BY <1>g, <1>h DEF Lesser
  <2>2. left > 0
    BY <1>10 DEF CleanupUnhealthyReplicas
  <2> HIDE DEF count
  <2>3. CASE NoWrite /\ (Return \/ (pc' = "manage" /\ UNCHANGED loopVars))
    BY <1>10, <2>3, <1>a, <1>b, <1>c, <1>e, <1>f, ReturnType, NoWriteType
       DEF CleanupUnhealthyReplicas, TypeOK, Steps
  <2>4. CASE /\ Go
             /\ StoreOK' /\ info' \in [Regions -> [Templates -> Subset]]
    <3>1. LoopOK'
      BY <1>a, <2>1, <2>4 DEF LoopOK
    <3> QED BY <1>10, <2>4, <1>a, <1>b, <1>c, <1>f, <3>1 DEF CleanupUnhealthyReplicas, TypeOK
  <2>5. ASSUME NoWrite, UNCHANGED info
        PROVE  StoreOK' /\ info' \in [Regions -> [Templates -> Subset]]
    BY <2>5, <1>a, <1>g, NoWriteType
  <2>6. ASSUME sub' = [sub EXCEPT ![cur][o] = Absent], Published, UNCHANGED granted,
               info' = [info EXCEPT ![cur][o] = Deleted(old)]
        PROVE  StoreOK' /\ info' \in [Regions -> [Templates -> Subset]]
    <3>1. sub' \in [Regions -> [Templates -> Subset]]
      BY <1>a, <1>g, <2>6, AbsentType, ReplaceType DEF StoreOK
    <3>2. Deleted(old) \in Subset
      BY <1>g, WriteType
    <3>3. info' \in [Regions -> [Templates -> Subset]]
      BY <1>g, <2>6, <3>2, ReplaceType
    <3> QED BY <1>a, <2>6, <3>1, <3>3, PublishedType DEF StoreOK
  <2>7. ASSUME old.avail < old.spec, SetReplicas(cur, o, old.spec - count),
               info' = [info EXCEPT ![cur][o] = WithSpec(old, old.spec - count)]
        PROVE  StoreOK' /\ info' \in [Regions -> [Templates -> Subset]]
    <3>1. old.spec - count \in Nat
      BY <2>1, <2>2, <2>7
    <3>2. WithSpec(old, old.spec - count) \in Subset
      BY <1>g, <3>1, WriteType
    <3>3. info' \in [Regions -> [Templates -> Subset]]
      BY <1>g, <2>7, <3>2, ReplaceType
    <3> QED BY <1>a, <1>g, <2>7, <3>1, <3>3, SetReplicasType
  <2> DEFINE Fail == Return \/ (pc' = "manage" /\ UNCHANGED loopVars)
             Delete == /\ sub' = [sub EXCEPT ![cur][o] = Absent] /\ Published /\ UNCHANGED granted
                       /\ info' = [info EXCEPT ![cur][o] = Deleted(old)]
             Scale == /\ old.avail < old.spec /\ SetReplicas(cur, o, old.spec - count)
                      /\ info' = [info EXCEPT ![cur][o] = WithSpec(old, old.spec - count)]
  <2>8. (NoWrite /\ Fail) \/ (Go /\ ((NoWrite /\ UNCHANGED info) \/ Delete \/ Scale))
    BY <1>10 DEF CleanupUnhealthyReplicas, count
  <2>9. Go /\ ((NoWrite /\ UNCHANGED info) \/ Delete \/ Scale) => TypeOK'
    <3> HIDE DEF Go
    <3> QED BY <2>4, <2>5, <2>6, <2>7
  <2> HIDE DEF Go, Delete, Scale
  <2> QED BY <2>3, <2>8, <2>9
<1>11. CASE CleanupDone
  <2>1. LoopOK'
    BY <1>11, <1>a, OldsType DEF CleanupDone, LoopOK
  <2> QED BY <1>11, <1>b, <1>c, <1>d, <1>f, <2>1 DEF CleanupDone, TypeOK, Steps
<1>12. ASSUME NEW o \in Templates, ShrinkOld(o) PROVE TypeOK'
  <2> DEFINE old == info[cur][o]
  <2>1. CASE NoWrite /\ Return
    BY <1>12, <2>1, <1>a, <1>b, <1>c, <1>f, ReturnType, NoWriteType DEF ShrinkOld, TypeOK
  <2>2. CASE /\ NoWrite \/ (old.spec > left /\ SetReplicas(cur, o, old.spec - left))
             /\ pc' = "grow" /\ UNCHANGED loopVars
    <3>1. old.spec > left /\ left > 0 => old.spec - left \in Nat
      BY <1>g, <1>h
    <3>2. StoreOK'
      <4>1. CASE NoWrite
        BY <1>a, <4>1, NoWriteType
      <4>2. CASE old.spec > left /\ left > 0 /\ SetReplicas(cur, o, old.spec - left)
        BY <1>a, <1>g, <3>1, <4>2, SetReplicasType
      <4> QED BY <1>12, <2>2, <4>1, <4>2 DEF ShrinkOld
    <3> QED BY <1>12, <2>2, <1>b, <1>c, <1>e, <1>f, <3>2 DEF ShrinkOld, TypeOK, Steps
  <2>3. CASE /\ left' = left - old.spec /\ rest' = rest \ {o}
             /\ NoWrite /\ UNCHANGED <<pc, snap, info, todo, cur>>
    <3>1. LoopOK'
      BY <1>a, <1>h, <1>g, <2>3 DEF LoopOK
    <3> QED BY <1>12, <2>3, <1>a, <1>b, <1>c, <1>f, <3>1, NoWriteType DEF ShrinkOld, TypeOK
  <2> QED BY <1>12, <2>1, <2>2, <2>3 DEF ShrinkOld
<1>13. CASE ShrinkDone
  BY <1>13, <1>b, <1>c, <1>d, <1>e, <1>f DEF ShrinkDone, TypeOK, Steps
<1>14. CASE GrowNew
  <2> DEFINE new == info[cur][snap.tmpl]
             n == IF UpdateStrategy = "DeleteAllFirst" THEN snap.want[cur]
                  ELSE new.spec + CalculateStepSize(snap.want[cur], new.spec)
  <2>1. n \in Nat
    BY <1>g, <1>h, <1>i, StepSizeType
  <2> HIDE DEF n
  <2>2. CASE NoWrite /\ Return
    BY <1>14, <2>2, <1>a, <1>b, <1>c, <1>f, ReturnType, NoWriteType DEF GrowNew, TypeOK
  <2>3. CASE (NoWrite \/ SetReplicas(cur, snap.tmpl, n)) /\ pc' = "manage" /\ UNCHANGED loopVars
    <3>1. StoreOK'
      BY <1>a, <1>g, <2>1, <2>3, NoWriteType, SetReplicasType
    <3> QED BY <1>14, <2>3, <1>b, <1>c, <1>e, <1>f, <3>1 DEF GrowNew, TypeOK, Steps
  <2> QED BY <1>14, <2>2, <2>3 DEF GrowNew, n
<1>15. ASSUME NEW r \in Regions, RollingRegion(r) PROVE TypeOK'
  <2> DEFINE new == info[r][snap.tmpl]
             want == snap.want[r]
             total == SpecReplicas(info[r], Olds(info[r], snap.tmpl)) + new.spec
             n == IF new.spec >= want THEN want ELSE RollingReplicas(want, total, new.spec)
             room == MaxScaleDown(info[r], snap.tmpl, want)
  <2>1. total \in Nat /\ want \in Nat /\ new.spec \in Nat /\ room \in Int
    <3>1. SpecReplicas(info[r], Olds(info[r], snap.tmpl)) \in Nat /\ room \in Int
      BY <1>g, <1>i, CountsType
    <3>2. want \in Nat /\ new.spec \in Nat
      BY <1>g, <1>h, <1>i
    <3> HIDE DEF want, new, room
    <3> QED BY <3>1, <3>2
  <2> HIDE DEF total, want, new, room
  <2>2. n \in Nat
    <3>1. CASE new.spec >= want
      BY <2>1, <3>1
    <3>2. CASE new.spec <= want
      BY <2>1, <3>2, RollingReplicasType
    <3> QED BY <2>1, <3>1, <3>2
  <2> HIDE DEF n
  <2>3. CASE NoWrite /\ Return
    BY <1>15, <2>3, <1>a, <1>b, <1>c, <1>f, ReturnType, NoWriteType DEF RollingRegion, TypeOK
  <2>4. CASE /\ NoWrite \/ SetReplicas(r, snap.tmpl, n)
             /\ pc' = (IF total = new.spec \/ room <= 0 THEN "manage" ELSE "cleanup")
             /\ cur' = r /\ rest' = Olds(info[r], snap.tmpl) /\ left' = room
             /\ todo' = todo \ {r} /\ UNCHANGED <<snap, info>>
    <3>1. StoreOK'
      BY <1>a, <1>g, <2>2, <2>4, NoWriteType, SetReplicasType
    <3>2. LoopOK' /\ pc' \in Steps
      BY <1>a, <2>1, <2>4, OldsType DEF LoopOK, Steps
    <3> QED BY <1>15, <1>b, <1>c, <1>f, <3>1, <3>2 DEF RollingRegion, TypeOK
  <2> QED BY <1>15, <2>3, <2>4 DEF RollingRegion, n, total, want, new, room
<1>16. CASE RollOlds
  <2>1. left' \in Int
    <3>1. /\ SpecReplicas(info[cur], Olds(info[cur], snap.tmpl)) \in Nat
          /\ MinAvailable(snap.want[cur]) \in Int
      BY <1>g, <1>i, CountsType
    <3> QED BY <1>16, <1>g, <1>h, <3>1 DEF RollOlds
  <2>2. LoopOK'
    BY <1>16, <1>a, <2>1 DEF RollOlds, LoopOK
  <2> QED BY <1>16, <1>b, <1>c, <1>d, <1>f, <2>2 DEF RollOlds, TypeOK, Steps
<1>17. ASSUME NEW o \in Templates, RollOld(o) PROVE TypeOK'
  <2> DEFINE old == info[cur][o]
             count == Lesser(old.spec, left)
  <2>1. count \in Int /\ (left > 0 => old.spec - count \in Nat)
    BY <1>g, <1>h DEF Lesser
  <2>2. left > 0
    BY <1>17 DEF RollOld
  <2> HIDE DEF count
  <2>3. CASE NoWrite /\ pc' = "manage" /\ UNCHANGED loopVars
    BY <1>17, <2>3, <1>a, <1>b, <1>c, <1>e, <1>f, NoWriteType DEF RollOld, TypeOK, Steps
  <2>4. CASE /\ SetReplicas(cur, o, old.spec - count)
             /\ left' = left - count /\ rest' = rest \ {o}
             /\ UNCHANGED <<pc, snap, info, todo, cur>>
    <3>1. StoreOK'
      BY <1>a, <1>g, <2>1, <2>2, <2>4, SetReplicasType
    <3>2. LoopOK'
      BY <1>a, <2>1, <2>4 DEF LoopOK
    <3> QED BY <1>17, <2>4, <1>a, <1>b, <1>c, <1>f, <3>1, <3>2 DEF RollOld, TypeOK
  <2> QED BY <1>17, <2>3, <2>4 DEF RollOld, count
<1>18. CASE RollOldDone
  BY <1>18, <1>b, <1>c, <1>d, <1>e, <1>f DEF RollOldDone, TypeOK, Steps
<1>19. ASSUME NEW r \in Regions, DeleteAllFirstRegion(r) PROVE TypeOK'
  <2> DEFINE rev == MaxRevision(info[r], Olds(info[r], snap.tmpl)) + 1
             sized == Sized(info[r], Olds(info[r], snap.tmpl))
  <2>1. CASE /\ pc' = "deleteAll" /\ cur' = r /\ rest' = sized /\ todo' = {}
             /\ NoWrite /\ UNCHANGED <<snap, info, left>>
    <3>1. sized \subseteq Templates
      BY DEF Sized, Olds
    <3>2. LoopOK'
      BY <1>a, <2>1, <3>1 DEF LoopOK
    <3> QED BY <1>19, <2>1, <1>a, <1>b, <1>c, <1>f, <3>2, NoWriteType
            DEF DeleteAllFirstRegion, TypeOK, Steps
  <2>2. CASE pc' = "refresh" /\ NoWrite /\ UNCHANGED loopVars
    BY <1>19, <2>2, <1>a, <1>b, <1>c, <1>e, <1>f, NoWriteType
       DEF DeleteAllFirstRegion, TypeOK, Steps
  <2>3. CASE /\ RaiseRevision(r, rev)
             /\ pc' = "grow" /\ cur' = r /\ todo' = {} /\ UNCHANGED <<snap, rest, left>>
    <3>1. StoreOK' /\ info' \in [Regions -> [Templates -> Subset]]
      BY <1>a, <1>j, <2>3, RaiseRevisionType
    <3>2. LoopOK'
      BY <1>a, <2>3, <3>1 DEF LoopOK
    <3> QED BY <1>19, <2>3, <1>b, <1>c, <1>f, <3>1, <3>2 DEF DeleteAllFirstRegion, TypeOK, Steps
  <2>4. CASE RaiseRevisionFails(r, rev)
    BY <1>19, <2>4, <1>a, <1>b, <1>c, <1>f, ReturnType, NoWriteType
       DEF DeleteAllFirstRegion, RaiseRevisionFails, TypeOK
  <2> QED BY <1>19, <2>1, <2>2, <2>3, <2>4 DEF DeleteAllFirstRegion
<1>20. CASE DeleteAllDone
  BY <1>20, <1>b, <1>c, <1>d, <1>e, <1>f DEF DeleteAllDone, TypeOK, Steps
<1>21. ASSUME NEW r \in Regions, CleanRegion(r) PROVE TypeOK'
  <2>1. Sized(info[r], Olds(info[r], snap.tmpl)) \subseteq Templates
    BY DEF Sized, Olds
  <2>2. LoopOK'
    BY <1>21, <1>a, <2>1 DEF CleanRegion, LoopOK
  <2> QED BY <1>21, <1>b, <1>c, <1>d, <1>f, <2>2 DEF CleanRegion, TypeOK, Steps
<1>22. ASSUME NEW o \in Templates, SweepOld(o) PROVE TypeOK'
  <2>1. CASE NoWrite /\ Return
    BY <1>22, <2>1, <1>a, <1>b, <1>c, <1>f, ReturnType, NoWriteType DEF SweepOld, TypeOK
  <2>2. CASE SetReplicas(cur, o, 0) /\ rest' = rest \ {o} /\ UNCHANGED <<pc, snap, info, todo, cur, left>>
    <3>1. StoreOK'
      BY <1>a, <1>g, <2>2, SetReplicasType
    <3>2. LoopOK'
      BY <1>a, <2>2 DEF LoopOK
    <3> QED BY <1>22, <2>2, <1>a, <1>b, <1>c, <1>f, <3>1, <3>2 DEF SweepOld, TypeOK
  <2> QED BY <1>22, <2>1, <2>2 DEF SweepOld
<1>23. ASSUME NEW o \in Templates, DeleteSubset(o) PROVE TypeOK'
  <2>1. sub' = [sub EXCEPT ![cur][o] = Absent] /\ Published
    BY <1>23 DEF DeleteSubset
  <2>2. sub' \in [Regions -> [Templates -> Subset]]
    BY <1>a, <1>g, <2>1, AbsentType, ReplaceType DEF StoreOK
  <2>3. StoreOK'
    BY <1>23, <1>a, <2>1, <2>2, PublishedType DEF DeleteSubset, StoreOK
  <2>4. LoopOK' /\ pc' \in Steps
    BY <1>23, <1>a DEF DeleteSubset, LoopOK
  <2> QED BY <1>23, <1>b, <1>c, <1>f, <2>3, <2>4 DEF DeleteSubset, TypeOK
<1>24. CASE CleanDone
  BY <1>24, <1>b, <1>c, <1>d, <1>f, ReturnType DEF CleanDone, TypeOK
<1>25. CASE Abort
  <2>1. faults' \in 0..MaxFaults
    BY <1>25, <1>a DEF Abort
  <2> QED BY <1>25, <1>b, <1>c, <1>d, <2>1, ReturnType DEF Abort, TypeOK
<1>26. ASSUME NEW t \in Templates, UserApply(t) PROVE TypeOK'
  <2>1. UserOK' /\ StoreOK'
    BY <1>26, <1>a DEF UserApply, UserOK, StoreOK
  <2> QED BY <1>26, <1>a, <1>c, <1>e, <1>f, <2>1 DEF UserApply, TypeOK
<1>27. ASSUME NEW r \in Regions, NEW n \in Sizes, UserScale(r, n) PROVE TypeOK'
  <2>1. UserOK' /\ StoreOK'
    BY <1>27, <1>a DEF UserScale, UserOK, StoreOK
  <2> QED BY <1>27, <1>a, <1>c, <1>e, <1>f, <2>1 DEF UserScale, TypeOK
<1>28. CASE UserConfirm
  <2>1. UserOK' /\ StoreOK'
    BY <1>28, <1>a DEF UserConfirm, UserOK, StoreOK
  <2> QED BY <1>28, <1>a, <1>c, <1>e, <1>f, <2>1 DEF UserConfirm, TypeOK
<1>29. CASE Timeout
  BY <1>29, <1>a, <1>b, <1>d, <1>e, <1>f DEF Timeout, TypeOK, StatusOK
<1>30. ASSUME NEW r \in Regions, NEW t \in Templates, NEW n \in Nat, SetAvailable(r, t, n),
              faults' \in 0..MaxFaults
       PROVE  TypeOK'
  <2>1. WithAvail(sub[r][t], n) \in Subset
    <3>1. sub[r][t] \in Subset
      BY <1>a DEF StoreOK
    <3> QED BY <3>1, WriteType
  <2>2. sub' = [sub EXCEPT ![r][t] = WithAvail(sub[r][t], n)]
    BY <1>30 DEF SetAvailable
  <2>3. sub' \in [Regions -> [Templates -> Subset]]
    BY <1>a, <2>1, <2>2, ReplaceType DEF StoreOK
  <2>4. StoreOK'
    BY <1>30, <1>a, <2>3, PublishedType DEF SetAvailable, StoreOK
  <2> QED BY <1>30, <1>a, <1>b, <1>c, <1>e, <2>4 DEF SetAvailable, TypeOK
<1>31. ASSUME NEW r \in Regions, NEW t \in Templates, PodAvailable(r, t) PROVE TypeOK'
  <2>1. sub[r][t].avail + 1 \in Nat
    BY <1>h
  <2> QED BY <1>31, <1>f, <1>30, <2>1 DEF PodAvailable
<1>32. ASSUME NEW r \in Regions, NEW t \in Templates, PodsRemoved(r, t) PROVE TypeOK'
  BY <1>32, <1>f, <1>h, <1>30 DEF PodsRemoved
<1>33. ASSUME NEW r \in Regions, NEW t \in Templates, PodFails(r, t) PROVE TypeOK'
  <2>1. sub[r][t].avail > 0 => sub[r][t].avail - 1 \in Nat
    BY <1>h
  <2>2. faults' \in 0..MaxFaults
    BY <1>33, <1>a DEF PodFails
  <2> QED BY <1>33, <1>30, <2>1, <2>2 DEF PodFails
<1>34. ASSUME NEW r \in Regions, NEW t \in Templates, CacheSync(r, t) PROVE TypeOK'
  <2>1. StoreOK'
    BY <1>34, <1>a, ReplaceType DEF CacheSync, StoreOK
  <2> QED BY <1>34, <1>a, <1>b, <1>c, <1>e, <1>f, <2>1 DEF CacheSync, TypeOK
<1>36. CASE StatusConflict
  BY <1>36, <1>b, <1>c, <1>d, <1>f, ReturnType DEF StatusConflict, TypeOK
<1>37. CASE DeploymentSync
  <2>1. StatusOK'
    BY <1>37, <1>a, SeenType DEF DeploymentSync, StatusOK
  <2> QED BY <1>37, <1>a, <1>b, <1>d, <1>e, <1>f, <2>1 DEF DeploymentSync, TypeOK
<1>38. CASE CleanOldSubsets
  <2>1. rest' \subseteq Olds(info[cur], snap.tmpl) /\ pc' = "delete"
        /\ UNCHANGED <<snap, info, todo, cur, left>>
    BY <1>38 DEF CleanOldSubsets
  <2>2. LoopOK'
    BY <1>a, <2>1, OldsType DEF LoopOK
  <2> QED BY <1>38, <1>b, <1>c, <1>d, <1>f, <2>1, <2>2 DEF CleanOldSubsets, TypeOK, Steps
<1>39. CASE CleanOldDone
  BY <1>39, <1>b, <1>c, <1>d, <1>e, <1>f DEF CleanOldDone, TypeOK, Steps
<1>35. CASE UNCHANGED vars
  <2>1. UNCHANGED <<userVars, statusVars, storeVars, loopVars, pc, faults>>
    BY <1>35 DEF vars, userVars, statusVars, storeVars, loopVars
  <2> QED BY <2>1, <1>a, <1>b, <1>c, <1>d, <1>e, <1>f DEF TypeOK
<1> QED
  BY <1>1, <1>2, <1>3, <1>4, <1>5, <1>6, <1>7, <1>8, <1>9, <1>10, <1>11, <1>12, <1>13, <1>14,
     <1>15, <1>16, <1>17, <1>18, <1>19, <1>20, <1>21, <1>22, <1>23, <1>24, <1>25, <1>26, <1>27,
     <1>28, <1>29, <1>31, <1>32, <1>33, <1>34, <1>35, <1>36, <1>37, <1>38, <1>39
     DEF Next, Controller

LEMMA TypeInit == Init => TypeOK
<1> SUFFICES ASSUME Init PROVE TypeOK
  OBVIOUS
<1> USE RolloutAssumption
<1>1. UserOK /\ StatusOK
  <2>1. UserOK /\ cond \in {"none", "True", "False"}
    BY DEF Init, UserOK
  <2>2. seen \in [template : Templates, desired : [Regions -> Sizes],
                  confirm : {"none", "false", "true"}, cond : {"none", "True", "False"}]
    BY <2>1 DEF Init, Deployment, UserOK
  <2> QED BY <2>1, <2>2 DEF Init, StatusOK
<1>2. StoreOK
  <2>1. \A r \in Regions : desired[r] \in Nat
    BY DEF Init
  <2>2. \A n \in Nat : Running(n) \in Subset
    BY DEF Running, Subset
  <2>3. sub \in [Regions -> [Templates -> Subset]]
    BY <2>1, <2>2, AbsentType DEF Init
  <2> QED BY <2>3 DEF Init, StoreOK
<1>3. LoopOK /\ pc \in Steps
  <2>1. NoSnap \in [tmpl : Templates, want : [Regions -> Nat],
                    confirm : {"none", "false", "true"}, progressing : BOOLEAN]
    BY DEF NoSnap
  <2> QED BY <2>1, AbsentType, AnyRegionType DEF Init, LoopOK, Steps
<1> QED BY <1>1, <1>2, <1>3 DEF Init, TypeOK

\* The type invariant, for every number of regions, templates, replicas, edits
\* and faults, with caches however stale: no write of ScaleSubset or
\* CreateSubset ever asks for a negative number of replicas.
THEOREM TypeCorrect == Spec => []TypeOK
BY TypeInit, TypeStep, PTL DEF Spec
-----------------------------------------------------------------------------
(* One group at a time                                                     *)

\* The reconcile may still make the new subset of r larger.
Pending(r) ==
    \/ pc = "confirm"
    \/ pc = "manage" /\ r \in todo
    \/ pc \in {"cleanup", "shrink", "grow"} /\ cur = r

\* What the reconcile knows of the new subset of r still holds in the API
\* server: its size, and that its last group is available unless it must shrink.
Ready(r) ==
    LET new == info[r][snap.tmpl]
    IN  new.live => /\ sub[r][snap.tmpl].spec = new.spec
                    /\ snap.want[r] < new.spec \/ sub[r][snap.tmpl].avail >= new.spec

\* The sizes the reconcile has read of the subsets of r still hold.
Copied(r) == \A t \in Templates : info[r][t].live => sub[r][t].spec = info[r][t].spec

\* The inductive invariant behind OneGroupInFlight.
GroupInv ==
    /\ OneGroupInFlight
    /\ cache = sub
    /\ \A r \in Regions : Pending(r) => Ready(r) /\ (pc # "grow" => Copied(r))
    /\ pc \in {"cleanup", "shrink", "grow"} => info[cur][snap.tmpl].live
    /\ pc \in {"cleanup", "shrink"} =>
          snap.tmpl \notin rest /\ \A o \in rest : info[cur][o].live
    /\ pc \in {"cleanup", "shrink", "grow"} => cur \notin todo
    /\ pc \notin {"rollOld", "deleteAll"}

\* The deployments the theorem is about: strategy ReCreate, one region, a cache
\* of the subsets that does not lag (that of the deployment may), and no faults.
GroupScope ==
    /\ UpdateStrategy = "ReCreate" /\ \A r, x \in Regions : r = x
    /\ "subsets" \notin Lagging /\ MaxFaults = 0

\* Replacing one subset by one with at most a group of unavailable pods.
LEMMA OneGroupWrite ==
    ASSUME TypeOK, OneGroupInFlight, NEW r \in Regions, NEW t \in Templates,
           NEW s \in Subset, s.spec <= s.avail + BatchSize,
           sub' = [sub EXCEPT ![r][t] = s]
    PROVE  OneGroupInFlight'
BY DEF OneGroupInFlight, TypeOK, StoreOK

\* Making a subset smaller keeps the bound.
LEMMA OneGroupShrink ==
    ASSUME TypeOK, OneGroupInFlight, NEW r \in Regions, NEW t \in Templates,
           NEW n \in Nat, n <= sub[r][t].avail + BatchSize, SetReplicas(r, t, n)
    PROVE  OneGroupInFlight' /\ sub' = [sub EXCEPT ![r][t] = WithSpec(sub[r][t], n)]
<1> DEFINE s == WithSpec(sub[r][t], n)
<1>1. s \in Subset /\ s.spec = n /\ s.avail = sub[r][t].avail
  BY WriteType DEF TypeOK, StoreOK, WithSpec
<1>2. sub' = [sub EXCEPT ![r][t] = s]
  BY DEF SetReplicas
<1> HIDE DEF s
<1>3. OneGroupInFlight'
  BY <1>1, <1>2, OneGroupWrite
<1> QED BY <1>2, <1>3 DEF s

\* A cache that does not lag follows every write.
LEMMA FreshCache == GroupScope /\ Published => cache' = sub'
BY DEF GroupScope, Published

\* A step that writes no subset and leaves the reconcile outside the stretch in
\* which a group may start.
LEMMA GroupOutside ==
    ASSUME GroupInv, UNCHANGED <<sub, cache>>,
           pc' \notin {"confirm", "manage", "cleanup", "shrink", "grow", "rollOld", "deleteAll"}
    PROVE  GroupInv'
BY DEF GroupInv, OneGroupInFlight, Pending

\* A step that writes no subset and does not touch the reconcile.
LEMMA GroupFrame ==
    ASSUME GroupInv, UNCHANGED <<sub, cache, pc, loopVars>>
    PROVE  GroupInv'
BY DEF GroupInv, OneGroupInFlight, Pending, Ready, Copied, loopVars

\* Every step keeps the invariant.
LEMMA GroupStep ==
    ASSUME GroupScope, TypeOK, GroupInv, [Next]_vars
    PROVE  GroupInv'
<1> USE RolloutAssumption
<1>a. /\ info \in [Regions -> [Templates -> Subset]] /\ sub \in [Regions -> [Templates -> Subset]]
      /\ cur \in Regions /\ rest \subseteq Templates /\ snap.tmpl \in Templates /\ left \in Int
      /\ snap.want \in [Regions -> Nat] /\ template \in Templates /\ desired \in [Regions -> Nat]
      /\ Seen.template \in Templates /\ todo \subseteq Regions
  BY SeenType DEF TypeOK, UserOK, StoreOK, LoopOK
<1>b. \A r \in Regions, t \in Templates :
        /\ info[r][t].spec \in Nat /\ info[r][t].avail \in Nat /\ info[r][t].live \in BOOLEAN
        /\ sub[r][t].spec \in Nat /\ sub[r][t].avail \in Nat /\ sub[r][t].live \in BOOLEAN
  BY <1>a DEF Subset
<1>c. /\ OneGroupInFlight /\ cache = sub /\ pc \notin {"rollOld", "deleteAll"}
      /\ \A r \in Regions : Pending(r) => Ready(r) /\ (pc # "grow" => Copied(r))
      /\ pc \in {"cleanup", "shrink", "grow"} => info[cur][snap.tmpl].live
      /\ pc \in {"cleanup", "shrink"} =>
            snap.tmpl \notin rest /\ \A o \in rest : info[cur][o].live
      /\ pc \in {"cleanup", "shrink", "grow"} => cur \notin todo
  BY DEF GroupInv
<1>d. UNCHANGED storeVars => UNCHANGED <<sub, cache>>
  BY DEF storeVars
<1>e. NoWrite => UNCHANGED <<sub, cache>>
  BY DEF NoWrite, storeVars
<1>f. Return => pc' = "idle"
  BY DEF Return
<1>g. NoWrite /\ Return => GroupInv'
  BY <1>e, <1>f, GroupOutside
<1>h. UpdateStrategy = "ReCreate" /\ MaxFaults = 0 /\ \A r, x \in Regions : r = x
  BY DEF GroupScope
<1>1. CASE SyncRevisions \/ SyncRevisionsFails \/ UserConfirm \/ Timeout \/ DeploymentSync
           \/ (\E t \in Templates : UserApply(t)) \/ (\E r \in Regions, n \in Sizes : UserScale(r, n))
  BY <1>1, <1>d, GroupFrame
     DEF SyncRevisions, SyncRevisionsFails, UserConfirm, Timeout, UserApply, UserScale, DeploymentSync
<1>2. CASE ReconcileStart
  <2>1. /\ UNCHANGED <<sub, cache>> /\ info' = cache /\ snap'.tmpl = Seen.template
        /\ snap'.want = Seen.desired
    BY <1>2, <1>d DEF ReconcileStart
  <2>2. OneGroupInFlight' /\ cache' = sub'
    BY <1>c, <2>1 DEF OneGroupInFlight
  <2>3. \A r \in Regions : Copied(r)'
    BY <1>c, <2>1 DEF Copied
  <2>4. pc' \notin {"cleanup", "shrink", "grow", "rollOld", "deleteAll"}
    BY <1>2 DEF ReconcileStart, TermFlags
  <2>5. ASSUME NEW r \in Regions, Pending(r)' PROVE Ready(r)'
    <3>1. pc' \in {"confirm", "manage"}
      BY <2>4, <2>5 DEF Pending
    <3>2. PICK flag \in TermFlags(cache, Seen.template, Seen.desired) : flag \in {"init", "ready"}
      BY <1>2, <3>1 DEF ReconcileStart, TermFlags
    <3>3. CASE flag = "init"
      <4>1. ~cache[r][Seen.template].live
        BY <1>h, <3>2, <3>3 DEF TermFlags
      <4> QED BY <2>1, <4>1 DEF Ready
    <3>4. CASE flag = "ready"
      <4>1. cache[r][Seen.template].live => AvailableDesired(cache[r][Seen.template], Seen.desired[r])
        BY <3>2, <3>4 DEF TermFlags
      <4> QED BY <1>c, <2>1, <4>1 DEF Ready, AvailableDesired
    <3> QED BY <3>2, <3>3, <3>4
  <2> QED BY <2>2, <2>3, <2>4, <2>5 DEF GroupInv
<1>3. CASE CheckUpgradeConfirm
  <2>0. \/ UNCHANGED <<sub, cache>> /\ pc' = "idle"
        \/ /\ UNCHANGED <<sub, cache, snap, info, todo, cur, rest, left>>
           /\ pc = "confirm" /\ pc' \in {"refresh", "manage"}
    BY <1>3, <1>d, <1>f DEF CheckUpgradeConfirm, loopVars
  <2> SUFFICES ASSUME /\ UNCHANGED <<sub, cache, snap, info, todo, cur, rest, left>>
                      /\ pc = "confirm" /\ pc' \in {"refresh", "manage"}
               PROVE  GroupInv'
    BY <2>0, GroupOutside
  <2>1. /\ UNCHANGED <<sub, cache, snap, info, todo, cur, rest, left>>
        /\ pc = "confirm" /\ pc' \in {"refresh", "manage"}
    OBVIOUS
  <2>2. \A r \in Regions : Ready(r) /\ Copied(r)
    BY <1>c, <2>1 DEF Pending
  <2> QED BY <1>c, <2>1, <2>2 DEF GroupInv, OneGroupInFlight, Ready, Copied
<1>4. CASE RefreshStatus \/ WaitStatus \/ StatusConflict \/ CleanDone \/ Abort
  BY <1>4, <1>d, <1>f, GroupOutside DEF RefreshStatus, WaitStatus, StatusConflict, CleanDone, Abort
<1>5. CASE SaturatedStatus \/ CleanOldSubsets \/ CleanOldDone
  BY <1>5, <1>d, GroupOutside DEF SaturatedStatus, CleanOldSubsets, CleanOldDone
<1>6. ASSUME NEW r \in Regions, CleanRegion(r) PROVE GroupInv'
  BY <1>6, <1>d, GroupOutside DEF CleanRegion
<1>7. ASSUME NEW r \in Regions, NewSubset(r) PROVE GroupInv'
  <2> DEFINE new == [live |-> TRUE, spec |-> CalculateStepSize(snap.want[r], 0), avail |-> 0,
                     rev |-> MaxRevision(info[r], Olds(info[r], snap.tmpl)) + 1]
  <2>1. CASE NoWrite
    BY <1>7, <2>1, <1>g DEF NewSubset
  <2>2. CASE sub' = [sub EXCEPT ![r][snap.tmpl] = new] /\ Published
    <3>1. new \in Subset /\ new.spec <= new.avail + BatchSize
      <4>1. 0 + CalculateStepSize(snap.want[r], 0) \in Nat /\ CalculateStepSize(snap.want[r], 0) \in Int
            /\ CalculateStepSize(snap.want[r], 0) <= BatchSize
        BY <1>a, StepSizeType
      <4>2. MaxRevision(info[r], Olds(info[r], snap.tmpl)) \in Nat
        BY <1>a, OldsType, MaxRevisionType
      <4> QED BY <4>1, <4>2 DEF Subset
    <3> HIDE DEF new
    <3>2. OneGroupInFlight'
      BY <1>a, <1>c, <2>2, <3>1, OneGroupWrite
    <3>3. cache' = sub' /\ pc' = "idle"
      BY <1>7, <1>f, <2>2, FreshCache DEF NewSubset
    <3> QED BY <3>2, <3>3 DEF GroupInv, Pending
  <2> QED BY <1>7, <1>h, <2>1, <2>2 DEF NewSubset
<1>8. ASSUME NEW r \in Regions, RecreateRegion(r) PROVE GroupInv'
  <2> DEFINE rev == MaxRevision(info[r], Olds(info[r], snap.tmpl)) + 1
             t == snap.tmpl
  <2>1. CASE RaiseRevisionFails(r, rev)
    BY <2>1, <1>g DEF RaiseRevisionFails
  <2>2. CASE /\ RaiseRevision(r, rev)
             /\ pc' = "cleanup" /\ cur' = r /\ rest' = Olds(info[r], snap.tmpl)
             /\ todo' = todo \ {r} /\ UNCHANGED snap
    <3>1. rev \in Nat
      BY <1>a, OldsType, MaxRevisionType
    <3>2. Ready(r) /\ Copied(r) /\ info[r][t].live
      <4>1. pc = "manage" /\ r \in todo /\ info[r][t].live
        BY <1>8 DEF RecreateRegion
      <4>2. Pending(r)
        BY <4>1 DEF Pending
      <4> QED BY <1>c, <4>1, <4>2
    <3> HIDE DEF rev
    <3>3. CASE NoWrite /\ UNCHANGED info
      <4>1. OneGroupInFlight' /\ cache' = sub' /\ Ready(r)' /\ Copied(r)'
        BY <1>c, <1>e, <2>2, <3>2, <3>3 DEF OneGroupInFlight, Ready, Copied
      <4> QED BY <1>h, <2>2, <3>2, <3>3, <4>1 DEF GroupInv, Pending, Olds
    <3>4. CASE /\ sub' = [sub EXCEPT ![r][t] = WithRev(sub[r][t], rev)] /\ Published
               /\ info' = [info EXCEPT ![r][t] = WithRev(info[r][t], rev)]
      <4>1. WithRev(sub[r][t], rev) \in Subset
        <5>1. sub[r][t] \in Subset
          BY <1>a
        <5> QED BY <3>1, <5>1, WriteType
      <4>2. /\ WithRev(sub[r][t], rev).spec = sub[r][t].spec
            /\ WithRev(sub[r][t], rev).avail = sub[r][t].avail
            /\ WithRev(info[r][t], rev).spec = info[r][t].spec
            /\ WithRev(info[r][t], rev).live = info[r][t].live
        BY DEF WithRev
      <4>3. OneGroupInFlight'
        BY <1>a, <1>c, <3>4, <4>1, <4>2, OneGroupWrite DEF OneGroupInFlight
      <4>4. Ready(r)' /\ Copied(r)' /\ info'[r][t].live
        BY <1>a, <2>2, <3>2, <3>4, <4>2 DEF Ready, Copied
      <4>5. cache' = sub'
        BY <3>4, FreshCache
      <4>6. \A o \in Olds(info[r], t) : o # t /\ info'[r][o].live
        BY <1>a, <3>4 DEF Olds
      <4> QED BY <1>h, <2>2, <4>3, <4>4, <4>5, <4>6 DEF GroupInv, Pending
    <3> QED BY <2>2, <3>3, <3>4 DEF RaiseRevision
  <2> QED BY <1>8, <2>1, <2>2 DEF RecreateRegion
<1>9. ASSUME NEW o \in Templates, CleanupUnhealthyReplicas(o) PROVE GroupInv'
  <2> DEFINE old == info[cur][o]
             count == Lesser(old.spec - old.avail, left)
             n == old.spec - count
             Delete == /\ sub' = [sub EXCEPT ![cur][o] = Absent] /\ Published
                       /\ info' = [info EXCEPT ![cur][o] = Deleted(old)]
             Scale == /\ old.avail < old.spec /\ SetReplicas(cur, o, n)
                      /\ info' = [info EXCEPT ![cur][o] = WithSpec(old, n)]
             Go == rest' = rest \ {o} /\ UNCHANGED <<pc, snap, todo, cur>>
             Others == \A x \in rest \ {o} : info'[cur][x].live
  <2>1. pc = "cleanup" /\ o \in rest /\ left > 0
    BY <1>9 DEF CleanupUnhealthyReplicas
  <2>2. /\ o # snap.tmpl /\ info[cur][snap.tmpl].live /\ Ready(cur) /\ Copied(cur)
        /\ old.live /\ cur \notin todo
    <3>1. Pending(cur)
      BY <2>1 DEF Pending
    <3> QED BY <1>a, <1>c, <2>1, <3>1
  <2>3. \/ NoWrite /\ Return
        \/ Go /\ ((NoWrite /\ UNCHANGED info) \/ Delete \/ Scale)
    BY <1>9, <1>h DEF CleanupUnhealthyReplicas
  <2>4. old.avail < old.spec => n \in Nat /\ n <= old.spec
    <3>1. old.spec \in Nat /\ old.avail \in Nat /\ left \in Int
      BY <1>a, <1>b
    <3> HIDE DEF old
    <3> QED BY <2>1, <3>1 DEF Lesser
  <2> HIDE DEF count, n
  <2>5. ASSUME Go, OneGroupInFlight', cache' = sub', Ready(cur)', Copied(cur)',
               info'[cur][snap.tmpl].live, Others
        PROVE  GroupInv'
    BY <1>c, <1>h, <2>1, <2>2, <2>5 DEF GroupInv, Pending
  <2>6. CASE Go /\ NoWrite /\ UNCHANGED info
    <3>1. OneGroupInFlight' /\ cache' = sub' /\ Ready(cur)' /\ Copied(cur)'
      BY <1>c, <1>e, <2>2, <2>6 DEF OneGroupInFlight, Ready, Copied
    <3>2. Others
      BY <1>c, <2>1, <2>6
    <3> QED BY <2>2, <2>5, <2>6, <3>1, <3>2
  <2>7. CASE Go /\ Delete
    <3>1. OneGroupInFlight'
      <4>1. Absent.spec <= Absent.avail + BatchSize
        BY DEF Absent
      <4>2. sub' = [sub EXCEPT ![cur][o] = Absent]
        BY <2>7
      <4>3. Absent \in Subset
        BY AbsentType
      <4> QED BY <1>a, <1>c, <4>1, <4>2, <4>3, OneGroupWrite
    <3>2. /\ cur' = cur /\ snap' = snap
          /\ \A t \in Templates \ {o} : sub'[cur][t] = sub[cur][t] /\ info'[cur][t] = info[cur][t]
          /\ ~info'[cur][o].live
      BY <1>a, <2>7 DEF Deleted
    <3>3. Ready(cur)' /\ info'[cur][snap.tmpl].live
      BY <1>a, <2>2, <3>2 DEF Ready
    <3>4. Copied(cur)'
      BY <2>2, <3>2 DEF Copied
    <3>5. Others
      BY <1>a, <1>c, <2>1, <3>2
    <3> QED BY <2>5, <2>7, <3>1, <3>3, <3>4, <3>5, FreshCache
  <2>8. CASE Go /\ Scale
    <3>1. n \in Nat /\ n <= old.spec
      BY <2>4, <2>8
    <3>2. CacheCurrent(cur, o) /\ Published
      BY <2>8 DEF SetReplicas
    <3>3. n <= sub[cur][o].avail + BatchSize
      <4>1. info[cur][o].live => sub[cur][o].spec = info[cur][o].spec
        BY <2>2 DEF Copied
      <4>2. sub[cur][o].spec <= sub[cur][o].avail + BatchSize
        BY <1>a, <1>c DEF OneGroupInFlight
      <4> QED BY <1>a, <1>b, <2>2, <3>1, <4>1, <4>2
    <3>4. OneGroupInFlight' /\ sub' = [sub EXCEPT ![cur][o] = WithSpec(sub[cur][o], n)]
      BY <1>a, <1>c, <2>8, <3>1, <3>3, OneGroupShrink
    <3>5. /\ cur' = cur /\ snap' = snap
          /\ \A t \in Templates \ {o} : sub'[cur][t] = sub[cur][t] /\ info'[cur][t] = info[cur][t]
          /\ sub'[cur][o].spec = n /\ info'[cur][o].spec = n
      BY <1>a, <2>8, <3>4 DEF WithSpec
    <3>6. Ready(cur)' /\ info'[cur][snap.tmpl].live
      BY <1>a, <2>2, <3>5 DEF Ready
    <3>7. Copied(cur)'
      BY <2>2, <3>5 DEF Copied
    <3>8. Others
      BY <1>a, <1>c, <2>1, <3>5
    <3> QED BY <2>5, <2>8, <3>2, <3>4, <3>6, <3>7, <3>8, FreshCache
  <2> HIDE DEF Go, Delete, Scale
  <2> QED BY <1>g, <2>3, <2>6, <2>7, <2>8
<1>10. CASE CleanupDone
  <2>1. /\ pc = "cleanup" /\ pc' \in {"shrink", "grow"} /\ UNCHANGED <<sub, cache, snap, info, todo, cur>>
        /\ rest' = Olds(info[cur], snap.tmpl)
    BY <1>10, <1>d DEF CleanupDone
  <2>2. Pending(cur)
    BY <2>1 DEF Pending
  <2>3. Ready(cur)' /\ Copied(cur)'
    BY <1>a, <1>c, <2>1, <2>2 DEF Ready, Copied
  <2> QED BY <1>a, <1>c, <1>h, <2>1, <2>3 DEF GroupInv, Pending, OneGroupInFlight, Olds
<1>11. ASSUME NEW o \in Templates, ShrinkOld(o) PROVE GroupInv'
  <2>1. pc = "shrink" /\ o \in rest
    BY <1>11 DEF ShrinkOld
  <2>2. /\ o # snap.tmpl /\ info[cur][snap.tmpl].live /\ Ready(cur) /\ Copied(cur)
        /\ info[cur][o].live /\ cur \notin todo
    <3>1. Pending(cur)
      BY <2>1 DEF Pending
    <3> QED BY <1>a, <1>c, <2>1, <3>1
  <2>3. CASE NoWrite /\ pc' \in {"shrink", "grow"} /\ rest' \subseteq rest
             /\ UNCHANGED <<snap, info, todo, cur>>
    <3>1. OneGroupInFlight' /\ cache' = sub' /\ Ready(cur)' /\ Copied(cur)'
      BY <1>c, <1>e, <2>2, <2>3 DEF OneGroupInFlight, Ready, Copied
    <3> QED BY <1>c, <1>h, <2>1, <2>2, <2>3, <3>1 DEF GroupInv, Pending
  <2>4. CASE /\ info[cur][o].spec > left /\ left > 0
             /\ SetReplicas(cur, o, info[cur][o].spec - left)
             /\ pc' = "grow" /\ UNCHANGED loopVars
    <3> DEFINE n == info[cur][o].spec - left
    <3>1. n \in Nat /\ n <= sub[cur][o].avail + BatchSize
      <4>1. sub[cur][o].spec = info[cur][o].spec
        BY <2>2 DEF Copied
      <4>2. sub[cur][o].spec <= sub[cur][o].avail + BatchSize
        BY <1>a, <1>c DEF OneGroupInFlight
      <4>3. /\ info[cur][o].spec \in Nat /\ sub[cur][o].avail \in Nat /\ left \in Int
            /\ info[cur][o].spec > left /\ left > 0
        BY <1>a, <1>b, <2>4
      <4> QED BY <4>1, <4>2, <4>3
    <3> HIDE DEF n
    <3>2. OneGroupInFlight' /\ sub' = [sub EXCEPT ![cur][o] = WithSpec(sub[cur][o], n)]
      BY <1>a, <1>c, <2>4, <3>1, OneGroupShrink DEF n
    <3>3. cache' = sub'
      BY <2>4, FreshCache DEF SetReplicas
    <3>4. Ready(cur)'
      BY <1>a, <2>2, <2>4, <3>2 DEF Ready, loopVars
    <3> QED BY <1>h, <2>2, <2>4, <3>2, <3>3, <3>4 DEF GroupInv, Pending, loopVars
  <2> QED BY <1>11, <1>g, <2>1, <2>3, <2>4 DEF ShrinkOld, loopVars
<1>12. CASE ShrinkDone
  <2>1. pc = "shrink" /\ pc' = "grow" /\ UNCHANGED <<sub, cache, snap, info, todo, cur>>
    BY <1>12, <1>d DEF ShrinkDone, loopVars
  <2>2. Pending(cur)
    BY <2>1 DEF Pending
  <2>3. Ready(cur)'
    BY <1>a, <1>c, <2>1, <2>2 DEF Ready
  <2> QED BY <1>a, <1>c, <1>h, <2>1, <2>3 DEF GroupInv, Pending, OneGroupInFlight
<1>13. CASE GrowNew
  <2> DEFINE t == snap.tmpl
             new == info[cur][t]
             n == new.spec + CalculateStepSize(snap.want[cur], new.spec)
  <2>1. /\ pc = "grow"
        /\ \/ NoWrite /\ Return
           \/ NoWrite /\ pc' = "manage" /\ UNCHANGED loopVars
           \/ SetReplicas(cur, t, n) /\ pc' = "manage" /\ UNCHANGED loopVars
    BY <1>13, <1>h DEF GrowNew
  <2>2. Ready(cur) /\ new.live /\ cur \notin todo
    <3>1. Pending(cur)
      BY <2>1 DEF Pending
    <3> QED BY <1>a, <1>c, <2>1, <3>1
  <2>3. ASSUME OneGroupInFlight', cache' = sub', pc' = "manage", UNCHANGED loopVars
        PROVE  GroupInv'
    BY <1>a, <1>h, <2>2, <2>3 DEF GroupInv, Pending, loopVars
  <2>4. CASE NoWrite /\ pc' = "manage" /\ UNCHANGED loopVars
    BY <1>c, <1>e, <2>3, <2>4 DEF OneGroupInFlight
  <2>5. CASE SetReplicas(cur, t, n) /\ pc' = "manage" /\ UNCHANGED loopVars
    <3>1. /\ n \in Nat /\ n <= new.spec + BatchSize
          /\ snap.want[cur] < new.spec => n <= new.spec
      <4>1. new.spec \in Nat /\ snap.want[cur] \in Nat
        BY <1>a, <1>b
      <4> QED BY <4>1, StepSizeType
    <3>2. sub[cur][t].spec <= sub[cur][t].avail + BatchSize
      BY <1>a, <1>c DEF OneGroupInFlight
    <3>3. /\ sub[cur][t].spec = new.spec
          /\ snap.want[cur] < new.spec \/ sub[cur][t].avail >= new.spec
      BY <2>2 DEF Ready
    <3>4. new.spec \in Nat /\ sub[cur][t].avail \in Nat /\ snap.want[cur] \in Nat /\ t \in Templates
      BY <1>a, <1>b
    <3> HIDE DEF n, new, t
    <3>5. n <= sub[cur][t].avail + BatchSize
      BY <3>1, <3>2, <3>3, <3>4
    <3>6. OneGroupInFlight'
      BY <1>a, <1>c, <2>5, <3>1, <3>4, <3>5, OneGroupShrink
    <3>7. cache' = sub'
      BY <2>5, FreshCache DEF SetReplicas
    <3> QED BY <2>3, <2>5, <3>6, <3>7
  <2> QED BY <1>g, <2>1, <2>4, <2>5
<1>14. CASE RollOlds \/ RollOldDone \/ DeleteAllDone
            \/ (\E r \in Regions : RollingRegion(r) \/ DeleteAllFirstRegion(r))
            \/ (\E o \in Templates : RollOld(o))
            \/ (\E r \in Regions, t \in Templates : PodFails(r, t) \/ CacheSync(r, t))
  <2>1. ~\E r \in Regions, t \in Templates : PodFails(r, t)
    BY <1>h DEF PodFails, TypeOK
  <2>2. ~\E r \in Regions, t \in Templates : CacheSync(r, t)
    BY <1>c DEF CacheSync
  <2>3. ~\E r \in Regions : RollingRegion(r) \/ DeleteAllFirstRegion(r)
    BY <1>h DEF RollingRegion, DeleteAllFirstRegion
  <2>4. ~(RollOlds \/ RollOldDone \/ DeleteAllDone \/ \E o \in Templates : RollOld(o))
    BY <1>h, <1>c DEF RollOlds, RollOldDone, DeleteAllDone, RollOld
  <2> QED BY <1>14, <2>1, <2>2, <2>3, <2>4
<1>15. ASSUME NEW o \in Templates, SweepOld(o) PROVE GroupInv'
  <2>1. \/ NoWrite /\ Return
        \/ SetReplicas(cur, o, 0) /\ pc' = "sweep"
    BY <1>15, <1>c DEF SweepOld
  <2>2. CASE SetReplicas(cur, o, 0) /\ pc' = "sweep"
    <3>1. 0 <= sub[cur][o].avail + BatchSize
      BY <1>a, <1>b
    <3>2. OneGroupInFlight'
      BY <1>a, <1>c, <2>2, <3>1, OneGroupShrink
    <3>3. cache' = sub'
      BY <2>2, FreshCache DEF SetReplicas
    <3> QED BY <2>2, <3>2, <3>3 DEF GroupInv, Pending
  <2> QED BY <1>g, <2>1, <2>2
<1>16. ASSUME NEW o \in Templates, DeleteSubset(o) PROVE GroupInv'
  <2>1. sub' = [sub EXCEPT ![cur][o] = Absent] /\ Published /\ pc' = "delete"
    BY <1>16 DEF DeleteSubset
  <2>2. \A r \in Regions, t \in Templates : sub'[r][t] = sub[r][t] \/ sub'[r][t] = Absent
    BY <1>a, <2>1
  <2>3. Absent.spec <= Absent.avail + BatchSize
    BY DEF Absent
  <2>4. OneGroupInFlight'
    BY <1>c, <2>2, <2>3 DEF OneGroupInFlight
  <2>5. cache' = sub'
    BY <2>1, FreshCache
  <2> QED BY <2>1, <2>4, <2>5 DEF GroupInv, Pending
<1>17. ASSUME NEW r \in Regions, NEW t \in Templates, NEW n \in Nat, SetAvailable(r, t, n),
              n >= sub[r][t].avail \/ n >= sub[r][t].spec
       PROVE  GroupInv'
  <2> DEFINE s == WithAvail(sub[r][t], n)
  <2>1. s \in Subset /\ s.spec = sub[r][t].spec /\ s.avail = n
    BY <1>a, WriteType DEF WithAvail
  <2>2. sub' = [sub EXCEPT ![r][t] = s] /\ Published /\ UNCHANGED <<pc, snap, info, todo, cur, rest>>
    BY <1>17 DEF SetAvailable, loopVars
  <2> HIDE DEF s
  <2>3. s.spec <= s.avail + BatchSize
    <3>1. sub[r][t].spec <= sub[r][t].avail + BatchSize
      BY <1>c DEF OneGroupInFlight
    <3> QED BY <1>17, <1>b, <2>1, <3>1
  <2>4. OneGroupInFlight' /\ cache' = sub'
    BY <1>c, <2>1, <2>2, <2>3, OneGroupWrite, FreshCache
  <2>5. \A x \in Regions, y \in Templates :
           /\ sub'[x][y].spec = sub[x][y].spec
           /\ sub'[x][y].avail >= sub[x][y].avail \/ sub'[x][y].avail >= sub[x][y].spec
    BY <1>17, <1>a, <1>b, <2>1, <2>2
  <2>6. ASSUME NEW x \in Regions, Pending(x)' PROVE Ready(x)' /\ (pc' # "grow" => Copied(x)')
    <3>1. Ready(x) /\ (pc # "grow" => Copied(x))
      BY <1>c, <2>2, <2>6 DEF Pending
    <3>2. pc # "grow" => Copied(x)'
      BY <2>2, <2>5, <3>1 DEF Copied
    <3>3. Ready(x)'
      <4>1. /\ info[x][snap.tmpl].spec \in Nat /\ snap.want[x] \in Nat
            /\ sub[x][snap.tmpl].avail \in Nat /\ sub'[x][snap.tmpl].avail \in Nat
        BY <1>17, <1>a, <1>b, <2>1, <2>2
      <4>2. /\ sub'[x][snap.tmpl].spec = sub[x][snap.tmpl].spec
            /\ \/ sub'[x][snap.tmpl].avail >= sub[x][snap.tmpl].avail
               \/ sub'[x][snap.tmpl].avail >= sub[x][snap.tmpl].spec
        BY <1>a, <2>5
      <4> QED BY <2>2, <3>1, <4>1, <4>2 DEF Ready
    <3> QED BY <2>2, <3>2, <3>3
  <2> QED BY <1>c, <2>2, <2>4, <2>6 DEF GroupInv
<1>18. ASSUME NEW r \in Regions, NEW t \in Templates, PodAvailable(r, t) PROVE GroupInv'
  <2>1. sub[r][t].avail + 1 \in Nat /\ sub[r][t].avail + 1 >= sub[r][t].avail
    BY <1>b
  <2> QED BY <1>17, <1>18, <2>1 DEF PodAvailable
<1>19. ASSUME NEW r \in Regions, NEW t \in Templates, PodsRemoved(r, t) PROVE GroupInv'
  <2>1. sub[r][t].spec \in Nat /\ sub[r][t].spec >= sub[r][t].spec
    BY <1>b
  <2> QED BY <1>17, <1>19, <2>1 DEF PodsRemoved
<1>20. CASE UNCHANGED vars
  BY <1>20, GroupFrame DEF vars, loopVars
<1> QED
  BY <1>1, <1>2, <1>3, <1>4, <1>5, <1>6, <1>7, <1>8, <1>9, <1>10, <1>11, <1>12, <1>13, <1>14,
     <1>15, <1>16, <1>18, <1>19, <1>20
     DEF Next, Controller

LEMMA GroupInit == Init => GroupInv
<1> SUFFICES ASSUME Init PROVE GroupInv
  OBVIOUS
<1> USE RolloutAssumption
<1>1. OneGroupInFlight
  <2>1. \A r \in Regions, t \in Templates : sub[r][t] = Running(desired[r]) \/ sub[r][t] = Absent
    BY DEF Init, NoSubsets
  <2>2. \A r \in Regions : desired[r] \in Nat
    BY DEF Init
  <2>3. \A n \in Nat : Running(n).spec <= Running(n).avail + BatchSize
    BY DEF Running
  <2>4. Absent.spec <= Absent.avail + BatchSize
    BY DEF Absent
  <2> QED BY <2>1, <2>2, <2>3, <2>4 DEF OneGroupInFlight
<1> QED BY <1>1 DEF Init, GroupInv, Pending

\* With strategy ReCreate, one region, a current cache of the subsets and no
\* faults, a rollout of any size, batch size, number of templates and
\* edits never has more than one group of a template starting: README.md:9.
THEOREM OneGroupAtATime == ASSUME GroupScope PROVE Spec => []OneGroupInFlight
<1>1. Init => TypeOK /\ GroupInv
  BY TypeInit, GroupInit
<1>2. TypeOK /\ GroupInv /\ [Next]_vars => (TypeOK /\ GroupInv)'
  BY TypeStep, GroupStep
<1>3. GroupInv => OneGroupInFlight
  BY DEF GroupInv
<1> QED BY <1>1, <1>2, <1>3, PTL DEF Spec
=============================================================================
