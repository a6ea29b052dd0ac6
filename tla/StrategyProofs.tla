--------------------------- MODULE StrategyProofs ---------------------------
(***************************************************************************)
(* What the update strategies promise, for any number of regions,          *)
(* templates, sizes, edits and faults.  DeleteAllFirst: the old pods are   *)
(* gone before a new subset gets replicas.  RollingUpdate: a region never  *)
(* has more replicas than the largest size plus maxSurge.                  *)
(***************************************************************************)
EXTENDS RolloutProofs

-----------------------------------------------------------------------------
(* DeleteAllFirst                                                          *)

\* The deployments the theorem is about: the cache of the subsets does not lag
\* (that of the deployment may).
FirstScope == UpdateStrategy = "DeleteAllFirst" /\ "subsets" \notin Lagging

\* A subset that asks for no pod and has none.
Emptied(r, t) == sub[r][t].spec = 0 /\ sub[r][t].avail = 0

AloneInv == \A r \in Regions, s, t \in Templates : s # t /\ sub[r][s].spec > 0 => Emptied(r, t)

GoneInv == \A r \in Regions, t \in Templates : ~sub[r][t].live => Emptied(r, t)

\* What the reconcile has read of a subset still holds, but for pods that came
\* or went; none comes to an empty subset.
StillRead(r, t) ==
    /\ info[r][t].live = sub[r][t].live /\ info[r][t].spec = sub[r][t].spec
    /\ info[r][t].spec = 0 /\ info[r][t].avail = 0 => Emptied(r, t)

StageInv ==
    /\ pc \notin {"cleanup", "shrink", "rollOld"}
    /\ pc \in {"confirm", "manage"} => \A r \in todo, t \in Templates : StillRead(r, t)
    /\ pc \in {"grow", "deleteAll"} => todo = {}
    /\ pc = "grow" => \A o \in Templates \ {snap.tmpl} : Emptied(cur, o)

\* The inductive invariant behind DeletedFirst: the reconcile grows a subset only
\* while the emptiness it has read of the others lasts.
FirstInv == cache = sub /\ AloneInv /\ GoneInv /\ StageInv

-----------------------------------------------------------------------------

\* No subset is written, and the reconcile ends or goes on elsewhere.
LEMMA FirstOutside ==
    ASSUME FirstInv, UNCHANGED <<sub, cache>>,
           pc' \in {"idle", "refresh", "wait", "saturated", "clean", "sweep", "delete"}
    PROVE  FirstInv'
BY DEF FirstInv, AloneInv, GoneInv, StageInv, Emptied

\* Nothing of what the reconcile and the subsets are is touched.
LEMMA FirstFrame ==
    ASSUME FirstInv, UNCHANGED <<sub, cache, pc, loopVars>>
    PROVE  FirstInv'
<1>1. UNCHANGED <<sub, cache, pc, snap, info, todo, cur>>
  BY DEF loopVars
<1>2. AloneInv' /\ GoneInv'
  BY <1>1 DEF FirstInv, AloneInv, GoneInv, Emptied
<1>3. StageInv'
  BY <1>1 DEF FirstInv, StageInv, StillRead, Emptied
<1> QED BY <1>1, <1>2, <1>3 DEF FirstInv

\* ScaleSubset to nothing, or of a subset all others of which are empty.
LEMMA FirstWrite ==
    ASSUME FirstScope, TypeOK, FirstInv, NEW r \in Regions, NEW t \in Templates, NEW n \in Nat,
           SetReplicas(r, t, n),
           n = 0 \/ \A o \in Templates \ {t} : Emptied(r, o)
    PROVE  cache' = sub' /\ AloneInv' /\ GoneInv'
<1>1. /\ sub \in [Regions -> [Templates -> Subset]]
      /\ sub' = [sub EXCEPT ![r][t] = WithSpec(sub[r][t], n)] /\ sub[r][t].live
  BY DEF TypeOK, StoreOK, SetReplicas, CacheCurrent
<1>2. \A q \in Regions, u \in Templates :
         /\ sub'[q][u].live = sub[q][u].live /\ sub'[q][u].avail = sub[q][u].avail
         /\ sub'[q][u].spec = IF q = r /\ u = t THEN n ELSE sub[q][u].spec
  BY <1>1 DEF WithSpec
<1>3. cache' = sub'
  BY DEF FirstScope, SetReplicas, Published
<1>4. \A q \in Regions, u \in Templates : q # r \/ u # t => (Emptied(q, u)' <=> Emptied(q, u))
  BY <1>2 DEF Emptied
<1>5. \A q \in Regions, u \in Templates : sub[q][u].spec \in Nat
  BY <1>1 DEF Subset
<1>6. AloneInv'
  <2> SUFFICES ASSUME NEW q \in Regions, NEW s \in Templates, NEW u \in Templates,
                      s # u, sub'[q][s].spec > 0
               PROVE  Emptied(q, u)'
    BY DEF AloneInv
  <2>1. CASE q = r /\ s = t
    BY <1>2, <1>4, <2>1
  <2>2. CASE ~(q = r /\ s = t)
    <3>1. Emptied(q, u)
      BY <1>2, <2>2 DEF FirstInv, AloneInv
    <3>2. CASE q = r /\ u = t
      <4>1. sub[q][s].spec > 0
        BY <1>2, <2>2
      <4>2. n = 0
        BY <1>5, <2>2, <3>2, <4>1 DEF Emptied
      <4> QED BY <1>2, <3>1, <3>2, <4>2 DEF Emptied
    <3> QED BY <1>4, <3>1, <3>2
  <2> QED BY <2>1, <2>2
<1>7. GoneInv'
  BY <1>1, <1>2, <1>4 DEF FirstInv, GoneInv
<1> QED BY <1>3, <1>6, <1>7

\* Pods come, go and fail only in a subset that is not empty.
LEMMA FirstPods ==
    ASSUME FirstScope, TypeOK, FirstInv, NEW r \in Regions, NEW t \in Templates, NEW n \in Nat,
           SetAvailable(r, t, n), ~Emptied(r, t)
    PROVE  FirstInv'
<1>1. /\ sub \in [Regions -> [Templates -> Subset]] /\ cur \in Regions /\ todo \subseteq Regions
      /\ sub' = [sub EXCEPT ![r][t] = WithAvail(sub[r][t], n)]
      /\ UNCHANGED <<pc, snap, info, todo, cur>>
  BY DEF TypeOK, StoreOK, LoopOK, SetAvailable, loopVars
<1>2. \A q \in Regions, u \in Templates :
         sub'[q][u].live = sub[q][u].live /\ sub'[q][u].spec = sub[q][u].spec
  BY <1>1 DEF WithAvail
<1>3. \A q \in Regions, u \in Templates : Emptied(q, u) => Emptied(q, u)'
  BY <1>1 DEF Emptied
<1>4. cache' = sub'
  BY DEF FirstScope, SetAvailable, Published
<1>5. AloneInv' /\ GoneInv'
  BY <1>2, <1>3 DEF FirstInv, AloneInv, GoneInv
<1>6. \A q \in Regions, u \in Templates : StillRead(q, u) => StillRead(q, u)'
  BY <1>1, <1>2, <1>3 DEF StillRead
<1>7. \A u \in Templates : Emptied(cur, u) => Emptied(cur, u)'
  BY <1>1, <1>3 DEF Emptied
<1>8. StageInv'
  BY <1>1, <1>6, <1>7 DEF FirstInv, StageInv
<1> QED BY <1>4, <1>5, <1>8 DEF FirstInv

\* Every step keeps the invariant.
LEMMA FirstStep ==
    ASSUME FirstScope, TypeOK, FirstInv, [Next]_vars
    PROVE  FirstInv'
<1> USE RolloutAssumption
<1>a. /\ info \in [Regions -> [Templates -> Subset]] /\ sub \in [Regions -> [Templates -> Subset]]
      /\ cur \in Regions /\ rest \subseteq Templates /\ snap.tmpl \in Templates
      /\ snap.want \in [Regions -> Nat] /\ todo \subseteq Regions
  BY DEF TypeOK, StoreOK, LoopOK
<1>b. \A r \in Regions, t \in Templates :
        /\ info[r][t].spec \in Nat /\ info[r][t].avail \in Nat
        /\ sub[r][t].spec \in Nat /\ sub[r][t].avail \in Nat
  BY <1>a DEF Subset
<1>c. cache = sub /\ AloneInv /\ GoneInv /\ StageInv
  BY DEF FirstInv
<1>d. UNCHANGED storeVars \/ NoWrite => UNCHANGED <<sub, cache>>
  BY DEF storeVars, NoWrite
<1>e. Return => pc' = "idle"
  BY DEF Return
<1>f. pc \notin {"cleanup", "shrink", "rollOld"}
  BY <1>c DEF StageInv
<1>g. UpdateStrategy = "DeleteAllFirst" /\ "subsets" \notin Lagging
  BY DEF FirstScope
<1>1. CASE SyncRevisions \/ SyncRevisionsFails \/ Timeout \/ DeploymentSync \/ UserConfirm
           \/ UNCHANGED vars \/ (\E t \in Templates : UserApply(t))
           \/ (\E r \in Regions, n \in Sizes : UserScale(r, n))
  <2>1. UNCHANGED <<sub, cache, pc, loopVars>>
    BY <1>1, <1>d DEF SyncRevisions, SyncRevisionsFails, Timeout, DeploymentSync, UserConfirm,
                      UserApply, UserScale, vars, loopVars
  <2> QED BY <2>1, FirstFrame
<1>2. CASE RefreshStatus \/ WaitStatus \/ SaturatedStatus \/ StatusConflict \/ CleanOldSubsets
           \/ CleanOldDone \/ CleanDone \/ Abort \/ \E r \in Regions : CleanRegion(r)
  <2>1. UNCHANGED <<sub, cache>> /\ pc' \in {"idle", "clean", "sweep", "delete"}
    BY <1>2, <1>d, <1>e DEF RefreshStatus, WaitStatus, SaturatedStatus, StatusConflict,
                            CleanOldSubsets, CleanOldDone, CleanDone, Abort, CleanRegion
  <2> QED BY <2>1, FirstOutside
<1>3. CASE CleanupDone \/ ShrinkDone \/ RollOlds \/ RollOldDone
           \/ (\E r \in Regions : RecreateRegion(r) \/ RollingRegion(r))
           \/ (\E o \in Templates : CleanupUnhealthyReplicas(o) \/ ShrinkOld(o) \/ RollOld(o))
  BY <1>3, <1>f, <1>g DEF CleanupDone, ShrinkDone, RollOlds, RollOldDone, RecreateRegion,
                          RollingRegion, CleanupUnhealthyReplicas, ShrinkOld, RollOld
<1>4. CASE ReconcileStart
  <2>1. /\ UNCHANGED <<sub, cache>> /\ info' = sub /\ todo' = Regions
        /\ pc' \in {"saturated", "manage", "wait", "confirm"}
    BY <1>4, <1>c, <1>d DEF ReconcileStart, TermFlags
  <2>2. \A r \in Regions, t \in Templates : StillRead(r, t)'
    BY <2>1 DEF StillRead, Emptied
  <2>3. StageInv'
    BY <2>1, <2>2 DEF StageInv
  <2>4. AloneInv' /\ GoneInv'
    BY <1>c, <2>1 DEF AloneInv, GoneInv, Emptied
  <2> QED BY <1>c, <2>1, <2>3, <2>4 DEF FirstInv
\* On with the regions, or with what is left of them.
<1>h. ASSUME UNCHANGED <<sub, cache, info, todo>>, pc' = "manage",
             pc \in {"confirm", "manage", "grow", "deleteAll"}
      PROVE  FirstInv'
  <2>1. \A r \in todo', t \in Templates : StillRead(r, t)'
    BY <1>c, <1>h DEF StageInv, StillRead, Emptied
  <2>2. AloneInv' /\ GoneInv'
    BY <1>c, <1>h DEF AloneInv, GoneInv, Emptied
  <2> QED BY <1>c, <1>h, <2>1, <2>2 DEF FirstInv, StageInv
<1>5. CASE CheckUpgradeConfirm
  <2>1. /\ UNCHANGED <<sub, cache>> /\ pc = "confirm"
        /\ pc' = "idle" \/ (pc' \in {"refresh", "manage"} /\ UNCHANGED <<info, todo>>)
    BY <1>5, <1>d, <1>e DEF CheckUpgradeConfirm, loopVars
  <2> QED BY <1>h, <2>1, FirstOutside
<1>6. CASE DeleteAllDone
  BY <1>6, <1>d, <1>h DEF DeleteAllDone, loopVars
\* Once a region is found empty but for its new subset.
<1>i. ASSUME NEW r \in todo, pc = "manage", Sized(info[r], Olds(info[r], snap.tmpl)) = {},
             ~OldPodsRunning(info[r], Olds(info[r], snap.tmpl))
      PROVE  \A o \in Templates \ {snap.tmpl} : Emptied(r, o)
  <2> SUFFICES ASSUME NEW o \in Templates, o # snap.tmpl PROVE Emptied(r, o)
    OBVIOUS
  <2>1. StillRead(r, o) /\ r \in Regions
    BY <1>a, <1>c, <1>i DEF StageInv
  <2>2. CASE info[r][o].live
    <3>1. info[r][o].spec = 0
      BY <1>i, <2>2 DEF Sized, Olds
    <3>2. ~(info[r][o].avail > 0)
      BY <1>i, <2>2 DEF OldPodsRunning, Olds
    <3>3. info[r][o].avail = 0
      <4>1. info[r][o].avail \in Nat
        BY <1>b, <2>1
      <4> QED BY <3>2, <4>1
    <3> QED BY <2>1, <3>1, <3>3 DEF StillRead
  <2>3. CASE ~info[r][o].live
    BY <1>c, <2>1, <2>3 DEF StillRead, GoneInv
  <2> QED BY <2>2, <2>3
<1>7. ASSUME NEW r \in Regions, NewSubset(r) PROVE FirstInv'
  <2>1. /\ pc = "manage" /\ r \in todo /\ pc' = "idle"
        /\ Sized(info[r], Olds(info[r], snap.tmpl)) = {}
        /\ ~OldPodsRunning(info[r], Olds(info[r], snap.tmpl))
    BY <1>7, <1>e, <1>g DEF NewSubset
  <2>2. \A o \in Templates \ {snap.tmpl} : Emptied(r, o)
    BY <1>i, <2>1
  <2>3. CASE NoWrite
    BY <1>d, <2>1, <2>3, FirstOutside
  <2>4. CASE ~NoWrite
    <3>1. PICK new : /\ sub' = [sub EXCEPT ![r][snap.tmpl] = new] /\ Published
                     /\ new.live /\ new.avail = 0
      BY <1>7, <2>4 DEF NewSubset
    <3>2. cache' = sub'
      BY <1>g, <3>1 DEF Published
    <3>3. \A q \in Regions, u \in Templates :
             sub'[q][u] = IF q = r /\ u = snap.tmpl THEN new ELSE sub[q][u]
      BY <1>a, <3>1
    <3>4. \A q \in Regions, u \in Templates :
             q # r \/ u # snap.tmpl => (Emptied(q, u)' <=> Emptied(q, u))
      BY <3>3 DEF Emptied
    <3>5. GoneInv'
      BY <1>c, <3>1, <3>3, <3>4 DEF GoneInv
    <3>6. AloneInv'
      <4> SUFFICES ASSUME NEW q \in Regions, NEW s \in Templates, NEW u \in Templates,
                          s # u, sub'[q][s].spec > 0
                   PROVE  Emptied(q, u)'
        BY DEF AloneInv
      <4>1. CASE q = r /\ s = snap.tmpl
        BY <2>2, <3>4, <4>1
      <4>2. CASE q = r /\ u = snap.tmpl
        <5>1. sub[r][s].spec = 0
          BY <2>2, <4>2 DEF Emptied
        <5> QED BY <3>3, <4>2, <5>1
      <4>3. CASE q # r \/ (s # snap.tmpl /\ u # snap.tmpl)
        BY <1>c, <3>3, <3>4, <4>3 DEF AloneInv
      <4> QED BY <4>1, <4>2, <4>3
    <3>7. StageInv'
      BY <2>1 DEF StageInv
    <3> QED BY <3>2, <3>5, <3>6, <3>7 DEF FirstInv
  <2> QED BY <2>3, <2>4
<1>8. ASSUME NEW r \in Regions, DeleteAllFirstRegion(r) PROVE FirstInv'
  <2> DEFINE olds == Olds(info[r], snap.tmpl)
             rev  == MaxRevision(info[r], olds) + 1
  <2>1. pc = "manage" /\ r \in todo
    BY <1>8 DEF DeleteAllFirstRegion
  <2>2. CASE NoWrite /\ pc' = "deleteAll" /\ todo' = {}
    <3>1. StageInv'
      BY <2>2 DEF StageInv
    <3>2. AloneInv' /\ GoneInv'
      BY <1>c, <1>d, <2>2 DEF AloneInv, GoneInv, Emptied
    <3> QED BY <1>c, <1>d, <2>2, <3>1, <3>2 DEF FirstInv
  <2>3. CASE NoWrite /\ pc' \in {"idle", "refresh"}
    BY <1>d, <2>3, FirstOutside
  <2>4. CASE /\ RaiseRevision(r, rev) /\ Sized(info[r], olds) = {} /\ ~OldPodsRunning(info[r], olds)
             /\ pc' = "grow" /\ cur' = r /\ todo' = {} /\ UNCHANGED snap
    <3>1. \A o \in Templates \ {snap.tmpl} : Emptied(r, o)
      BY <1>i, <2>1, <2>4
    <3>2. RaiseRevision(r, rev)
      BY <2>4
    <3> HIDE DEF rev
    <3>3. /\ cache' = sub'
          /\ \A q \in Regions, u \in Templates :
                /\ sub'[q][u].live = sub[q][u].live /\ sub'[q][u].spec = sub[q][u].spec
                /\ sub'[q][u].avail = sub[q][u].avail
      <4>1. CASE NoWrite
        BY <1>c, <1>d, <4>1
      <4>2. CASE /\ sub' = [sub EXCEPT ![r][snap.tmpl] = WithRev(sub[r][snap.tmpl], rev)]
                 /\ Published
        BY <1>a, <1>g, <4>2 DEF WithRev, Published
      <4> QED BY <3>2, <4>1, <4>2 DEF RaiseRevision
    <3>4. AloneInv' /\ GoneInv'
      BY <1>c, <3>3 DEF AloneInv, GoneInv, Emptied
    <3>5. \A o \in Templates \ {snap'.tmpl} : Emptied(cur, o)'
      BY <2>4, <3>1, <3>3 DEF Emptied
    <3>6. StageInv'
      BY <2>4, <3>5 DEF StageInv
    <3> QED BY <3>3, <3>4, <3>6 DEF FirstInv
  <2> HIDE DEF rev
  <2>5. \/ NoWrite /\ pc' = "deleteAll" /\ todo' = {}
        \/ NoWrite /\ pc' \in {"idle", "refresh"}
        \/ /\ RaiseRevision(r, rev) /\ Sized(info[r], olds) = {} /\ ~OldPodsRunning(info[r], olds)
           /\ pc' = "grow" /\ cur' = r /\ todo' = {} /\ UNCHANGED snap
    BY <1>8, <1>e DEF DeleteAllFirstRegion, RaiseRevisionFails, rev
  <2> QED BY <2>2, <2>3, <2>4, <2>5
<1>9. CASE GrowNew
  <2>1. /\ pc = "grow" /\ todo = {} /\ \A o \in Templates \ {snap.tmpl} : Emptied(cur, o)
        /\ snap.want[cur] \in Nat
    BY <1>9, <1>a, <1>c DEF GrowNew, StageInv
  <2>2. CASE NoWrite /\ Return
    BY <1>d, <1>e, <2>2, FirstOutside
  <2>3. CASE NoWrite /\ pc' = "manage" /\ UNCHANGED loopVars
    BY <1>d, <1>h, <2>1, <2>3 DEF loopVars
  <2>4. CASE SetReplicas(cur, snap.tmpl, snap.want[cur]) /\ pc' = "manage" /\ UNCHANGED loopVars
    <3>1. PICK t \in Templates, n \in Nat : t = snap.tmpl /\ n = snap.want[cur]
      BY <1>a, <2>1
    <3>2. SetReplicas(cur, t, n) /\ \A o \in Templates \ {t} : Emptied(cur, o)
      BY <2>1, <2>4, <3>1
    <3>3. cache' = sub' /\ AloneInv' /\ GoneInv'
      BY <1>a, <3>2, FirstWrite
    <3>4. StageInv'
      BY <2>1, <2>4 DEF StageInv, loopVars
    <3> QED BY <3>3, <3>4 DEF FirstInv
  <2> QED BY <1>9, <1>g, <2>2, <2>3, <2>4 DEF GrowNew
<1>10. ASSUME NEW o \in Templates, SweepOld(o) PROVE FirstInv'
  <2>1. CASE NoWrite /\ Return
    BY <1>d, <1>e, <2>1, FirstOutside
  <2>2. CASE SetReplicas(cur, o, 0) /\ UNCHANGED <<pc, todo>> /\ pc \in {"sweep", "deleteAll"}
    <3>1. PICK n \in Nat : n = 0
      OBVIOUS
    <3>2. SetReplicas(cur, o, n)
      BY <2>2, <3>1
    <3>3. cache' = sub' /\ AloneInv' /\ GoneInv'
      BY <1>a, <3>1, <3>2, FirstWrite
    <3>4. StageInv'
      BY <1>c, <2>2 DEF StageInv
    <3> QED BY <3>3, <3>4 DEF FirstInv
  <2> QED BY <1>10, <2>1, <2>2 DEF SweepOld
<1>11. ASSUME NEW o \in Templates, DeleteSubset(o) PROVE FirstInv'
  <2>1. pc' = "delete" /\ Published
    BY <1>11 DEF DeleteSubset
  <2>2. sub' = [sub EXCEPT ![cur][o] = Absent]
    BY <1>11 DEF DeleteSubset
  <2>3. \A q \in Regions, u \in Templates : sub'[q][u] = sub[q][u] \/ sub'[q][u] = Absent
    BY <1>a, <2>2
  <2>4. \A q \in Regions, u \in Templates :
           /\ Emptied(q, u) => Emptied(q, u)'
           /\ sub'[q][u].spec > 0 => sub[q][u].spec > 0
           /\ ~sub'[q][u].live => ~sub[q][u].live \/ Emptied(q, u)'
    <3>1. Absent.spec = 0 /\ Absent.avail = 0
      BY DEF Absent
    <3> QED BY <2>3, <3>1 DEF Emptied
  <2>5. AloneInv' /\ GoneInv'
    BY <1>c, <2>4 DEF AloneInv, GoneInv
  <2>6. cache' = sub' /\ StageInv'
    BY <1>g, <2>1 DEF Published, StageInv
  <2> QED BY <2>5, <2>6 DEF FirstInv
<1>12. ASSUME NEW r \in Regions, NEW t \in Templates,
              PodAvailable(r, t) \/ PodsRemoved(r, t) \/ PodFails(r, t)
       PROVE  FirstInv'
  <2>1. ~Emptied(r, t)
    BY <1>b, <1>12 DEF PodAvailable, PodsRemoved, PodFails, Emptied
  <2>2. PICK n \in Nat : SetAvailable(r, t, n)
    <3>1. /\ sub[r][t].avail + 1 \in Nat /\ sub[r][t].spec \in Nat
          /\ sub[r][t].avail > 0 => sub[r][t].avail - 1 \in Nat
      BY <1>b
    <3> QED BY <1>12, <3>1 DEF PodAvailable, PodsRemoved, PodFails
  <2> QED BY <2>1, <2>2, FirstPods
<1>13. ASSUME NEW r \in Regions, NEW t \in Templates, CacheSync(r, t) PROVE FALSE
  BY <1>13, <1>c DEF CacheSync
<1> QED BY <1>1, <1>2, <1>3, <1>4, <1>5, <1>6, <1>7, <1>8, <1>9, <1>10, <1>11, <1>12, <1>13
        DEF Next, Controller

LEMMA FirstInit == Init => FirstInv
<1> SUFFICES ASSUME Init PROVE FirstInv
  OBVIOUS
<1>1. cache = sub /\ pc = "idle"
  BY DEF Init
<1>2. \A r \in Regions, t \in Templates :
         /\ t # 1 => Emptied(r, t)
         /\ ~sub[r][t].live => Emptied(r, t)
  BY DEF Init, NoSubsets, Absent, Running, Emptied
<1>3. AloneInv /\ GoneInv
  BY <1>2 DEF AloneInv, GoneInv, Emptied
<1>4. StageInv
  BY <1>1 DEF StageInv
<1> QED BY <1>1, <1>3, <1>4 DEF FirstInv

\* rolloutDeleteAllFirst: in any deployment with strategy DeleteAllFirst whose
\* cache of the subsets does not lag, whatever the user edits, rolls back and
\* scales, whatever pods fail and wherever reconciles are cut off, no subset of
\* a region asks for replicas while another one asks for some or has a pod left.
THEOREM OldPodsGoneFirst == ASSUME FirstScope PROVE Spec => []DeletedFirst
<1>1. FirstInv => DeletedFirst
  BY DEF FirstInv, AloneInv, Emptied, DeletedFirst
<1>2. TypeOK /\ FirstInv /\ [Next]_vars => FirstInv'
  BY FirstStep
<1> QED BY <1>1, <1>2, TypeInit, TypeStep, FirstInit, PTL DEF Spec
-----------------------------------------------------------------------------
(* RollingUpdate: counting the replicas of a region                        *)

\* Pods(size, ts) are the replicas that SpecReplicas counts.
Pods(size, ts) == UNION {{t} \X (1..size[t]) : t \in ts}
SizeOf(ss) == [t \in Templates |-> ss[t].spec]

LEMMA PodsCounted ==
    ASSUME NEW ss \in [Templates -> Subset], NEW ts \in SUBSET Templates
    PROVE  /\ SizeOf(ss) \in [Templates -> Nat] /\ IsFiniteSet(Pods(SizeOf(ss), ts))
           /\ SpecReplicas(ss, ts) = Cardinality(Pods(SizeOf(ss), ts))
           /\ SpecReplicas(ss, ts) \in Nat
<1>1. SizeOf(ss) \in [Templates -> Nat]
  BY DEF SizeOf, Subset
<1>2. {{t} \X (1..ss[t].spec) : t \in ts} = {{t} \X (1..SizeOf(ss)[t]) : t \in ts}
  BY DEF SizeOf
<1>3. IsFiniteSet(Pods(SizeOf(ss), ts))
  BY <1>1, ReplicasFinite DEF Pods
<1> QED BY <1>1, <1>2, <1>3, SpecReplicasType DEF SpecReplicas, Pods

\* Smaller subsets have fewer replicas in all.
LEMMA FewerReplicas ==
    ASSUME NEW ss \in [Templates -> Subset], NEW zz \in [Templates -> Subset],
           \A t \in Templates : zz[t].spec <= ss[t].spec
    PROVE  SpecReplicas(zz, Templates) <= SpecReplicas(ss, Templates)
<1>1. \A t \in Templates : /\ SizeOf(zz)[t] \in Nat /\ SizeOf(ss)[t] \in Nat
                           /\ SizeOf(zz)[t] <= SizeOf(ss)[t]
  BY DEF SizeOf, Subset
<1>2. \A t \in Templates : 1..SizeOf(zz)[t] \subseteq 1..SizeOf(ss)[t]
  BY <1>1
<1>3. Pods(SizeOf(zz), Templates) \subseteq Pods(SizeOf(ss), Templates)
  BY <1>2 DEF Pods
<1>4. /\ IsFiniteSet(Pods(SizeOf(ss), Templates))
      /\ SpecReplicas(ss, Templates) = Cardinality(Pods(SizeOf(ss), Templates))
      /\ SpecReplicas(zz, Templates) = Cardinality(Pods(SizeOf(zz), Templates))
  BY PodsCounted
<1>5. Cardinality(Pods(SizeOf(zz), Templates)) <= Cardinality(Pods(SizeOf(ss), Templates))
  BY <1>3, <1>4, FS_Subset
<1> QED BY <1>4, <1>5

\* A region has the replicas of its old subsets and those of the new one.
LEMMA OldAndNew ==
    ASSUME NEW ss \in [Templates -> Subset], NEW zz \in [Templates -> Subset],
           NEW t \in Templates,
           \A o \in Templates \ {t} : zz[o].spec = IF ss[o].live THEN ss[o].spec ELSE 0
    PROVE  SpecReplicas(zz, Templates) = SpecReplicas(ss, Olds(ss, t)) + zz[t].spec
<1> DEFINE olds == Olds(ss, t)
           A == Pods(SizeOf(ss), olds)
           B == {t} \X (1..zz[t].spec)
<1>1. olds \in SUBSET Templates /\ t \notin olds
  BY DEF Olds
<1>2. zz[t].spec \in Nat /\ \A o \in Templates : ss[o].spec \in Nat
  BY DEF Subset
<1>3. Pods(SizeOf(zz), Templates) = A \cup B
  <2>1. \A o \in olds : SizeOf(zz)[o] = SizeOf(ss)[o]
    BY <1>1 DEF SizeOf, Olds
  <2>2. \A o \in Templates \ olds : o # t => 1..SizeOf(zz)[o] = {}
    <3>1. \A o \in Templates \ olds : o # t => SizeOf(zz)[o] = 0
      BY DEF SizeOf, Olds
    <3> QED BY <3>1
  <2>3. SizeOf(zz)[t] = zz[t].spec
    BY DEF SizeOf
  <2>4. ASSUME NEW x \in Pods(SizeOf(zz), Templates) PROVE x \in A \cup B
    <3>1. PICK o \in Templates : x \in {o} \X (1..SizeOf(zz)[o])
      BY <2>4 DEF Pods
    <3> QED BY <2>1, <2>2, <2>3, <3>1 DEF Pods
  <2>5. ASSUME NEW x \in A PROVE x \in Pods(SizeOf(zz), Templates)
    BY <1>1, <2>1, <2>5 DEF Pods
  <2>6. B \subseteq Pods(SizeOf(zz), Templates)
    BY <2>3 DEF Pods
  <2> QED BY <2>4, <2>5, <2>6
<1>4. IsFiniteSet(B) /\ Cardinality(B) = zz[t].spec
  <2>1. IsFiniteSet(1..zz[t].spec) /\ Cardinality(1..zz[t].spec) = zz[t].spec
    BY <1>2, FS_Interval
  <2>2. IsFiniteSet({t}) /\ Cardinality({t}) = 1
    BY FS_Singleton
  <2>3. IsFiniteSet(B) /\ Cardinality(B) = Cardinality({t}) * Cardinality(1..zz[t].spec)
    <3>1. \A S, T : IsFiniteSet(S) /\ IsFiniteSet(T) =>
             IsFiniteSet(S \X T) /\ Cardinality(S \X T) = Cardinality(S) * Cardinality(T)
      BY FS_Product, Zenon
    <3> QED BY <2>1, <2>2, <3>1, Zenon
  <2> HIDE DEF B
  <2> QED BY <1>2, <2>1, <2>2, <2>3
<1>5. A \cap B = {}
  BY <1>1 DEF Pods
<1>6. IsFiniteSet(A) /\ SpecReplicas(ss, olds) = Cardinality(A) /\ Cardinality(A) \in Nat
  BY <1>1, PodsCounted
<1>7. SpecReplicas(zz, Templates) = Cardinality(A \cup B)
  BY <1>3, PodsCounted
<1>8. Cardinality(A \cup B) = Cardinality(A) + Cardinality(B) - Cardinality(A \cap B)
  BY <1>4, <1>6, FS_Union
<1>9. Cardinality(A \cap B) = 0
  BY <1>5, FS_EmptySet
<1> HIDE DEF A, B
<1> QED BY <1>2, <1>4, <1>6, <1>7, <1>8, <1>9

-----------------------------------------------------------------------------
(* RollingUpdate: the surge bound                                          *)

\* The deployments the theorem is about: the cache of the subsets does not lag
\* (that of the deployment may).
SurgeScope == UpdateStrategy = "RollingUpdate" /\ "subsets" \notin Lagging

\* What the reconcile has read of the existence and size of a subset still holds.
SameRead(r, t) == info[r][t].live = sub[r][t].live /\ info[r][t].spec = sub[r][t].spec

\* The same of the size of a subset that has not been deleted since.
SameSpec(r, t) == sub[r][t].live => info[r][t].spec = sub[r][t].spec

RollInv ==
    /\ pc \notin {"shrink", "grow", "deleteAll"}
    /\ pc # "idle" => snap.want \in [Regions -> Sizes]
    /\ pc \in {"confirm", "manage", "cleanup", "rollOld"} =>
          \A r \in todo, t \in Templates : SameRead(r, t)
    /\ pc \in {"cleanup", "rollOld"} => cur \notin todo
    /\ pc = "cleanup" =>
          snap.tmpl \notin rest /\ \A o \in Templates \ {snap.tmpl} : SameSpec(cur, o)
    /\ pc = "rollOld" => \A o \in rest : SameSpec(cur, o)

DeadInv == \A r \in Regions, t \in Templates : ~sub[r][t].live => sub[r][t].spec = 0

\* The inductive invariant behind SurgeBound: a new subset is made larger on sizes
\* that still hold, and old ones are only made smaller.
SurgeInv == cache = sub /\ SurgeBound /\ DeadInv /\ RollInv

\* No subset becomes larger.
LEMMA SurgeShrunk ==
    ASSUME TypeOK, TypeOK', SurgeBound,
           \A r \in Regions, t \in Templates : sub'[r][t].spec <= sub[r][t].spec
    PROVE  SurgeBound'
<1> SUFFICES ASSUME UpdateStrategy = "RollingUpdate", NEW r \in Regions
             PROVE  \E n \in Sizes : SpecReplicas(sub'[r], Templates) <= n + MaxSurge
  BY DEF SurgeBound
<1>1. PICK n \in Sizes : SpecReplicas(sub[r], Templates) <= n + MaxSurge
  BY DEF SurgeBound
<1>2. sub[r] \in [Templates -> Subset] /\ sub'[r] \in [Templates -> Subset]
  BY DEF TypeOK, StoreOK
<1>3. SpecReplicas(sub'[r], Templates) <= SpecReplicas(sub[r], Templates)
  BY <1>2, FewerReplicas
<1>4. /\ SpecReplicas(sub'[r], Templates) \in Nat /\ SpecReplicas(sub[r], Templates) \in Nat
      /\ n \in Nat /\ MaxSurge \in Nat
  BY <1>2, SpecReplicasType, RolloutAssumption
<1>5. SpecReplicas(sub'[r], Templates) <= n + MaxSurge
  BY <1>1, <1>3, <1>4
<1> QED BY <1>5

\* Only the new subset of r may become larger, to a size within the surge.
LEMMA SurgeGrown ==
    ASSUME TypeOK, TypeOK', SurgeBound, NEW r \in Regions, NEW t \in Templates,
           NEW want \in Sizes,
           \A q \in Regions, u \in Templates : q # r \/ u # t => sub'[q][u] = sub[q][u],
           \A o \in Templates \ {t} :
              sub[r][o].spec = IF info[r][o].live THEN info[r][o].spec ELSE 0,
           SpecReplicas(info[r], Olds(info[r], t)) + sub'[r][t].spec <= want + MaxSurge
    PROVE  SurgeBound'
<1> SUFFICES ASSUME UpdateStrategy = "RollingUpdate", NEW q \in Regions
             PROVE  \E n \in Sizes : SpecReplicas(sub'[q], Templates) <= n + MaxSurge
  BY DEF SurgeBound
<1>1. /\ sub[q] \in [Templates -> Subset] /\ sub'[q] \in [Templates -> Subset]
      /\ info[r] \in [Templates -> Subset]
  BY DEF TypeOK, StoreOK, LoopOK
<1>2. CASE q = r
  <2>1. \A o \in Templates \ {t} :
           sub'[r][o].spec = IF info[r][o].live THEN info[r][o].spec ELSE 0
    OBVIOUS
  <2>2. SpecReplicas(sub'[r], Templates)
          = SpecReplicas(info[r], Olds(info[r], t)) + sub'[r][t].spec
    BY <1>1, <1>2, <2>1, OldAndNew
  <2> QED BY <1>2, <2>2
<1>3. CASE q # r
  <2>1. sub'[q] = sub[q]
    BY <1>1, <1>3
  <2> QED BY <2>1 DEF SurgeBound
<1> QED BY <1>2, <1>3

\* ScaleSubset changes the size of one subset.
LEMMA SurgeWritten ==
    ASSUME SurgeScope, TypeOK, NEW r \in Regions, NEW t \in Templates, NEW n \in Nat,
           SetReplicas(r, t, n)
    PROVE  /\ cache' = sub' /\ sub[r][t].live
           /\ \A q \in Regions, u \in Templates :
                 /\ q # r \/ u # t => sub'[q][u] = sub[q][u]
                 /\ sub'[q][u].live = sub[q][u].live
           /\ sub'[r][t].spec = n /\ (DeadInv => DeadInv')
<1>1. /\ sub \in [Regions -> [Templates -> Subset]]
      /\ sub' = [sub EXCEPT ![r][t] = WithSpec(sub[r][t], n)] /\ sub[r][t].live
  BY DEF TypeOK, StoreOK, SetReplicas, CacheCurrent
<1>2. cache' = sub'
  BY DEF SurgeScope, SetReplicas, Published
<1>3. /\ \A q \in Regions, u \in Templates :
            /\ q # r \/ u # t => sub'[q][u] = sub[q][u]
            /\ sub'[q][u].live = sub[q][u].live
      /\ sub'[r][t].spec = n
  BY <1>1 DEF WithSpec
<1>4. sub'[r][t].live
  BY <1>1, <1>3
<1>5. DeadInv => DeadInv'
  <2> SUFFICES ASSUME DeadInv, NEW q \in Regions, NEW u \in Templates, ~sub'[q][u].live
               PROVE  sub'[q][u].spec = 0
    BY DEF DeadInv
  <2>1. q # r \/ u # t
    BY <1>4
  <2> QED BY <1>3, <2>1 DEF DeadInv
<1> QED BY <1>1, <1>2, <1>3, <1>5

\* No subset is written, and the reconcile ends or goes on elsewhere.
LEMMA SurgeOutside ==
    ASSUME SurgeInv, UNCHANGED <<sub, cache>>,
           pc' \in {"idle", "refresh", "wait", "saturated", "clean", "sweep", "delete"},
           pc' = "idle" \/ (pc # "idle" /\ UNCHANGED snap)
    PROVE  SurgeInv'
<1>1. SurgeBound' /\ DeadInv'
  BY DEF SurgeInv, SurgeBound, DeadInv
<1>2. RollInv'
  BY DEF SurgeInv, RollInv
<1> QED BY <1>1, <1>2 DEF SurgeInv

\* Only what the reconcile does not look at changes.
LEMMA SurgeFrame ==
    ASSUME TypeOK, TypeOK', SurgeInv, UNCHANGED <<pc, loopVars>>, cache' = sub',
           \A r \in Regions, t \in Templates :
              sub'[r][t].live = sub[r][t].live /\ sub'[r][t].spec = sub[r][t].spec
    PROVE  SurgeInv'
<1>1. UNCHANGED <<pc, snap, info, todo, cur, rest>>
  BY DEF loopVars
<1>2. /\ todo \subseteq Regions /\ cur \in Regions /\ rest \subseteq Templates
      /\ \A r \in Regions, t \in Templates : sub[r][t].spec \in Nat
  BY DEF TypeOK, StoreOK, LoopOK, Subset
<1>3. SurgeBound'
  BY <1>2, SurgeShrunk DEF SurgeInv
<1>4. DeadInv'
  BY DEF SurgeInv, DeadInv
<1>5. \A r \in Regions, t \in Templates : /\ SameRead(r, t) => SameRead(r, t)'
  BY <1>1 DEF SameRead
<1>6. \A t \in Templates : SameSpec(cur, t) => SameSpec(cur, t)'
  BY <1>1, <1>2 DEF SameSpec
<1>7. RollInv'
  BY <1>1, <1>2, <1>5, <1>6 DEF SurgeInv, RollInv
<1> QED BY <1>3, <1>4, <1>7 DEF SurgeInv

\* Every step keeps the invariant.
LEMMA SurgeStep ==
    ASSUME SurgeScope, TypeOK, TypeOK', SurgeInv, [Next]_vars
    PROVE  SurgeInv'
<1> USE RolloutAssumption
<1>a. /\ info \in [Regions -> [Templates -> Subset]] /\ sub \in [Regions -> [Templates -> Subset]]
      /\ cur \in Regions /\ rest \subseteq Templates /\ snap.tmpl \in Templates
      /\ snap.want \in [Regions -> Nat] /\ todo \subseteq Regions /\ left \in Int
  BY DEF TypeOK, StoreOK, LoopOK
<1>b. \A r \in Regions, t \in Templates :
        /\ info[r][t].spec \in Nat /\ info[r][t].avail \in Nat
        /\ sub[r][t].spec \in Nat /\ sub[r][t].avail \in Nat
  BY <1>a DEF Subset
<1>c. cache = sub /\ SurgeBound /\ DeadInv /\ RollInv
  BY DEF SurgeInv
<1>d. UNCHANGED storeVars \/ NoWrite => UNCHANGED <<sub, cache>>
  BY DEF storeVars, NoWrite
<1>e. Return => pc' = "idle"
  BY DEF Return
<1>f. pc \notin {"shrink", "grow", "deleteAll"}
  BY <1>c DEF RollInv
<1>g. UpdateStrategy = "RollingUpdate" /\ "subsets" \notin Lagging
  BY DEF SurgeScope
<1>1. CASE SyncRevisions \/ SyncRevisionsFails \/ Timeout \/ DeploymentSync \/ UserConfirm
           \/ UNCHANGED vars \/ (\E t \in Templates : UserApply(t))
           \/ (\E r \in Regions, n \in Sizes : UserScale(r, n))
  <2>1. UNCHANGED <<sub, cache, pc, loopVars>>
    BY <1>1, <1>d DEF SyncRevisions, SyncRevisionsFails, Timeout, DeploymentSync, UserConfirm,
                      UserApply, UserScale, vars, loopVars
  <2> QED BY <1>c, <2>1, SurgeFrame
<1>2. CASE RefreshStatus \/ WaitStatus \/ SaturatedStatus \/ StatusConflict \/ CleanOldSubsets
           \/ CleanOldDone \/ CleanDone \/ Abort \/ \E r \in Regions : CleanRegion(r)
  <2>1. /\ UNCHANGED <<sub, cache>> /\ pc' \in {"idle", "clean", "sweep", "delete"}
        /\ pc' = "idle" \/ (pc # "idle" /\ UNCHANGED snap)
    BY <1>2, <1>d, <1>e DEF RefreshStatus, WaitStatus, SaturatedStatus, StatusConflict,
                            CleanOldSubsets, CleanOldDone, CleanDone, Abort, CleanRegion, loopVars
  <2> QED BY <2>1, SurgeOutside
<1>3. CASE CleanupDone \/ ShrinkDone \/ GrowNew \/ DeleteAllDone
           \/ (\E r \in Regions : RecreateRegion(r) \/ DeleteAllFirstRegion(r))
           \/ (\E o \in Templates : ShrinkOld(o))
  BY <1>3, <1>f, <1>g DEF CleanupDone, ShrinkDone, GrowNew, DeleteAllDone, RecreateRegion,
                          DeleteAllFirstRegion, ShrinkOld
<1>4. CASE ReconcileStart
  <2>1. /\ UNCHANGED <<sub, cache>> /\ info' = sub /\ todo' = Regions /\ snap'.want = Seen.desired
        /\ pc' \in {"saturated", "manage", "wait", "confirm"}
    BY <1>4, <1>c, <1>d DEF ReconcileStart, TermFlags
  <2>2. \A r \in Regions, t \in Templates : SameRead(r, t)'
    BY <2>1 DEF SameRead
  <2>3. Seen.desired \in [Regions -> Sizes]
    BY DEF Seen, Deployment, TypeOK, UserOK, StatusOK
  <2>4. RollInv'
    BY <2>1, <2>2, <2>3 DEF RollInv
  <2>5. SurgeBound' /\ DeadInv'
    BY <1>c, <2>1 DEF SurgeBound, DeadInv
  <2> QED BY <1>c, <2>1, <2>4, <2>5 DEF SurgeInv
\* On with the regions: nothing is written.
<1>h. ASSUME UNCHANGED <<sub, cache, snap, info, todo>>, pc' = "manage",
             pc \in {"confirm", "cleanup", "rollOld"}
      PROVE  SurgeInv'
  <2>1. \A r \in todo', t \in Templates : SameRead(r, t)'
    BY <1>c, <1>h DEF RollInv, SameRead
  <2>2. SurgeBound' /\ DeadInv'
    BY <1>c, <1>h DEF SurgeBound, DeadInv
  <2>3. RollInv'
    BY <1>c, <1>h, <2>1 DEF RollInv
  <2> QED BY <1>c, <1>h, <2>2, <2>3 DEF SurgeInv
<1>i. NoWrite /\ Return => SurgeInv'
  BY <1>d, <1>e, SurgeOutside
<1>5. CASE CheckUpgradeConfirm
  <2>1. /\ UNCHANGED <<sub, cache>> /\ pc = "confirm"
        /\ pc' = "idle" \/ (pc' \in {"refresh", "manage"} /\ UNCHANGED <<snap, info, todo>>)
    BY <1>5, <1>d, <1>e DEF CheckUpgradeConfirm, loopVars
  <2> QED BY <1>h, <2>1, SurgeOutside
<1>6. CASE RollOldDone
  BY <1>6, <1>d, <1>h DEF RollOldDone, loopVars
\* What is known of a region whose turn it is.
<1>j. ASSUME NEW r \in todo, pc = "manage"
      PROVE  /\ r \in Regions /\ snap.want[r] \in Sizes /\ snap.want[r] \in Nat
             /\ \A t \in Templates : SameRead(r, t)
             /\ \A o \in Templates :
                   sub[r][o].spec = IF info[r][o].live THEN info[r][o].spec ELSE 0
  <2>1. r \in Regions /\ snap.want[r] \in Sizes /\ \A t \in Templates : SameRead(r, t)
    BY <1>a, <1>c, <1>j DEF RollInv
  <2>2. \A o \in Templates : sub[r][o].spec = IF info[r][o].live THEN info[r][o].spec ELSE 0
    BY <1>c, <2>1 DEF SameRead, DeadInv
  <2> QED BY <2>1, <2>2
<1>7. ASSUME NEW r \in Regions, NewSubset(r) PROVE SurgeInv'
  <2> DEFINE t    == snap.tmpl
             want == snap.want[r]
             old  == SpecReplicas(info[r], Olds(info[r], t))
             size == RollingReplicas(want, old, 0)
  <2>1. pc = "manage" /\ r \in todo /\ pc' = "idle"
    BY <1>7, <1>e DEF NewSubset
  <2>2. CASE NoWrite
    BY <1>d, <2>1, <2>2, SurgeOutside
  <2>3. CASE ~NoWrite
    <3>1. /\ \E new : sub' = [sub EXCEPT ![r][t] = new] /\ new.live /\ new.spec = size
          /\ Published /\ ~sub[r][t].live
      BY <1>7, <1>g, <2>3 DEF NewSubset
    <3>2. cache' = sub'
      BY <1>g, <3>1 DEF Published
    <3>3. /\ \A q \in Regions, u \in Templates : q # r \/ u # t => sub'[q][u] = sub[q][u]
          /\ sub'[r][t].live /\ sub'[r][t].spec = size
      BY <1>a, <3>1
    <3>4. old \in Nat /\ want \in Nat /\ want \in Sizes
      BY <1>a, <1>j, <2>1, CountsType
    <3>5. size = 0 \/ old + size <= want + MaxSurge
      <4>1. \A w, k \in Nat : \/ RollingReplicas(w, k, 0) = 0
                              \/ k + RollingReplicas(w, k, 0) <= w + MaxSurge
        BY DEF RollingReplicas, Lesser
      <4> QED BY <3>4, <4>1
    <3> HIDE DEF size, old, want, t
    <3>6. sub[r][t].spec = 0 /\ t \in Templates
      BY <1>a, <1>c, <3>1 DEF DeadInv, t
    <3>7. SurgeBound'
      <4>1. CASE size = 0
        <5>1. \A q \in Regions, u \in Templates : sub'[q][u].spec <= sub[q][u].spec
          BY <1>b, <3>3, <3>6, <4>1
        <5> QED BY <1>c, <5>1, SurgeShrunk
      <4>2. CASE old + size <= want + MaxSurge
        <5>1. \A o \in Templates \ {t} :
                 sub[r][o].spec = IF info[r][o].live THEN info[r][o].spec ELSE 0
          BY <1>j, <2>1
        <5>2. SpecReplicas(info[r], Olds(info[r], t)) + sub'[r][t].spec <= want + MaxSurge
          BY <3>3, <4>2 DEF old
        <5> QED BY <1>c, <3>3, <3>4, <3>6, <5>1, <5>2, SurgeGrown
      <4> QED BY <3>5, <4>1, <4>2
    <3>8. DeadInv'
      BY <1>c, <3>3 DEF DeadInv
    <3>9. RollInv'
      BY <2>1 DEF RollInv
    <3> QED BY <3>2, <3>7, <3>8, <3>9 DEF SurgeInv
  <2> QED BY <2>2, <2>3
<1>8. ASSUME NEW r \in Regions, RollingRegion(r) PROVE SurgeInv'
  <2> DEFINE t     == snap.tmpl
             new   == info[r][t]
             want  == snap.want[r]
             old   == SpecReplicas(info[r], Olds(info[r], t))
             n     == IF new.spec >= want THEN want
                                          ELSE RollingReplicas(want, old + new.spec, new.spec)
             Go    == /\ pc' \in {"manage", "cleanup"} /\ cur' = r
                      /\ rest' = Olds(info[r], t) /\ todo' = todo \ {r} /\ UNCHANGED <<snap, info>>
  <2>1. pc = "manage" /\ r \in todo
    BY <1>8 DEF RollingRegion
  <2>2. old \in Nat /\ want \in Nat /\ want \in Sizes /\ new.spec \in Nat
    BY <1>a, <1>b, <1>j, <2>1, CountsType
  <2>3. n \in Nat /\ (n <= new.spec \/ old + n <= want + MaxSurge)
    <3>1. PICK w \in Nat : w = want
      BY <2>2
    <3>2. PICK k \in Nat : k = old
      BY <2>2
    <3>3. PICK m \in Nat : m = new.spec
      BY <2>2
    <3>4. n = IF m >= w THEN w ELSE RollingReplicas(w, k + m, m)
      BY <3>1, <3>2, <3>3
    <3>5. n \in Nat /\ (n <= m \/ k + n <= w + MaxSurge)
      <4> HIDE DEF n
      <4>1. CASE m >= w
        BY <3>4, <4>1
      <4>2. CASE m < w
        <5>1. n = RollingReplicas(w, k + m, m)
          BY <3>4, <4>2
        <5> QED BY <4>2, <5>1 DEF RollingReplicas, Lesser
      <4> QED BY <4>1, <4>2
    <3> QED BY <3>1, <3>2, <3>3, <3>5
  <2>4. (NoWrite /\ Return) \/ (NoWrite /\ Go) \/ (SetReplicas(r, t, n) /\ Go)
    BY <1>8 DEF RollingRegion
  <2>5. \A q \in todo, u \in Templates : SameRead(q, u)
    BY <1>c, <2>1 DEF RollInv
  <2> HIDE DEF n
  \* The region is left to its old subsets.
  <2>6. ASSUME Go, \A q \in Regions, u \in Templates : q # r \/ u # t => sub'[q][u] = sub[q][u]
        PROVE  RollInv'
    <3>1. \A q \in todo', u \in Templates : SameRead(q, u)'
      BY <1>a, <2>5, <2>6 DEF SameRead
    <3>2. \A o \in Templates \ {snap'.tmpl} : SameSpec(cur, o)'
      BY <2>1, <2>5, <2>6 DEF SameRead, SameSpec
    <3>3. cur' \notin todo' /\ snap'.tmpl \notin rest' /\ snap'.want \in [Regions -> Sizes]
      BY <1>c, <2>1, <2>6 DEF Olds, RollInv
    <3> QED BY <2>6, <3>1, <3>2, <3>3 DEF RollInv
  <2>7. CASE NoWrite /\ Return
    BY <1>i, <2>7
  <2>8. CASE NoWrite /\ Go
    <3>1. UNCHANGED <<sub, cache>>
      BY <1>d, <2>8
    <3>2. SurgeBound' /\ DeadInv'
      BY <1>c, <3>1 DEF SurgeBound, DeadInv
    <3>3. RollInv'
      BY <2>6, <2>8, <3>1
    <3> QED BY <1>c, <3>1, <3>2, <3>3 DEF SurgeInv
  <2>9. CASE SetReplicas(r, t, n) /\ Go
    <3> HIDE DEF Go, t, old, want
    <3>1. t \in Templates
      BY <1>a DEF t
    <3>2. /\ cache' = sub' /\ sub[r][t].live
          /\ \A q \in Regions, u \in Templates :
                /\ q # r \/ u # t => sub'[q][u] = sub[q][u]
                /\ sub'[q][u].live = sub[q][u].live
          /\ sub'[r][t].spec = n
      BY <2>3, <2>9, <3>1, SurgeWritten
    <3>3. SurgeBound'
      <4>1. CASE n <= new.spec
        <5>1. new.spec = sub[r][t].spec
          BY <2>1, <2>5, <3>1 DEF SameRead
        <5>2. sub'[r][t].spec <= sub[r][t].spec
          BY <3>2, <4>1, <5>1
        <5>3. \A q \in Regions, u \in Templates : sub'[q][u].spec <= sub[q][u].spec
          BY <1>b, <3>2, <5>2
        <5> QED BY <1>c, <5>3, SurgeShrunk
      <4>2. CASE old + n <= want + MaxSurge
        <5>1. \A o \in Templates \ {t} :
                 sub[r][o].spec = IF info[r][o].live THEN info[r][o].spec ELSE 0
          BY <1>j, <2>1
        <5>2. SpecReplicas(info[r], Olds(info[r], t)) + sub'[r][t].spec <= want + MaxSurge
          BY <3>2, <4>2 DEF old
        <5> QED BY <1>c, <2>2, <3>1, <3>2, <5>1, <5>2, SurgeGrown
      <4> QED BY <2>3, <4>1, <4>2
    <3>4. DeadInv'
      BY <1>c, <3>2 DEF DeadInv
    <3>5. RollInv'
      BY <2>6, <2>9, <3>2
    <3> QED BY <3>2, <3>3, <3>4, <3>5 DEF SurgeInv
  <2> HIDE DEF Go
  <2> QED BY <2>4, <2>7, <2>8, <2>9
\* Nothing becomes larger, and what the reconcile still has to do it has read.
<1>k. ASSUME cache' = sub', DeadInv', RollInv',
             \A q \in Regions, u \in Templates : sub'[q][u].spec <= sub[q][u].spec
      PROVE  SurgeInv'
  <2>1. SurgeBound'
    BY <1>c, <1>k, SurgeShrunk
  <2> QED BY <1>k, <2>1 DEF SurgeInv
<1>9. ASSUME NEW o \in Templates, CleanupUnhealthyReplicas(o) PROVE SurgeInv'
  <2> DEFINE old   == info[cur][o]
             count == Lesser(old.spec - old.avail, left)
             n     == old.spec - count
             Go    == rest' = rest \ {o} /\ UNCHANGED <<pc, snap, todo, cur>>
  <2>1. /\ pc = "cleanup" /\ o \in rest /\ left > 0 /\ o # snap.tmpl /\ cur \notin todo
        /\ snap.tmpl \notin rest /\ snap.want \in [Regions -> Sizes]
        /\ \A q \in Templates \ {snap.tmpl} : SameSpec(cur, q)
        /\ \A r \in todo, t \in Templates : SameRead(r, t)
    BY <1>9, <1>c DEF CleanupUnhealthyReplicas, RollInv
  <2>2. old.avail < old.spec => n \in Nat /\ n <= old.spec
    BY <1>a, <1>b, <2>1 DEF Lesser
  <2>3. \/ NoWrite /\ Return
        \/ NoWrite /\ pc' = "manage" /\ UNCHANGED loopVars
        \/ NoWrite /\ UNCHANGED info /\ Go
        \/ /\ sub' = [sub EXCEPT ![cur][o] = Absent] /\ Published
           /\ info' = [info EXCEPT ![cur][o] = Deleted(old)] /\ Go
        \/ /\ old.avail < old.spec /\ SetReplicas(cur, o, n)
           /\ info' = [info EXCEPT ![cur][o] = WithSpec(old, n)] /\ Go
    BY <1>9 DEF CleanupUnhealthyReplicas
  <2> HIDE DEF n
  \* The loop goes on.
  <2>4. ASSUME Go,
               \A r \in Regions, t \in Templates :
                  r # cur \/ t # o => sub'[r][t] = sub[r][t] /\ info'[r][t] = info[r][t],
               SameSpec(cur, o)'
        PROVE  RollInv'
    <3>1. \A r \in todo', t \in Templates : SameRead(r, t)'
      BY <1>a, <2>1, <2>4 DEF SameRead
    <3>2. \A q \in Templates \ {snap'.tmpl} : SameSpec(cur, q)'
      BY <1>a, <2>1, <2>4 DEF SameSpec
    <3> QED BY <2>1, <2>4, <3>1, <3>2 DEF RollInv
  <2>5. CASE NoWrite /\ Return
    BY <1>i, <2>5
  <2>6. CASE NoWrite /\ pc' = "manage" /\ UNCHANGED loopVars
    BY <1>d, <1>h, <2>1, <2>6 DEF loopVars
  <2>7. CASE NoWrite /\ UNCHANGED info /\ Go
    <3>1. UNCHANGED <<sub, cache, info, cur>>
      BY <1>d, <2>7
    <3>2. DeadInv' /\ SameSpec(cur, o)'
      BY <1>c, <2>1, <3>1 DEF DeadInv, SameSpec
    <3>3. RollInv'
      BY <2>4, <2>7, <3>1, <3>2
    <3> QED BY <1>b, <1>c, <1>k, <3>1, <3>2, <3>3
  <2>8. CASE /\ sub' = [sub EXCEPT ![cur][o] = Absent] /\ Published
             /\ info' = [info EXCEPT ![cur][o] = Deleted(old)] /\ Go
    <3>1. cache' = sub'
      BY <1>g, <2>8 DEF Published
    <3>2. /\ \A r \in Regions, t \in Templates :
                r # cur \/ t # o => sub'[r][t] = sub[r][t] /\ info'[r][t] = info[r][t]
          /\ sub'[cur][o] = Absent
      BY <1>a, <2>8
    <3>3. Absent.spec = 0 /\ ~Absent.live
      BY DEF Absent
    <3>4. SameSpec(cur, o)'
      BY <2>8, <3>2, <3>3 DEF SameSpec
    <3>5. DeadInv'
      BY <1>c, <3>2, <3>3 DEF DeadInv
    <3>6. \A q \in Regions, u \in Templates : sub'[q][u].spec <= sub[q][u].spec
      BY <1>b, <3>2, <3>3
    <3>7. RollInv'
      BY <2>4, <2>8, <3>2, <3>4
    <3> QED BY <1>k, <3>1, <3>5, <3>6, <3>7
  <2>9. CASE /\ old.avail < old.spec /\ SetReplicas(cur, o, n)
             /\ info' = [info EXCEPT ![cur][o] = WithSpec(old, n)] /\ Go
    <3>1. n \in Nat /\ n <= old.spec
      BY <2>2, <2>9
    <3>2. /\ cache' = sub' /\ sub[cur][o].live
          /\ \A q \in Regions, u \in Templates :
                /\ q # cur \/ u # o => sub'[q][u] = sub[q][u]
                /\ sub'[q][u].live = sub[q][u].live
          /\ sub'[cur][o].spec = n /\ (DeadInv => DeadInv')
      BY <1>a, <2>9, <3>1, SurgeWritten
    <3>3. /\ \A r \in Regions, t \in Templates : r # cur \/ t # o => info'[r][t] = info[r][t]
          /\ info'[cur][o].spec = n
      BY <1>a, <2>9 DEF WithSpec
    <3>4. SameSpec(cur, o)'
      BY <2>9, <3>2, <3>3 DEF SameSpec
    <3>5. n <= sub[cur][o].spec
      BY <2>1, <3>1, <3>2 DEF SameSpec
    <3>6. \A q \in Regions, u \in Templates : sub'[q][u].spec <= sub[q][u].spec
      BY <1>b, <3>2, <3>5
    <3>7. DeadInv'
      BY <1>c, <3>2
    <3>8. RollInv'
      BY <2>4, <2>9, <3>2, <3>3, <3>4
    <3> QED BY <1>k, <3>2, <3>6, <3>7, <3>8
  <2> HIDE DEF Go
  <2> QED BY <2>3, <2>5, <2>6, <2>7, <2>8, <2>9
<1>10. CASE RollOlds
  <2>1. /\ pc = "cleanup" /\ pc' = "rollOld" /\ UNCHANGED <<sub, cache, snap, info, todo, cur>>
        /\ rest' = {o \in Templates \ {snap.tmpl} : info[cur][o].spec > 0}
    BY <1>10, <1>d DEF RollOlds
  <2>2. \A r \in todo', t \in Templates : SameRead(r, t)'
    BY <1>c, <2>1 DEF RollInv, SameRead
  <2>3. \A o \in rest' : SameSpec(cur, o)'
    BY <1>c, <2>1 DEF RollInv, SameSpec
  <2>4. RollInv'
    BY <1>c, <2>1, <2>2, <2>3 DEF RollInv
  <2>5. DeadInv'
    BY <1>c, <2>1 DEF DeadInv
  <2> QED BY <1>b, <1>c, <1>k, <2>1, <2>4, <2>5
<1>11. ASSUME NEW o \in Templates, RollOld(o) PROVE SurgeInv'
  <2> DEFINE count == Lesser(info[cur][o].spec, left)
             n     == info[cur][o].spec - count
  <2>1. /\ pc = "rollOld" /\ o \in rest /\ left > 0 /\ SameSpec(cur, o) /\ cur \notin todo
        /\ snap.want \in [Regions -> Sizes]
        /\ \A r \in todo, t \in Templates : SameRead(r, t)
        /\ \A q \in rest : SameSpec(cur, q)
    BY <1>11, <1>c DEF RollOld, RollInv
  <2>2. CASE NoWrite /\ pc' = "manage" /\ UNCHANGED loopVars
    BY <1>d, <1>h, <2>1, <2>2 DEF loopVars
  <2>3. CASE /\ SetReplicas(cur, o, n) /\ rest' = rest \ {o}
             /\ UNCHANGED <<pc, snap, info, todo, cur>>
    <3>1. n \in Nat /\ n <= info[cur][o].spec
      BY <1>a, <1>b, <2>1 DEF Lesser
    <3> HIDE DEF n
    <3>2. /\ cache' = sub' /\ sub[cur][o].live
          /\ \A q \in Regions, u \in Templates :
                /\ q # cur \/ u # o => sub'[q][u] = sub[q][u]
                /\ sub'[q][u].live = sub[q][u].live
          /\ sub'[cur][o].spec = n /\ (DeadInv => DeadInv')
      BY <1>a, <2>3, <3>1, SurgeWritten
    <3>3. n <= sub[cur][o].spec
      BY <2>1, <3>1, <3>2 DEF SameSpec
    <3>4. \A q \in Regions, u \in Templates : sub'[q][u].spec <= sub[q][u].spec
      BY <1>b, <3>2, <3>3
    <3>5. DeadInv'
      BY <1>c, <3>2
    <3>6. \A r \in todo', t \in Templates : SameRead(r, t)'
      BY <1>a, <2>1, <2>3, <3>2 DEF SameRead
    <3>7. \A q \in rest' : SameSpec(cur, q)'
      BY <1>a, <2>1, <2>3, <3>2 DEF SameSpec
    <3>8. RollInv'
      BY <2>1, <2>3, <3>6, <3>7 DEF RollInv
    <3> QED BY <1>k, <3>2, <3>4, <3>5, <3>8
  <2> QED BY <1>11, <2>2, <2>3 DEF RollOld
<1>12. ASSUME NEW o \in Templates, SweepOld(o) PROVE SurgeInv'
  <2>1. CASE NoWrite /\ Return
    BY <1>i, <2>1
  <2>2. CASE SetReplicas(cur, o, 0) /\ UNCHANGED <<pc, snap>> /\ pc \in {"sweep", "deleteAll"}
    <3>1. PICK n \in Nat : n = 0
      OBVIOUS
    <3>2. SetReplicas(cur, o, n)
      BY <2>2, <3>1
    <3>3. /\ cache' = sub'
          /\ \A q \in Regions, u \in Templates :
                /\ q # cur \/ u # o => sub'[q][u] = sub[q][u]
                /\ sub'[q][u].live = sub[q][u].live
          /\ sub'[cur][o].spec = n /\ (DeadInv => DeadInv')
      <4>1. cur \in Regions
        BY <1>a
      <4> QED BY <3>2, <4>1, SurgeWritten
    <3>4. \A q \in Regions, u \in Templates : sub'[q][u].spec <= sub[q][u].spec
      BY <1>b, <3>1, <3>3
    <3>5. DeadInv'
      BY <1>c, <3>3
    <3>6. RollInv'
      BY <1>c, <2>2 DEF RollInv
    <3> QED BY <1>k, <3>3, <3>4, <3>5, <3>6
  <2> QED BY <1>12, <2>1, <2>2 DEF SweepOld
<1>13. ASSUME NEW o \in Templates, DeleteSubset(o) PROVE SurgeInv'
  <2>1. pc = "delete" /\ pc' = "delete" /\ UNCHANGED snap /\ Published
    BY <1>13 DEF DeleteSubset
  <2>2. sub' = [sub EXCEPT ![cur][o] = Absent]
    BY <1>13 DEF DeleteSubset
  <2>3. \A q \in Regions, u \in Templates : sub'[q][u] = sub[q][u] \/ sub'[q][u] = Absent
    BY <1>a, <2>2
  <2>4. Absent.spec = 0
    BY DEF Absent
  <2>5. \A q \in Regions, u \in Templates : sub'[q][u].spec <= sub[q][u].spec
    <3>1. \A q \in Regions, u \in Templates :
             sub'[q][u].spec = sub[q][u].spec \/ sub'[q][u].spec = 0
      BY <2>3, <2>4
    <3> QED BY <1>b, <3>1
  <2>6. DeadInv'
    BY <1>c, <2>3, <2>4 DEF DeadInv
  <2>7. cache' = sub' /\ RollInv'
    BY <1>c, <1>g, <2>1 DEF Published, RollInv
  <2> QED BY <1>k, <2>5, <2>6, <2>7
<1>14. ASSUME NEW r \in Regions, NEW t \in Templates,
              PodAvailable(r, t) \/ PodsRemoved(r, t) \/ PodFails(r, t)
       PROVE  SurgeInv'
  <2>1. PICK n : SetAvailable(r, t, n)
    BY <1>14 DEF PodAvailable, PodsRemoved, PodFails
  <2>2. /\ UNCHANGED <<pc, loopVars>> /\ cache' = sub'
        /\ sub' = [sub EXCEPT ![r][t] = WithAvail(sub[r][t], n)]
    BY <1>g, <2>1 DEF SetAvailable, Published
  <2>3. \A q \in Regions, u \in Templates :
           sub'[q][u].live = sub[q][u].live /\ sub'[q][u].spec = sub[q][u].spec
    BY <1>a, <2>2 DEF WithAvail
  <2> QED BY <2>2, <2>3, SurgeFrame
<1>15. ASSUME NEW r \in Regions, NEW t \in Templates, CacheSync(r, t) PROVE FALSE
  BY <1>15, <1>c DEF CacheSync
<1> QED BY <1>1, <1>2, <1>3, <1>4, <1>5, <1>6, <1>7, <1>8, <1>9, <1>10, <1>11, <1>12, <1>13, <1>14,
           <1>15 DEF Next, Controller

LEMMA SurgeInit == Init => SurgeInv
<1> SUFFICES ASSUME Init PROVE SurgeInv
  OBVIOUS
<1>1. cache = sub /\ pc = "idle" /\ desired \in [Regions -> Sizes]
  BY DEF Init
<1>2. /\ sub \in [Regions -> [Templates -> Subset]] /\ 1 \in Templates /\ MaxSurge \in Nat
      /\ \A n \in Sizes : n \in Nat
  BY TypeInit, RolloutAssumption DEF TypeOK, StoreOK
<1>3. \A r \in Regions, t \in Templates : t # 1 \/ ~Installed => sub[r][t] = Absent
  BY DEF Init, NoSubsets
<1>4. Absent.spec = 0 /\ ~Absent.live
  BY DEF Absent
<1>5. \A r \in Regions : /\ Installed => sub[r][1].spec = desired[r]
                         /\ Installed => sub[r][1].live
  BY <1>2 DEF Init, Running
<1>6. DeadInv
  BY <1>3, <1>4, <1>5 DEF DeadInv
<1>7. SurgeBound
  <2> SUFFICES ASSUME NEW r \in Regions
               PROVE  SpecReplicas(sub[r], Templates) <= desired[r] + MaxSurge
    BY <1>1 DEF SurgeBound
  <2> DEFINE none == [t \in Templates |-> Absent]
  <2>1. sub[r] \in [Templates -> Subset] /\ none \in [Templates -> Subset]
    BY <1>2, AbsentType
  <2>2. SpecReplicas(none, Olds(none, 1)) = 0
    <3>1. Olds(none, 1) = {}
      BY <1>4 DEF Olds
    <3>2. SpecReplicas(none, {}) = Cardinality({})
      BY DEF SpecReplicas
    <3> QED BY <3>1, <3>2, FS_EmptySet
  <2>3. \A o \in Templates \ {1} : sub[r][o].spec = IF none[o].live THEN none[o].spec ELSE 0
    BY <1>3, <1>4
  <2> HIDE DEF none
  <2>4. SpecReplicas(sub[r], Templates) = 0 + sub[r][1].spec
    BY <1>2, <2>1, <2>2, <2>3, OldAndNew
  <2>5. sub[r][1].spec \in Nat /\ desired[r] \in Nat /\ sub[r][1].spec <= desired[r]
    BY <1>1, <1>2, <1>3, <1>4, <1>5
  <2> QED BY <1>2, <2>4, <2>5
<1>8. RollInv
  BY <1>1 DEF RollInv
<1> QED BY <1>1, <1>6, <1>7, <1>8 DEF SurgeInv

\* NewRSNewReplicas: in any deployment with strategy RollingUpdate whose cache
\* of the subsets does not lag, whatever the user edits, rolls back and scales,
\* whatever pods fail and wherever reconciles are cut off, the subsets of a
\* region never ask for more replicas than the largest size plus maxSurge.
THEOREM WithinMaxSurge == ASSUME SurgeScope PROVE Spec => []SurgeBound
<1>1. SurgeInv => SurgeBound
  BY DEF SurgeInv
<1>2. TypeOK /\ TypeOK' /\ SurgeInv /\ [Next]_vars => SurgeInv'
  BY SurgeStep
<1> QED BY <1>1, <1>2, TypeInit, TypeStep, SurgeInit, PTL DEF Spec
=============================================================================
