--------------------------- MODULE ConfirmProofs ---------------------------
(***************************************************************************)
(* ConfirmGate for any number of regions, templates, sizes and edits, and  *)
(* for every update strategy.                                              *)
(*                                                                         *)
(* A group started by a reconcile that asked for confirmation uses up the  *)
(* user's "true"; what has to be shown is that no other reconcile starts a *)
(* group while the annotation is there.  Settled is why: the annotation    *)
(* exists only while the last group is available in every region and the   *)
(* status says progressing, so that each reconcile ends up asking.         *)
(***************************************************************************)
EXTENDS RolloutProofs

\* The deployments the theorem is about: informer caches that do not lag, and no
\* faults.  (A pod that fails after the user confirmed lets the rollout time out:
\* one group then starts without asking and a second one on the confirmation.)
ConfirmScope == Lagging = {} /\ MaxFaults = 0

\* ManageSubsets is under way.
Managing == {"manage", "cleanup", "shrink", "grow", "rollOld", "deleteAll"}

\* The last group of the revision is available in every region, and the status
\* says progressing.
Settled ==
    /\ cond # "False" /\ lastRev[1] \in Templates
    /\ \A r \in Regions : AvailableDesired(sub[r][lastRev[1]], lastRev[2][r])

\* The reconcile may still start a group in r.
MayStart(r) ==
    /\ pc \in Managing
    /\ \/ r \in todo
       \/ pc = "cleanup" /\ cur = r /\ UpdateStrategy # "RollingUpdate"
       \/ pc \in {"shrink", "grow"} /\ cur = r

\* The reconcile read Progressing as not False and a new subset in every region.
Asked == snap.progressing /\ \A r \in Regions : info[r][snap.tmpl].live

\* The size the reconcile has read of a subset still holds.
SameSize(r, t) == sub[r][t].live => info[r][t].spec = sub[r][t].spec

\* The annotation: unused while the reconcile acts, and what it has read of it.
AnnotationInv ==
    /\ pc # "idle" => lastRev = <<snap.tmpl, snap.want>>
    /\ pc \in Managing \cup {"wait"} => confirm = "none"
    /\ pc \in {"confirm", "saturated"} => (snap.confirm = "none" => confirm = "none")
    /\ pc \in {"confirm", "saturated"} => (snap.confirm = "true" => confirm = "true")
    /\ pc = "confirm" \/ confirm # "none" => Settled
    /\ confirm = "true" => \A r \in Regions : granted[r]

\* The loops: old subsets never become larger, new ones once in each region.
LoopInv ==
    /\ pc \in Managing \ {"manage"} => cur \notin todo
    /\ pc \in {"cleanup", "shrink", "rollOld", "sweep", "delete"} => snap.tmpl \notin rest
    /\ pc \in Managing \cup {"confirm"} => \A r \in todo, t \in Templates : SameSize(r, t)
    /\ pc = "cleanup" => \A o \in Templates \ {snap.tmpl} : SameSize(cur, o)
    /\ pc \in {"shrink", "rollOld"} => \A o \in rest : SameSize(cur, o)

GateInv == Asked => \A r \in Regions : MayStart(r) => granted[r]

\* The inductive invariant behind ConfirmGate.
ConfirmInv == cache = sub /\ AnnotationInv /\ LoopInv /\ GateInv

\* What ConfirmGate says of one step.
Gate == Asked => \A r \in Regions : StartsGroup(r) => granted[r]

-----------------------------------------------------------------------------
(* Steps that start no group                                               *)

\* No subset becomes larger.
LEMMA NoGrowth ==
    ASSUME \A r \in Regions, t \in Templates :
              /\ sub[r][t].spec \in Nat /\ sub'[r][t].spec \in Nat
              /\ sub'[r][t].spec <= sub[r][t].spec
    PROVE  Gate
<1>1. \A r \in Regions : ~StartsGroup(r)
  BY DEF StartsGroup
<1> QED BY <1>1 DEF Gate

LEMMA NoGroup ==
    ASSUME TypeOK, UNCHANGED sub
    PROVE  Gate
<1>1. \A r \in Regions, t \in Templates : sub[r][t].spec \in Nat
  BY DEF TypeOK, StoreOK, Subset
<1> QED BY <1>1, NoGrowth

\* The reconcile ends, or goes on to a stretch in which it starts no group.
LEMMA ConfirmOutside ==
    ASSUME ConfirmInv, cache' = sub', UNCHANGED <<lastRev, confirm>>,
           pc' \in {"idle", "refresh", "clean", "sweep", "delete"},
           pc' \in {"sweep", "delete"} => snap.tmpl \notin rest',
           pc' # "idle" => pc # "idle" /\ UNCHANGED snap,
           confirm # "none" => Settled',
           confirm = "true" => granted' = granted
    PROVE  ConfirmInv'
<1>1. AnnotationInv'
  BY DEF ConfirmInv, AnnotationInv, Managing
<1>2. LoopInv' /\ GateInv'
  BY DEF LoopInv, GateInv, MayStart, Managing
<1> QED BY <1>1, <1>2 DEF ConfirmInv

\* A step of the reconcile within ManageSubsets.
LEMMA ConfirmManaging ==
    ASSUME ConfirmInv, pc \in Managing, pc' \in Managing,
           UNCHANGED <<lastRev, confirm, snap>>, cache' = sub', LoopInv', GateInv'
    PROVE  ConfirmInv'
<1>1. AnnotationInv'
  BY DEF ConfirmInv, AnnotationInv, Managing
<1> QED BY <1>1 DEF ConfirmInv

\* ScaleSubset writes one subset; it starts a group only if the subset becomes
\* larger.
LEMMA Written ==
    ASSUME ConfirmScope, TypeOK, NEW r \in Regions, NEW t \in Templates, NEW n \in Nat,
           SetReplicas(r, t, n)
    PROVE  /\ cache' = sub' /\ sub[r][t].live
           /\ \A q \in Regions, u \in Templates :
                 /\ sub'[q][u].live = sub[q][u].live /\ sub'[q][u].avail = sub[q][u].avail
                 /\ sub'[q][u].spec = IF q = r /\ u = t THEN n ELSE sub[q][u].spec
           /\ \A q \in Regions \ {r} : granted'[q] = granted[q] /\ ~StartsGroup(q)
           /\ n <= sub[r][t].spec => granted' = granted /\ Gate
<1>1. /\ sub \in [Regions -> [Templates -> Subset]] /\ granted \in [Regions -> BOOLEAN]
      /\ sub' = [sub EXCEPT ![r][t] = WithSpec(sub[r][t], n)] /\ sub[r][t].live
      /\ granted' = IF n > sub[r][t].spec THEN [granted EXCEPT ![r] = FALSE] ELSE granted
  BY DEF TypeOK, StoreOK, SetReplicas, CacheCurrent
<1>2. \A q \in Regions, u \in Templates : sub[q][u].spec \in Nat
  BY <1>1 DEF Subset
<1>3. \A q \in Regions, u \in Templates :
         /\ sub'[q][u].live = sub[q][u].live /\ sub'[q][u].avail = sub[q][u].avail
         /\ sub'[q][u].spec = IF q = r /\ u = t THEN n ELSE sub[q][u].spec
  BY <1>1 DEF WithSpec
<1>4. cache' = sub'
  BY DEF ConfirmScope, SetReplicas, Published
<1>5. \A q \in Regions \ {r} : granted'[q] = granted[q] /\ ~StartsGroup(q)
  BY <1>1, <1>2, <1>3 DEF StartsGroup
<1>6. ASSUME n <= sub[r][t].spec PROVE granted' = granted /\ Gate
  <2>1. granted' = granted
    BY <1>1, <1>2, <1>6
  <2>2. \A q \in Regions : ~StartsGroup(q)
    BY <1>2, <1>3, <1>6 DEF StartsGroup
  <2> QED BY <2>1, <2>2 DEF Gate
<1> QED BY <1>1, <1>3, <1>4, <1>5, <1>6

-----------------------------------------------------------------------------
(* The steps                                                               *)

\* RaiseRevision touches neither sizes nor grants.
LEMMA RaisedSame ==
    ASSUME ConfirmScope, TypeOK, cache = sub, NEW r \in Regions, NEW rev \in Nat,
           RaiseRevision(r, rev)
    PROVE  /\ cache' = sub' /\ UNCHANGED granted /\ Gate
           /\ \A q \in Regions : info'[q][snap.tmpl].live => info[q][snap.tmpl].live
           /\ \A q \in Regions, u \in Templates :
                 /\ sub'[q][u].live = sub[q][u].live /\ sub'[q][u].spec = sub[q][u].spec
                 /\ info'[q][u].live = info[q][u].live /\ info'[q][u].spec = info[q][u].spec
<1>1. /\ sub \in [Regions -> [Templates -> Subset]] /\ info \in [Regions -> [Templates -> Subset]]
      /\ snap.tmpl \in Templates
  BY DEF TypeOK, StoreOK, LoopOK
<1>2. /\ cache' = sub' /\ UNCHANGED granted
      /\ \A q \in Regions, u \in Templates :
            /\ sub'[q][u].live = sub[q][u].live /\ sub'[q][u].spec = sub[q][u].spec
            /\ info'[q][u].live = info[q][u].live /\ info'[q][u].spec = info[q][u].spec
  BY <1>1 DEF RaiseRevision, WithRev, NoWrite, storeVars, Published, ConfirmScope
<1>3. \A q \in Regions : info'[q][snap.tmpl].live => info[q][snap.tmpl].live
  BY <1>1, <1>2
<1>4. \A q \in Regions, u \in Templates :
        sub[q][u].spec \in Nat /\ sub'[q][u].spec = sub[q][u].spec
  BY <1>1, <1>2 DEF Subset
<1>5. Gate
  BY <1>4, NoGrowth
<1> QED BY <1>2, <1>3, <1>5

\* No group is more likely than before.
LEMMA GateKept ==
    ASSUME GateInv, UNCHANGED snap,
           \A r \in Regions : info'[r][snap.tmpl].live => info[r][snap.tmpl].live,
           \A r \in Regions : MayStart(r)' => MayStart(r) /\ granted'[r] = granted[r]
    PROVE  GateInv'
BY DEF GateInv, Asked

\* A step within ManageSubsets that writes nothing.
LEMMA ConfirmMoves ==
    ASSUME TypeOK, ConfirmInv, pc \in Managing, pc' \in Managing,
           UNCHANGED <<sub, cache, granted, lastRev, confirm, snap, info>>, LoopInv',
           \A r \in Regions : MayStart(r)' => MayStart(r)
    PROVE  ConfirmInv' /\ Gate
<1>1. GateInv'
  BY GateKept DEF ConfirmInv
<1> QED BY <1>1, ConfirmManaging, NoGroup DEF ConfirmInv

\* Steps of the environment.
LEMMA ConfirmElsewhere ==
    ASSUME TypeOK, ConfirmInv, UNCHANGED <<lastRev, pc, loopVars>>, cache' = sub',
           \A r \in Regions, t \in Templates :
              sub'[r][t].live = sub[r][t].live /\ sub'[r][t].spec = sub[r][t].spec,
           Settled => Settled',
           confirm' = confirm \/ (confirm = "false" /\ confirm' = "true"),
           granted' = granted \/ \A r \in Regions : granted'[r],
           confirm' = "true" => confirm = "true" \/ \A r \in Regions : granted'[r]
    PROVE  ConfirmInv' /\ Gate
<1>1. UNCHANGED <<snap, info, todo, cur, rest, left>> /\ UNCHANGED <<lastRev, pc>>
  BY DEF loopVars
<1>2. /\ sub \in [Regions -> [Templates -> Subset]] /\ todo \subseteq Regions /\ cur \in Regions
      /\ rest \subseteq Templates
  BY DEF TypeOK, StoreOK, LoopOK
<1>3. AnnotationInv'
  BY <1>1 DEF ConfirmInv, AnnotationInv, Managing
<1>4. LoopInv'
  <2>1. \A r \in Regions, t \in Templates : SameSize(r, t) => SameSize(r, t)'
    BY <1>1 DEF SameSize
  <2>2. \A t \in Templates : SameSize(cur, t) => SameSize(cur, t)'
    BY <1>1, <1>2 DEF SameSize
  <2> QED BY <1>1, <1>2, <2>1, <2>2 DEF ConfirmInv, LoopInv, Managing
<1>5. GateInv'
  <2>1. \A r \in Regions : MayStart(r)' <=> MayStart(r)
    BY <1>1 DEF MayStart
  <2> QED BY <1>1, <2>1 DEF ConfirmInv, GateInv, Asked
<1>6. Gate
  BY <1>2, NoGrowth DEF Subset
<1> QED BY <1>3, <1>4, <1>5, <1>6 DEF ConfirmInv

LEMMA ConfirmStep ==
    ASSUME ConfirmScope, NeedWaitingForConfirm, ~NeedFirstConfirm,
           TypeOK, ConfirmInv, [Next]_vars
    PROVE  ConfirmInv' /\ Gate
<1> USE RolloutAssumption
<1>a. /\ info \in [Regions -> [Templates -> Subset]] /\ sub \in [Regions -> [Templates -> Subset]]
      /\ cur \in Regions /\ rest \subseteq Templates /\ snap.tmpl \in Templates /\ left \in Int
      /\ snap.want \in [Regions -> Nat] /\ template \in Templates /\ todo \subseteq Regions
      /\ granted \in [Regions -> BOOLEAN]
  BY DEF TypeOK, UserOK, StoreOK, LoopOK
<1>b. \A r \in Regions, t \in Templates :
        /\ info[r][t].spec \in Nat /\ info[r][t].avail \in Nat /\ info[r][t].live \in BOOLEAN
        /\ sub[r][t].spec \in Nat /\ sub[r][t].avail \in Nat /\ sub[r][t].live \in BOOLEAN
  BY <1>a DEF Subset
<1>c. cache = sub /\ AnnotationInv /\ LoopInv /\ GateInv
  BY DEF ConfirmInv
<1>d. Lagging = {} /\ MaxFaults = 0 /\ Seen = Deployment /\ Fresh
  BY DEF ConfirmScope, Seen, Fresh
<1>e. UNCHANGED storeVars => UNCHANGED <<sub, cache, granted>>
  BY DEF storeVars
<1>f. NoWrite => UNCHANGED <<sub, cache, granted>>
  BY DEF NoWrite, storeVars
<1>g. Return => pc' = "idle"
  BY DEF Return
<1>h. UNCHANGED userVars => UNCHANGED <<lastRev, confirm>>
  BY DEF userVars
<1>i. UNCHANGED statusVars => UNCHANGED cond
  BY DEF statusVars
<1>j. confirm # "none" => Settled
  BY <1>c DEF AnnotationInv
\* Ends of the reconcile that write no subset.
<1>k. ASSUME pc' = "idle", UNCHANGED <<sub, cache, granted, lastRev, confirm, cond>>
      PROVE  ConfirmInv' /\ Gate
  <2>1. confirm # "none" => Settled'
    BY <1>j, <1>k DEF Settled
  <2> QED BY <1>c, <1>k, <2>1, ConfirmOutside, NoGroup
<1>1. CASE SyncRevisions
  <2>1. pc = "idle" /\ UNCHANGED <<sub, cache, granted, pc>> /\ confirm' = "none"
    BY <1>1, <1>e DEF SyncRevisions
  <2>2. AnnotationInv' /\ LoopInv' /\ GateInv'
    BY <2>1 DEF AnnotationInv, LoopInv, GateInv, MayStart, Managing
  <2> QED BY <1>c, <2>1, <2>2, NoGroup DEF ConfirmInv
<1>2. CASE SyncRevisionsFails \/ Abort \/ DeploymentSync \/ StatusConflict
  <2>1. ~(SyncRevisionsFails \/ DeploymentSync \/ StatusConflict)
    BY <1>d DEF SyncRevisionsFails, DeploymentSync, StatusConflict, TypeOK
  <2>2. ~Abort
    BY <1>d DEF Abort, TypeOK
  <2> QED BY <1>2, <2>1, <2>2
<1>3. CASE ReconcileStart
  <2>1. /\ UNCHANGED <<sub, cache, granted, lastRev, confirm, cond>> /\ info' = sub
        /\ snap'.tmpl = template /\ snap'.want = desired /\ snap'.confirm = confirm
        /\ snap'.progressing = (cond # "False") /\ pc = "idle" /\ todo' = Regions
        /\ lastRev = <<template, desired>>
    BY <1>3, <1>c, <1>d, <1>e, <1>h, <1>i DEF ReconcileStart, SpecChanged, Deployment
  <2> DEFINE init     == \E r \in Regions : ~sub[r][template].live
             notReady == \E r \in Regions : /\ sub[r][template].live
                                            /\ ~AvailableDesired(sub[r][template], desired[r])
  <2>2. \/ pc' = "saturated"
        \/ pc' = "manage" /\ init
        \/ pc' = "wait" /\ notReady
        \/ pc' = "confirm" /\ ~init /\ ~notReady /\ cond # "False"
        \/ pc' = "manage" /\ ~init /\ ~notReady /\ cond = "False"
    BY <1>3, <1>c, <1>d DEF ReconcileStart, TermFlags, Deployment
  <2>3. Settled <=> /\ cond # "False"
                    /\ \A r \in Regions : AvailableDesired(sub[r][template], desired[r])
    BY <1>a, <2>1 DEF Settled
  <2>4. Settled' <=> Settled
    BY <2>1 DEF Settled
  <2>5. Settled => ~init /\ ~notReady /\ cond # "False"
    BY <2>3 DEF AvailableDesired
  <2>6. ~init /\ ~notReady /\ cond # "False" => Settled
    BY <2>3
  <2>7. pc' \in Managing \cup {"wait"} => confirm = "none" /\ pc' \in {"manage", "wait"}
    <3> HIDE DEF init, notReady
    <3> QED BY <1>j, <2>2, <2>5 DEF Managing
  <2>8. AnnotationInv'
    <3>1. pc' = "confirm" => Settled'
      <4> HIDE DEF init, notReady
      <4> QED BY <2>2, <2>4, <2>6
    <3>2. lastRev' = <<snap'.tmpl, snap'.want>>
      BY <2>1
    <3>3. confirm' # "none" => Settled'
      BY <1>j, <2>1, <2>4
    <3>4. confirm' = "true" => \A r \in Regions : granted'[r]
      BY <1>c, <2>1 DEF AnnotationInv
    <3> QED BY <2>1, <2>7, <3>1, <3>2, <3>3, <3>4 DEF AnnotationInv
  <2>9. LoopInv'
    <3>1. \A r \in Regions, t \in Templates : SameSize(r, t)'
      BY <2>1 DEF SameSize
    <3>2. pc' \notin {"cleanup", "shrink", "grow", "rollOld", "deleteAll", "sweep", "delete"}
      BY <2>2
    <3> QED BY <2>1, <3>1, <3>2 DEF LoopInv, Managing
  <2>10. GateInv'
    <3> SUFFICES ASSUME Asked', NEW r \in Regions, MayStart(r)' PROVE FALSE
      BY DEF GateInv
    <3>1. ~init /\ cond # "False"
      BY <2>1 DEF Asked
    <3>2. pc' = "manage"
      BY <2>7 DEF MayStart, Managing
    <3> HIDE DEF init, notReady
    <3> QED BY <2>2, <3>1, <3>2
  <2> QED BY <1>c, <2>1, <2>8, <2>9, <2>10, NoGroup DEF ConfirmInv
<1>4. CASE CheckUpgradeConfirm
  <2>1. pc = "confirm" /\ UNCHANGED <<sub, cache, granted, lastRev, cond>>
    BY <1>4, <1>e, <1>i DEF CheckUpgradeConfirm
  <2>2. /\ Settled
        /\ snap.confirm = "none" => confirm = "none"
        /\ snap.confirm = "true" => confirm = "true"
    BY <1>c, <2>1 DEF AnnotationInv
  <2>3. Settled'
    BY <2>1, <2>2 DEF Settled
  <2>4. \/ snap.confirm = "none" /\ confirm' = "false" /\ pc' = "refresh" /\ UNCHANGED loopVars
        \/ snap.confirm = "false" /\ confirm' = confirm /\ pc' = "refresh" /\ UNCHANGED loopVars
        \/ snap.confirm = "true" /\ confirm' = "none" /\ pc' = "manage" /\ UNCHANGED loopVars
    BY <1>4, <1>d DEF CheckUpgradeConfirm, UsedConfirm, TypeOK, LoopOK
  <2>5. UNCHANGED <<snap, info, todo, cur, rest, left>>
    BY <2>4 DEF loopVars
  <2>6. AnnotationInv'
    <3>1. lastRev' = <<snap'.tmpl, snap'.want>>
      BY <1>c, <2>1, <2>5 DEF AnnotationInv
    <3>2. confirm' = "true" => \A r \in Regions : granted'[r]
      BY <1>c, <2>1, <2>4 DEF AnnotationInv
    <3> QED BY <2>3, <2>4, <3>1, <3>2 DEF AnnotationInv, Managing
  <2>7. LoopInv'
    <3>1. \A r \in todo', t \in Templates : SameSize(r, t)'
      BY <1>c, <2>1, <2>5 DEF LoopInv, SameSize
    <3>2. pc' \in {"refresh", "manage"}
      BY <2>4
    <3> QED BY <3>1, <3>2 DEF LoopInv, Managing
  <2>8. GateInv'
    <3>1. CASE pc' = "refresh"
      BY <3>1 DEF GateInv, MayStart, Managing
    <3>2. CASE pc' = "manage"
      <4>1. \A r \in Regions : granted[r]
        BY <1>c, <2>2, <2>4, <3>2 DEF AnnotationInv
      <4> QED BY <2>1, <4>1 DEF GateInv
    <3> QED BY <2>4, <3>1, <3>2
  <2> QED BY <1>c, <2>1, <2>6, <2>7, <2>8, NoGroup DEF ConfirmInv
<1>5. CASE RefreshStatus
  <2>1. /\ UNCHANGED <<sub, cache, granted, lastRev, confirm>> /\ pc' = "idle" /\ cond' = "True"
    BY <1>5, <1>e, <1>g, <1>h DEF RefreshStatus
  <2>2. confirm # "none" => Settled'
    BY <1>j, <2>1 DEF Settled
  <2> QED BY <1>c, <2>1, <2>2, ConfirmOutside, NoGroup
<1>6. CASE WaitStatus
  <2>1. /\ UNCHANGED <<sub, cache, granted, lastRev, confirm>> /\ pc' = "idle" /\ pc = "wait"
    BY <1>6, <1>e, <1>g, <1>h DEF WaitStatus
  <2>2. confirm = "none"
    BY <1>c, <2>1 DEF AnnotationInv
  <2> QED BY <1>c, <2>1, <2>2, ConfirmOutside, NoGroup
<1>7. CASE SaturatedStatus
  <2>1. /\ UNCHANGED <<sub, cache, lastRev, snap>> /\ pc = "saturated" /\ pc' = "clean"
        /\ confirm' = confirm \/ confirm' = "none"
    BY <1>7 DEF SaturatedStatus, loopVars
  <2>2. confirm' = "none"
    BY <1>7, <1>c, <2>1 DEF SaturatedStatus, AnnotationInv
  <2>3. AnnotationInv'
    <3>1. lastRev' = <<snap'.tmpl, snap'.want>>
      BY <1>c, <2>1 DEF AnnotationInv
    <3> QED BY <2>1, <2>2, <3>1 DEF AnnotationInv
  <2>4. LoopInv' /\ GateInv'
    BY <2>1 DEF LoopInv, GateInv, MayStart, Managing
  <2> QED BY <1>c, <2>1, <2>3, <2>4, NoGroup DEF ConfirmInv
<1>8. CASE CleanOldSubsets \/ CleanOldDone
  <2>1. /\ pc \in {"sweep", "delete"} /\ pc' \in {"clean", "delete"}
        /\ pc' = "delete" => snap.tmpl \notin rest'
        /\ UNCHANGED <<sub, cache, granted, lastRev, confirm, cond, snap>>
    BY <1>8, <1>e, <1>h, <1>i DEF CleanOldSubsets, CleanOldDone, Olds, loopVars
  <2>2. confirm # "none" => Settled'
    BY <1>j, <2>1 DEF Settled
  <2> QED BY <1>c, <2>1, <2>2, ConfirmOutside, NoGroup
<1>9. ASSUME NEW r \in Regions, NewSubset(r) PROVE ConfirmInv' /\ Gate
  <2>1. pc = "manage" /\ pc' = "idle" /\ UNCHANGED <<lastRev, confirm>>
    BY <1>9, <1>g, <1>h DEF NewSubset
  <2>2. confirm = "none"
    BY <1>c, <2>1 DEF AnnotationInv, Managing
  <2>3. CASE NoWrite
    BY <1>c, <1>f, <2>1, <2>2, <2>3, ConfirmOutside, NoGroup
  <2>4. CASE ~NoWrite
    <3>1. PICK new : /\ sub' = [sub EXCEPT ![r][snap.tmpl] = new] /\ Published
                     /\ ~sub[r][snap.tmpl].live
      BY <1>9, <2>4 DEF NewSubset
    <3>2. cache' = sub'
      BY <1>d, <3>1 DEF Published
    <3>3. \A q \in Regions, u \in Templates : ~(q = r /\ u = snap.tmpl) => sub'[q][u] = sub[q][u]
      BY <1>a, <3>1
    <3>4. \A q \in Regions : ~StartsGroup(q)
      BY <1>b, <3>1, <3>3 DEF StartsGroup
    <3>5. Gate
      BY <3>4 DEF Gate
    <3> QED BY <2>1, <2>2, <3>2, <3>5, ConfirmOutside
  <2> QED BY <2>3, <2>4
<1>10. ASSUME NEW r \in Regions, RecreateRegion(r) PROVE ConfirmInv' /\ Gate
  <2> DEFINE rev == MaxRevision(info[r], Olds(info[r], snap.tmpl)) + 1
  <2>1. CASE RaiseRevisionFails(r, rev)
    BY <1>10, <1>f, <1>g, <1>h, <1>i, <1>k, <2>1 DEF RecreateRegion, RaiseRevisionFails
  <2>2. CASE ~RaiseRevisionFails(r, rev)
    <3>1. /\ RaiseRevision(r, rev)
          /\ pc' = "cleanup" /\ cur' = r /\ rest' = Olds(info[r], snap.tmpl) /\ todo' = todo \ {r}
          /\ UNCHANGED <<snap, lastRev, confirm>>
          /\ pc = "manage" /\ r \in todo /\ UpdateStrategy = "ReCreate"
      BY <1>10, <1>h, <2>2 DEF RecreateRegion
    <3>2. rev \in Nat
      BY <1>a, OldsType, MaxRevisionType
    <3> HIDE DEF rev
    <3>3. /\ cache' = sub' /\ UNCHANGED granted /\ Gate
          /\ \A q \in Regions : info'[q][snap.tmpl].live => info[q][snap.tmpl].live
          /\ \A q \in Regions, u \in Templates :
                /\ sub'[q][u].live = sub[q][u].live /\ sub'[q][u].spec = sub[q][u].spec
                /\ info'[q][u].live = info[q][u].live /\ info'[q][u].spec = info[q][u].spec
      BY <1>c, <3>1, <3>2, RaisedSame
    <3>4. \A q \in todo, t \in Templates : SameSize(q, t)'
      <4>1. \A q \in todo, t \in Templates : SameSize(q, t)
        BY <1>c, <3>1 DEF LoopInv, Managing
      <4> QED BY <1>a, <3>3, <4>1 DEF SameSize
    <3>5. LoopInv'
      <4>1. \A t \in Templates : SameSize(cur, t)'
        BY <3>1, <3>4 DEF SameSize
      <4>2. \A q \in todo', t \in Templates : SameSize(q, t)'
        BY <3>1, <3>4
      <4>3. snap'.tmpl \notin rest' /\ cur' \notin todo'
        BY <3>1 DEF Olds
      <4> QED BY <3>1, <4>1, <4>2, <4>3 DEF LoopInv
    <3>6. GateInv'
      <4>1. \A q \in Regions : MayStart(q)' => MayStart(q) /\ granted'[q] = granted[q]
        BY <3>1, <3>3 DEF MayStart, Managing
      <4>2. GateInv /\ UNCHANGED snap
        BY <1>c, <3>1
      <4> QED BY <3>3, <4>1, <4>2, GateKept
    <3> QED BY <3>1, <3>3, <3>5, <3>6, ConfirmManaging DEF Managing
  <2> QED BY <2>1, <2>2
<1>11. ASSUME NEW o \in Templates, CleanupUnhealthyReplicas(o) PROVE ConfirmInv' /\ Gate
  <2> DEFINE old   == info[cur][o]
             count == Lesser(old.spec - old.avail, left)
             n     == old.spec - count
  <2>1. /\ pc = "cleanup" /\ o \in rest /\ left > 0 /\ o # snap.tmpl /\ cur \notin todo
        /\ UNCHANGED <<lastRev, confirm, cond>>
        /\ \A q \in Templates \ {snap.tmpl} : SameSize(cur, q)
        /\ \A r \in todo, t \in Templates : SameSize(r, t)
        /\ snap.tmpl \notin rest
    BY <1>11, <1>c, <1>h, <1>i DEF CleanupUnhealthyReplicas, LoopInv, Managing
  <2>2. old.avail < old.spec => n \in Nat /\ n <= old.spec
    BY <1>a, <1>b, <2>1 DEF Lesser
  <2> HIDE DEF n
  \* The loop goes on.
  <2>3. ASSUME rest' = rest \ {o}, UNCHANGED <<pc, snap, todo, cur, granted>>, cache' = sub',
               \A r \in Regions, t \in Templates : info'[r][t].live => info[r][t].live,
               \A r \in Regions, t \in Templates : SameSize(r, t) => SameSize(r, t)'
        PROVE  ConfirmInv'
    <3>1. LoopInv'
      <4>1. \A q \in Templates \ {snap.tmpl} : SameSize(cur, q)'
        BY <1>a, <2>1, <2>3
      <4>2. \A r \in todo, t \in Templates : SameSize(r, t)'
        BY <1>a, <2>1, <2>3
      <4>3. \A q \in Templates \ {snap'.tmpl} : SameSize(cur, q)'
        BY <2>3, <4>1
      <4> QED BY <2>1, <2>3, <4>2, <4>3 DEF LoopInv, SameSize
    <3>2. GateInv'
      BY <1>a, <1>c, <2>3, GateKept DEF MayStart
    <3> QED BY <2>1, <2>3, <3>1, <3>2, ConfirmManaging DEF Managing
  <2>4. CASE NoWrite /\ Return
    BY <1>f, <1>g, <1>k, <2>1, <2>4
  <2>5. CASE NoWrite /\ pc' = "manage" /\ UNCHANGED loopVars /\ UpdateStrategy = "RollingUpdate"
    <3>1. UNCHANGED <<sub, cache, granted, snap, info, todo, cur, rest>>
      BY <1>f, <2>5 DEF loopVars
    <3>2. LoopInv'
      BY <2>1, <2>5, <3>1 DEF LoopInv, SameSize
    <3>3. GateInv'
      BY <1>c, <2>1, <2>5, <3>1, GateKept DEF MayStart, Managing
    <3> QED BY <1>c, <2>1, <2>5, <3>1, <3>2, <3>3, ConfirmManaging, NoGroup DEF Managing
  <2> DEFINE Go == rest' = rest \ {o} /\ UNCHANGED <<pc, snap, todo, cur>>
  <2>6. CASE NoWrite /\ UNCHANGED info /\ Go
    <3>1. UNCHANGED <<sub, cache, granted>>
      BY <1>f, <2>6
    <3>2. \A r \in Regions, t \in Templates : SameSize(r, t) => SameSize(r, t)'
      BY <2>6, <3>1 DEF SameSize
    <3> QED BY <1>c, <2>3, <2>6, <3>1, <3>2, NoGroup
  <2>7. CASE /\ sub' = [sub EXCEPT ![cur][o] = Absent] /\ Published /\ UNCHANGED granted
             /\ info' = [info EXCEPT ![cur][o] = Deleted(old)] /\ Go
    <3>1. cache' = sub'
      BY <1>d, <2>7 DEF Published
    <3>2. \A r \in Regions, t \in Templates :
             /\ info'[r][t].live => info[r][t].live
             /\ sub'[r][t].live => sub[r][t].live /\ sub'[r][t] = sub[r][t]
                                   /\ info'[r][t].spec = info[r][t].spec
             /\ sub'[r][t].spec <= sub[r][t].spec
      BY <1>a, <1>b, <2>7 DEF Absent, Deleted
    <3>3. \A r \in Regions, t \in Templates : SameSize(r, t) => SameSize(r, t)'
      BY <3>2 DEF SameSize
    <3>4. \A r \in Regions, t \in Templates : sub'[r][t].spec \in Nat
      BY <1>a, <1>b, <2>7 DEF Absent
    <3>5. Gate
      BY <1>b, <3>2, <3>4, NoGrowth
    <3> QED BY <2>3, <2>7, <3>1, <3>2, <3>3, <3>5
  <2>8. CASE /\ old.avail < old.spec /\ SetReplicas(cur, o, n)
             /\ info' = [info EXCEPT ![cur][o] = WithSpec(old, n)] /\ Go
    <3>1. n \in Nat /\ n <= old.spec
      BY <2>2, <2>8
    <3>2. /\ cache' = sub' /\ sub[cur][o].live
          /\ \A q \in Regions, u \in Templates :
                /\ sub'[q][u].live = sub[q][u].live
                /\ sub'[q][u].spec = IF q = cur /\ u = o THEN n ELSE sub[q][u].spec
          /\ n <= sub[cur][o].spec => granted' = granted /\ Gate
      BY <1>a, <2>8, <3>1, Written
    <3>3. n <= sub[cur][o].spec
      BY <2>1, <3>1, <3>2 DEF SameSize
    <3>4. \A r \in Regions, t \in Templates :
             /\ info'[r][t].live = info[r][t].live
             /\ info'[r][t].spec = IF r = cur /\ t = o THEN n ELSE info[r][t].spec
      BY <1>a, <2>8 DEF WithSpec
    <3>5. \A r \in Regions, t \in Templates : SameSize(r, t) => SameSize(r, t)'
      BY <3>2, <3>4 DEF SameSize
    <3> QED BY <2>3, <2>8, <3>2, <3>3, <3>4, <3>5
  <2>9. \/ NoWrite /\ Return
        \/ NoWrite /\ pc' = "manage" /\ UNCHANGED loopVars /\ UpdateStrategy = "RollingUpdate"
        \/ NoWrite /\ UNCHANGED info /\ Go
        \/ /\ sub' = [sub EXCEPT ![cur][o] = Absent] /\ Published /\ UNCHANGED granted
           /\ info' = [info EXCEPT ![cur][o] = Deleted(old)] /\ Go
        \/ /\ old.avail < old.spec /\ SetReplicas(cur, o, n)
           /\ info' = [info EXCEPT ![cur][o] = WithSpec(old, n)] /\ Go
    BY <1>11 DEF CleanupUnhealthyReplicas, n
  <2> HIDE DEF Go
  <2> QED BY <2>4, <2>5, <2>6, <2>7, <2>8, <2>9
\* What LoopInv says once the old subsets of cur are walked.
<1>l. ASSUME pc \in Managing
      PROVE  /\ pc # "manage" => cur \notin todo
             /\ \A r \in todo, t \in Templates : SameSize(r, t)
             /\ confirm = "none"
  BY <1>c, <1>l DEF LoopInv, AnnotationInv, Managing
<1>12. CASE CleanupDone
  <2>1. /\ pc = "cleanup" /\ pc' \in {"shrink", "grow"} /\ rest' = Olds(info[cur], snap.tmpl)
        /\ UNCHANGED <<sub, cache, granted, lastRev, confirm, snap, info, todo, cur>>
        /\ UpdateStrategy = "ReCreate"
    BY <1>12, <1>e, <1>h DEF CleanupDone
  <2>2. \A o \in rest' : SameSize(cur, o)'
    BY <1>c, <2>1 DEF LoopInv, Olds, SameSize
  <2>3. \A r \in todo', t \in Templates : SameSize(r, t)'
    BY <1>l, <2>1 DEF SameSize, Managing
  <2>4. snap'.tmpl \notin rest' /\ cur' \notin todo'
    BY <1>l, <2>1 DEF Olds, Managing
  <2>5. LoopInv'
    BY <2>1, <2>2, <2>3, <2>4 DEF LoopInv, Managing
  <2>6. \A r \in Regions : MayStart(r)' => MayStart(r)
    BY <2>1 DEF MayStart, Managing
  <2> QED BY <2>1, <2>5, <2>6, ConfirmMoves DEF Managing
\* An old subset of cur is scaled down, and the reconcile goes on.
<1>m. ASSUME NEW o \in Templates, NEW n \in Nat, SetReplicas(cur, o, n), n <= sub[cur][o].spec,
             pc \in Managing \ {"manage"}, UNCHANGED <<lastRev, confirm, snap, info, todo, cur>>,
             \/ pc' \in {"grow", "manage", "deleteAll"}
             \/ /\ pc' = "rollOld" /\ pc = "rollOld" /\ rest' = rest \ {o},
             \A r \in Regions : MayStart(r)' => MayStart(r)
      PROVE  ConfirmInv' /\ Gate
  <2>1. /\ cache' = sub'
        /\ \A q \in Regions, u \in Templates :
              /\ sub'[q][u].live = sub[q][u].live
              /\ sub'[q][u].spec = IF q = cur /\ u = o THEN n ELSE sub[q][u].spec
        /\ granted' = granted /\ Gate
    BY <1>a, <1>m, Written
  <2>2. \A r \in todo', t \in Templates : SameSize(r, t)'
    BY <1>a, <1>l, <1>m, <2>1 DEF SameSize
  <2>3. ASSUME pc' = "rollOld"
        PROVE  snap'.tmpl \notin rest' /\ \A p \in rest' : SameSize(cur, p)'
    BY <1>a, <1>c, <1>m, <2>1, <2>3 DEF LoopInv, SameSize
  <2>4. LoopInv'
    BY <1>l, <1>m, <2>2, <2>3 DEF LoopInv, Managing
  <2>5. GateInv'
    BY <1>c, <1>m, <2>1, GateKept
  <2> QED BY <1>m, <2>1, <2>4, <2>5, ConfirmManaging DEF Managing
<1>13. ASSUME NEW o \in Templates, ShrinkOld(o) PROVE ConfirmInv' /\ Gate
  <2>1. /\ pc = "shrink" /\ o \in rest /\ UNCHANGED <<lastRev, confirm, cond>>
        /\ SameSize(cur, o) /\ snap.tmpl \notin rest
    BY <1>13, <1>c, <1>h, <1>i DEF ShrinkOld, LoopInv
  <2>2. CASE NoWrite /\ Return
    BY <1>f, <1>g, <1>k, <2>1, <2>2
  <2>3. CASE /\ info[cur][o].spec > left /\ left > 0
             /\ SetReplicas(cur, o, info[cur][o].spec - left)
             /\ pc' = "grow" /\ UNCHANGED loopVars
    <3>1. UNCHANGED <<snap, info, todo, cur>> /\ sub[cur][o].live
      BY <2>3 DEF loopVars, SetReplicas, CacheCurrent
    <3> DEFINE n == info[cur][o].spec - left
    <3>2. n \in Nat /\ n <= sub[cur][o].spec
      <4>1. info[cur][o].spec = sub[cur][o].spec /\ info[cur][o].spec \in Nat
        BY <1>a, <1>b, <2>1, <3>1 DEF SameSize
      <4> QED BY <1>a, <2>3, <4>1
    <3>3. SetReplicas(cur, o, n)
      BY <2>3
    <3> HIDE DEF n
    <3>4. \A r \in Regions : MayStart(r)' => MayStart(r)
      BY <2>1, <2>3, <3>1 DEF MayStart, Managing
    <3> QED BY <1>m, <2>1, <2>3, <3>1, <3>2, <3>3, <3>4 DEF Managing
  <2>4. CASE /\ NoWrite /\ UNCHANGED <<snap, info, todo, cur>>
             /\ pc' = "grow" \/ (pc' = "shrink" /\ rest' = rest \ {o})
    <3>1. UNCHANGED <<sub, cache, granted>>
      BY <1>f, <2>4
    <3>2. \A r \in todo', t \in Templates : SameSize(r, t)'
      BY <1>l, <2>1, <2>4, <3>1 DEF SameSize, Managing
    <3>3. ASSUME pc' = "shrink" PROVE snap'.tmpl \notin rest' /\ \A p \in rest' : SameSize(cur, p)'
      BY <1>c, <2>1, <2>4, <3>1, <3>3 DEF LoopInv, SameSize
    <3>4. LoopInv'
      BY <1>l, <2>1, <2>4, <3>2, <3>3 DEF LoopInv, Managing
    <3>5. \A r \in Regions : MayStart(r)' => MayStart(r)
      BY <2>1, <2>4 DEF MayStart, Managing
    <3> QED BY <2>1, <2>4, <3>1, <3>4, <3>5, ConfirmMoves DEF Managing
  <2> QED BY <1>13, <2>1, <2>2, <2>3, <2>4 DEF ShrinkOld, loopVars
\* The walk over a region is over.
<1>14. CASE ShrinkDone \/ RollOldDone \/ DeleteAllDone
  <2>1. /\ pc \in {"shrink", "rollOld", "deleteAll"} /\ pc' \in {"manage", "grow"}
        /\ pc' = "grow" => pc = "shrink"
        /\ UNCHANGED <<sub, cache, granted, lastRev, confirm, snap, info, todo, cur>>
    BY <1>14, <1>e, <1>h DEF ShrinkDone, RollOldDone, DeleteAllDone, loopVars
  <2>2. \A r \in todo', t \in Templates : SameSize(r, t)'
    BY <1>l, <2>1 DEF SameSize, Managing
  <2>3. LoopInv'
    BY <1>l, <2>1, <2>2 DEF LoopInv, Managing
  <2>4. \A r \in Regions : MayStart(r)' => MayStart(r)
    BY <2>1 DEF MayStart, Managing
  <2> QED BY <2>1, <2>3, <2>4, ConfirmMoves DEF Managing
\* The new subset of r changes its size: the reconcile had a grant for it.
<1>n. ASSUME NEW r \in Regions, NEW n \in Nat, SetReplicas(r, snap.tmpl, n), MayStart(r),
             pc' \in {"manage", "cleanup"}, UNCHANGED <<lastRev, confirm, snap, info>>,
             todo' \subseteq todo, r \notin todo',
             pc' = "cleanup" => /\ UpdateStrategy = "RollingUpdate" /\ cur' = r /\ r \in todo
                                /\ rest' = Olds(info[r], snap.tmpl)
      PROVE  ConfirmInv' /\ Gate
  <2>1. /\ cache' = sub'
        /\ \A q \in Regions, u \in Templates :
              /\ sub'[q][u].live = sub[q][u].live
              /\ sub'[q][u].spec = IF q = r /\ u = snap.tmpl THEN n ELSE sub[q][u].spec
        /\ \A q \in Regions \ {r} : granted'[q] = granted[q] /\ ~StartsGroup(q)
    <3>1. PICK t \in Templates : t = snap.tmpl
      BY <1>a
    <3>2. SetReplicas(r, t, n)
      BY <1>n, <3>1
    <3>3. /\ cache' = sub'
          /\ \A q \in Regions, u \in Templates :
                /\ sub'[q][u].live = sub[q][u].live
                /\ sub'[q][u].spec = IF q = r /\ u = t THEN n ELSE sub[q][u].spec
          /\ \A q \in Regions \ {r} : granted'[q] = granted[q] /\ ~StartsGroup(q)
      BY <1>n, <3>2, Written
    <3> QED BY <3>1, <3>3
  <2>2. pc \in Managing /\ pc' \in Managing
    BY <1>n DEF MayStart, Managing
  <2>3. \A q \in todo', t \in Templates : SameSize(q, t)'
    <3>1. \A q \in todo, t \in Templates : SameSize(q, t)
      BY <1>l, <2>2
    <3> QED BY <1>a, <1>n, <2>1, <3>1 DEF SameSize
  <2>4. ASSUME pc' = "cleanup"
        PROVE  snap'.tmpl \notin rest' /\ \A o \in Templates \ {snap'.tmpl} : SameSize(cur, o)'
    <3>1. \A o \in Templates : SameSize(r, o)
      BY <1>l, <1>n, <2>2, <2>4
    <3> QED BY <1>n, <2>1, <2>4, <3>1 DEF SameSize, Olds
  <2>5. LoopInv'
    BY <1>n, <2>3, <2>4 DEF LoopInv, Managing
  <2>6. \A q \in Regions : MayStart(q)' => MayStart(q) /\ q # r
    BY <1>n, <2>2 DEF MayStart, Managing
  <2>7. GateInv'
    BY <1>a, <1>c, <1>n, <2>1, <2>6, GateKept
  <2>8. Gate
    BY <1>c, <1>n, <2>1 DEF Gate, GateInv
  <2> QED BY <1>n, <2>1, <2>2, <2>5, <2>7, <2>8, ConfirmManaging
<1>15. CASE GrowNew
  <2> DEFINE new == info[cur][snap.tmpl]
             n == IF UpdateStrategy = "DeleteAllFirst" THEN snap.want[cur]
                  ELSE new.spec + CalculateStepSize(snap.want[cur], new.spec)
  <2>1. pc = "grow" /\ UNCHANGED <<lastRev, confirm, cond>>
    BY <1>15, <1>h, <1>i DEF GrowNew
  <2>2. n \in Nat
    BY <1>a, <1>b, StepSizeType
  <2>3. \/ NoWrite /\ Return
        \/ NoWrite /\ pc' = "manage" /\ UNCHANGED loopVars
        \/ SetReplicas(cur, snap.tmpl, n) /\ pc' = "manage" /\ UNCHANGED loopVars
    BY <1>15 DEF GrowNew
  <2> HIDE DEF n
  <2>4. CASE NoWrite /\ Return
    BY <1>f, <1>g, <1>k, <2>1, <2>4
  <2>5. CASE NoWrite /\ pc' = "manage" /\ UNCHANGED loopVars
    <3>1. UNCHANGED <<sub, cache, granted, snap, info, todo, cur>>
      BY <1>f, <2>5 DEF loopVars
    <3>2. \A r \in todo', t \in Templates : SameSize(r, t)'
      BY <1>l, <2>1, <3>1 DEF SameSize, Managing
    <3>3. LoopInv'
      BY <2>5, <3>2 DEF LoopInv, Managing
    <3>4. \A r \in Regions : MayStart(r)' => MayStart(r)
      BY <2>1, <2>5, <3>1 DEF MayStart, Managing
    <3> QED BY <2>1, <2>5, <3>1, <3>3, <3>4, ConfirmMoves DEF Managing
  <2>6. CASE SetReplicas(cur, snap.tmpl, n) /\ pc' = "manage" /\ UNCHANGED loopVars
    <3>1. UNCHANGED <<snap, info, todo, cur>>
      BY <2>6 DEF loopVars
    <3>2. cur \notin todo /\ MayStart(cur)
      BY <1>l, <2>1 DEF MayStart, Managing
    <3> QED BY <1>a, <1>n, <2>1, <2>2, <2>6, <3>1, <3>2
  <2> QED BY <2>3, <2>4, <2>5, <2>6
<1>16. ASSUME NEW r \in Regions, RollingRegion(r) PROVE ConfirmInv' /\ Gate
  <2> DEFINE new   == info[r][snap.tmpl]
             want  == snap.want[r]
             olds  == Olds(info[r], snap.tmpl)
             total == SpecReplicas(info[r], olds) + new.spec
             n     == IF new.spec >= want THEN want ELSE RollingReplicas(want, total, new.spec)
  <2>1. /\ pc = "manage" /\ r \in todo /\ UNCHANGED <<lastRev, confirm, cond>>
        /\ UpdateStrategy = "RollingUpdate"
    BY <1>16, <1>h, <1>i DEF RollingRegion
  <2>2. n \in Nat
    <3>1. SpecReplicas(info[r], olds) \in Nat /\ new.spec \in Nat /\ want \in Nat
      BY <1>a, <1>b, CountsType
    <3>2. total \in Nat
      BY <3>1
    <3>3. \A w, k, m \in Nat : m < w => RollingReplicas(w, k, m) \in Nat
      BY RolloutAssumption DEF RollingReplicas, Lesser
    <3> HIDE DEF new, want, total
    <3> QED BY <3>1, <3>2, <3>3
  <2> DEFINE Go == /\ pc' \in {"manage", "cleanup"} /\ cur' = r /\ rest' = olds
                   /\ todo' = todo \ {r} /\ UNCHANGED <<snap, info>>
  <2>3. (NoWrite /\ Return) \/ (NoWrite /\ Go) \/ (SetReplicas(r, snap.tmpl, n) /\ Go)
    BY <1>16 DEF RollingRegion
  <2> HIDE DEF n
  <2>4. CASE NoWrite /\ Return
    BY <1>f, <1>g, <1>k, <2>1, <2>4
  <2>5. CASE NoWrite /\ Go
    <3>1. UNCHANGED <<sub, cache, granted, snap, info>>
      BY <1>f, <2>5
    <3>2. \A q \in todo, t \in Templates : SameSize(q, t)'
      BY <1>l, <2>1, <3>1 DEF SameSize, Managing
    <3>3. \A o \in Templates : SameSize(cur, o)'
      BY <2>1, <2>5, <3>2 DEF SameSize
    <3>4. snap'.tmpl \notin rest'
      BY <2>5 DEF Olds
    <3>5. LoopInv'
      BY <2>5, <3>2, <3>3, <3>4 DEF LoopInv, Managing
    <3>6. \A q \in Regions : MayStart(q)' => MayStart(q)
      BY <2>1, <2>5, <3>1 DEF MayStart, Managing
    <3> QED BY <2>1, <2>5, <3>1, <3>5, <3>6, ConfirmMoves DEF Managing
  <2>6. CASE SetReplicas(r, snap.tmpl, n) /\ Go
    <3>1. MayStart(r)
      BY <2>1 DEF MayStart, Managing
    <3>2. todo' \subseteq todo /\ r \notin todo'
      BY <2>6
    <3> QED BY <1>n, <2>1, <2>2, <2>6, <3>1, <3>2
  <2> HIDE DEF Go
  <2> QED BY <2>3, <2>4, <2>5, <2>6
<1>17. CASE RollOlds
  <2>1. /\ pc = "cleanup" /\ pc' = "rollOld"
        /\ rest' = {o \in Templates \ {snap.tmpl} : info[cur][o].spec > 0}
        /\ UNCHANGED <<sub, cache, granted, lastRev, confirm, snap, info, todo, cur>>
    BY <1>17, <1>e, <1>h DEF RollOlds
  <2>2. \A o \in rest' : SameSize(cur, o)'
    BY <1>c, <2>1 DEF LoopInv, SameSize
  <2>3. \A r \in todo', t \in Templates : SameSize(r, t)'
    BY <1>l, <2>1 DEF SameSize, Managing
  <2>4. snap'.tmpl \notin rest' /\ cur' \notin todo'
    BY <1>l, <2>1 DEF Managing
  <2>5. LoopInv'
    BY <2>1, <2>2, <2>3, <2>4 DEF LoopInv, Managing
  <2>6. \A r \in Regions : MayStart(r)' => MayStart(r)
    BY <2>1 DEF MayStart, Managing
  <2> QED BY <2>1, <2>5, <2>6, ConfirmMoves DEF Managing
<1>18. ASSUME NEW o \in Templates, RollOld(o) PROVE ConfirmInv' /\ Gate
  <2> DEFINE count == Lesser(info[cur][o].spec, left)
             n     == info[cur][o].spec - count
  <2>1. /\ pc = "rollOld" /\ o \in rest /\ left > 0 /\ UNCHANGED <<lastRev, confirm>>
        /\ SameSize(cur, o)
    BY <1>18, <1>c, <1>h DEF RollOld, LoopInv
  <2>2. CASE NoWrite /\ pc' = "manage" /\ UNCHANGED loopVars
    <3>1. UNCHANGED <<sub, cache, granted, snap, info, todo, cur>>
      BY <1>f, <2>2 DEF loopVars
    <3>2. \A r \in todo', t \in Templates : SameSize(r, t)'
      BY <1>l, <2>1, <3>1 DEF SameSize, Managing
    <3>3. LoopInv'
      BY <2>2, <3>2 DEF LoopInv, Managing
    <3>4. \A r \in Regions : MayStart(r)' => MayStart(r)
      BY <2>1, <2>2, <3>1 DEF MayStart, Managing
    <3> QED BY <2>1, <2>2, <3>1, <3>3, <3>4, ConfirmMoves DEF Managing
  <2>3. CASE /\ SetReplicas(cur, o, n) /\ rest' = rest \ {o}
             /\ UNCHANGED <<pc, snap, info, todo, cur>>
    <3>1. sub[cur][o].live
      BY <2>3 DEF SetReplicas, CacheCurrent
    <3>2. info[cur][o].spec = sub[cur][o].spec /\ info[cur][o].spec \in Nat
      BY <1>a, <1>b, <2>1, <3>1 DEF SameSize
    <3>3. n \in Nat /\ n <= sub[cur][o].spec
      BY <1>a, <2>1, <3>2 DEF Lesser
    <3> HIDE DEF n
    <3>4. \A r \in Regions : MayStart(r)' => MayStart(r)
      BY <2>3 DEF MayStart
    <3> QED BY <1>m, <2>1, <2>3, <3>3, <3>4 DEF Managing
  <2> QED BY <1>18, <2>2, <2>3 DEF RollOld
<1>19. ASSUME NEW r \in Regions, DeleteAllFirstRegion(r) PROVE ConfirmInv' /\ Gate
  <2> DEFINE olds == Olds(info[r], snap.tmpl)
             rev  == MaxRevision(info[r], olds) + 1
  <2>1. pc = "manage" /\ r \in todo /\ UNCHANGED <<lastRev, confirm, cond>>
    BY <1>19, <1>h, <1>i DEF DeleteAllFirstRegion
  <2>2. CASE NoWrite /\ pc' = "deleteAll" /\ todo' = {} /\ UNCHANGED <<snap, info>>
    <3>1. UNCHANGED <<sub, cache, granted, snap, info>>
      BY <1>f, <2>2
    <3>2. LoopInv'
      BY <2>2 DEF LoopInv
    <3>3. \A q \in Regions : ~MayStart(q)'
      BY <2>2 DEF MayStart
    <3> QED BY <2>1, <2>2, <3>1, <3>2, <3>3, ConfirmMoves DEF Managing
  <2>3. CASE NoWrite /\ pc' = "refresh" /\ UNCHANGED loopVars
    <3>1. UNCHANGED <<sub, cache, granted, snap>> /\ confirm = "none"
      BY <1>f, <1>l, <2>1, <2>3 DEF loopVars, Managing
    <3> QED BY <1>c, <2>1, <2>3, <3>1, ConfirmOutside, NoGroup
  <2>4. CASE /\ RaiseRevision(r, rev)
             /\ pc' = "grow" /\ cur' = r /\ todo' = {} /\ UNCHANGED snap
    <3>1. rev \in Nat
      BY <1>a, OldsType, MaxRevisionType
    <3>2. RaiseRevision(r, rev)
      BY <2>4
    <3> HIDE DEF rev
    <3>3. /\ cache' = sub' /\ UNCHANGED granted /\ Gate
          /\ \A q \in Regions : info'[q][snap.tmpl].live => info[q][snap.tmpl].live
          /\ \A q \in Regions, u \in Templates :
                /\ sub'[q][u].live = sub[q][u].live /\ sub'[q][u].spec = sub[q][u].spec
                /\ info'[q][u].live = info[q][u].live /\ info'[q][u].spec = info[q][u].spec
      BY <1>c, <3>1, <3>2, RaisedSame
    <3>4. LoopInv'
      BY <2>4 DEF LoopInv
    <3>5. GateInv'
      <4>1. \A q \in Regions : MayStart(q)' => MayStart(q) /\ granted'[q] = granted[q]
        BY <2>1, <2>4, <3>3 DEF MayStart, Managing
      <4>2. GateInv /\ UNCHANGED snap
        BY <1>c, <2>4
      <4> QED BY <3>3, <4>1, <4>2, GateKept
    <3> QED BY <2>1, <2>4, <3>3, <3>4, <3>5, ConfirmManaging DEF Managing
  <2>5. CASE RaiseRevisionFails(r, rev)
    BY <1>f, <1>g, <1>k, <2>1, <2>5 DEF RaiseRevisionFails
  <2> HIDE DEF rev
  <2>6. \/ NoWrite /\ pc' = "deleteAll" /\ todo' = {} /\ UNCHANGED <<snap, info>>
        \/ NoWrite /\ pc' = "refresh" /\ UNCHANGED loopVars
        \/ /\ RaiseRevision(r, rev)
           /\ pc' = "grow" /\ cur' = r /\ todo' = {} /\ UNCHANGED snap
        \/ RaiseRevisionFails(r, rev)
    BY <1>19 DEF DeleteAllFirstRegion, rev
  <2> QED BY <2>2, <2>3, <2>4, <2>5, <2>6
<1>20. ASSUME NEW r \in Regions, CleanRegion(r) PROVE ConfirmInv' /\ Gate
  <2>1. /\ pc = "clean" /\ pc' = "sweep" /\ snap.tmpl \notin rest'
        /\ UNCHANGED <<sub, cache, granted, lastRev, confirm, cond, snap>>
    BY <1>20, <1>e, <1>h, <1>i DEF CleanRegion, Sized, Olds
  <2>2. confirm # "none" => Settled'
    BY <1>j, <2>1 DEF Settled
  <2> QED BY <1>c, <2>1, <2>2, ConfirmOutside, NoGroup
<1>21. ASSUME NEW o \in Templates, SweepOld(o) PROVE ConfirmInv' /\ Gate
  <2>1. /\ pc \in {"sweep", "deleteAll"} /\ o \in rest /\ UNCHANGED <<lastRev, confirm, cond>>
    BY <1>21, <1>h, <1>i DEF SweepOld
  <2>2. CASE NoWrite /\ Return
    BY <1>f, <1>g, <1>k, <2>1, <2>2
  <2>3. CASE /\ SetReplicas(cur, o, 0) /\ rest' = rest \ {o}
             /\ UNCHANGED <<pc, snap, info, todo, cur>>
    <3>1. 0 \in Nat /\ 0 <= sub[cur][o].spec
      BY <1>a, <1>b
    <3>2. CASE pc = "deleteAll"
      <4>1. \A r \in Regions : MayStart(r)' => MayStart(r)
        BY <2>3 DEF MayStart
      <4> QED BY <1>m, <2>1, <2>3, <3>1, <3>2, <4>1 DEF Managing
    <3>3. CASE pc = "sweep"
      <4>1. /\ cache' = sub' /\ granted' = granted /\ Gate
            /\ \A q \in Regions, u \in Templates :
                  /\ sub'[q][u].live = sub[q][u].live /\ sub'[q][u].avail = sub[q][u].avail
                  /\ sub'[q][u].spec = IF q = cur /\ u = o THEN 0 ELSE sub[q][u].spec
        <5>1. PICK n \in Nat : n = 0
          OBVIOUS
        <5>2. SetReplicas(cur, o, n) /\ n <= sub[cur][o].spec
          BY <2>3, <3>1, <5>1
        <5>3. /\ cache' = sub' /\ granted' = granted /\ Gate
              /\ \A q \in Regions, u \in Templates :
                    /\ sub'[q][u].live = sub[q][u].live /\ sub'[q][u].avail = sub[q][u].avail
                    /\ sub'[q][u].spec = IF q = cur /\ u = o THEN n ELSE sub[q][u].spec
          BY <1>a, <5>2, Written
        <5> QED BY <5>1, <5>3
      <4>2. lastRev[1] = snap.tmpl /\ snap.tmpl \notin rest
        BY <1>c, <3>3 DEF AnnotationInv, LoopInv
      <4>3. confirm # "none" => Settled'
        <5>1. \A q \in Regions : /\ sub'[q][snap.tmpl].live = sub[q][snap.tmpl].live
                                 /\ sub'[q][snap.tmpl].avail = sub[q][snap.tmpl].avail
                                 /\ sub'[q][snap.tmpl].spec = sub[q][snap.tmpl].spec
          <6>1. snap.tmpl \in Templates /\ snap.tmpl # o
            BY <1>a, <2>1, <4>2
          <6> QED BY <4>1, <6>1
        <5> QED BY <1>j, <2>1, <4>2, <5>1 DEF Settled, AvailableDesired
      <4>4. snap.tmpl \notin rest'
        BY <2>3, <4>2
      <4>5. /\ cache' = sub' /\ UNCHANGED <<lastRev, confirm, granted, snap>>
            /\ pc' = "sweep" /\ pc = "sweep"
        BY <2>1, <2>3, <3>3, <4>1
      <4>6. ConfirmInv'
        BY <4>3, <4>4, <4>5, ConfirmOutside
      <4> QED BY <4>1, <4>6
    <3> QED BY <2>1, <3>2, <3>3
  <2> QED BY <1>21, <2>2, <2>3 DEF SweepOld
<1>22. ASSUME NEW o \in Templates, DeleteSubset(o) PROVE ConfirmInv' /\ Gate
  <2>1. /\ pc = "delete" /\ pc' = "delete" /\ o \in rest /\ rest' = rest \ {o} /\ Published
        /\ UNCHANGED <<lastRev, confirm, cond, granted, snap>>
    BY <1>22, <1>h, <1>i DEF DeleteSubset
  <2>2. sub' = [sub EXCEPT ![cur][o] = Absent]
    BY <1>22 DEF DeleteSubset
  <2>3. cache' = sub'
    BY <1>d, <2>1 DEF Published
  <2>4. \A q \in Regions, u \in Templates :
           sub'[q][u] = sub[q][u] \/ (sub'[q][u] = Absent /\ u = o)
    BY <1>a, <2>2
  <2>5. lastRev[1] = snap.tmpl /\ snap.tmpl \notin rest
    BY <1>c, <2>1 DEF AnnotationInv, LoopInv
  <2>6. confirm # "none" => Settled'
    <3>1. \A q \in Regions : sub'[q][snap.tmpl] = sub[q][snap.tmpl]
      BY <1>a, <2>1, <2>4, <2>5
    <3> QED BY <1>j, <2>1, <2>5, <3>1 DEF Settled
  <2>7. Gate
    <3>1. Absent.spec = 0
      BY DEF Absent
    <3> QED BY <1>b, <2>4, <3>1, NoGrowth
  <2>8. snap.tmpl \notin rest'
    BY <2>1, <2>5
  <2> QED BY <2>1, <2>3, <2>6, <2>7, <2>8, ConfirmOutside
<1>23. CASE CleanDone
  BY <1>23, <1>e, <1>g, <1>h, <1>i, <1>k DEF CleanDone
\* The environment.
<1>24. CASE (\E t \in Templates : UserApply(t)) \/ (\E r \in Regions, n \in Sizes : UserScale(r, n))
  <2>1. /\ UNCHANGED <<lastRev, confirm, cond, sub, cache, pc, loopVars>>
        /\ \A r \in Regions : granted'[r]
    BY <1>24, <1>i DEF UserApply, UserScale
  <2>2. Settled => Settled'
    BY <2>1 DEF Settled
  <2> QED BY <1>c, <2>1, <2>2, ConfirmElsewhere
<1>25. CASE UserConfirm
  <2>1. /\ UNCHANGED <<lastRev, cond, sub, cache, pc, loopVars>> /\ confirm = "false"
        /\ confirm' = "true" /\ \A r \in Regions : granted'[r]
    BY <1>25, <1>i DEF UserConfirm
  <2>2. Settled => Settled'
    BY <2>1 DEF Settled
  <2> QED BY <1>c, <2>1, <2>2, ConfirmElsewhere
<1>26. CASE Timeout \/ UNCHANGED vars
  <2>1. UNCHANGED <<lastRev, confirm, cond, sub, cache, granted, pc, loopVars>>
    BY <1>26, <1>e, <1>h DEF Timeout, vars, loopVars
  <2>2. Settled => Settled'
    BY <2>1 DEF Settled
  <2> QED BY <1>c, <2>1, <2>2, ConfirmElsewhere
<1>27. ASSUME NEW r \in Regions, NEW t \in Templates, PodAvailable(r, t) \/ PodsRemoved(r, t)
       PROVE  ConfirmInv' /\ Gate
  <2>1. PICK n \in Nat : /\ SetAvailable(r, t, n)
                         /\ n >= sub[r][t].avail \/ n >= sub[r][t].spec
    <3>1. CASE PodAvailable(r, t)
      <4>1. sub[r][t].avail + 1 \in Nat /\ sub[r][t].avail + 1 >= sub[r][t].avail
        BY <1>b
      <4> QED BY <3>1, <4>1 DEF PodAvailable
    <3>2. CASE PodsRemoved(r, t)
      <4>1. sub[r][t].spec \in Nat /\ sub[r][t].spec >= sub[r][t].spec
        BY <1>b
      <4> QED BY <3>2, <4>1 DEF PodsRemoved
    <3> QED BY <1>27, <3>1, <3>2
  <2>2. /\ UNCHANGED <<lastRev, confirm, cond, granted, pc, loopVars>> /\ cache' = sub'
        /\ sub' = [sub EXCEPT ![r][t] = WithAvail(sub[r][t], n)]
    BY <1>d, <1>h, <1>i, <2>1 DEF SetAvailable, Published
  <2>3. \A q \in Regions, u \in Templates :
           /\ sub'[q][u].live = sub[q][u].live /\ sub'[q][u].spec = sub[q][u].spec
           /\ \/ sub'[q][u].avail = sub[q][u].avail
              \/ sub'[q][u].avail \in Nat /\ sub'[q][u].avail >= sub[q][u].avail
              \/ sub'[q][u].avail \in Nat /\ sub'[q][u].avail >= sub[q][u].spec
    BY <1>a, <2>1, <2>2 DEF WithAvail
  <2>4. \A q \in Regions, u \in Templates, w \in Nat :
           AvailableDesired(sub[q][u], w) => AvailableDesired(sub'[q][u], w)
    BY <1>b, <2>3 DEF AvailableDesired
  <2>5. \A q \in Regions : lastRev[2][q] \in Nat
    BY DEF TypeOK, UserOK
  <2>6. Settled => Settled'
    BY <2>2, <2>4, <2>5 DEF Settled
  <2> QED BY <2>2, <2>3, <2>6, ConfirmElsewhere
<1>28. ASSUME NEW r \in Regions, NEW t \in Templates, PodFails(r, t) \/ CacheSync(r, t)
       PROVE  FALSE
  <2>1. ~PodFails(r, t)
    BY <1>d DEF PodFails, TypeOK
  <2> QED BY <1>28, <1>c, <2>1 DEF CacheSync
<1> QED BY <1>1, <1>2, <1>3, <1>4, <1>5, <1>6, <1>7, <1>8, <1>9, <1>10, <1>11, <1>12, <1>13, <1>14,
           <1>15, <1>16, <1>17, <1>18, <1>19, <1>20, <1>21, <1>22, <1>23, <1>24, <1>25, <1>26,
           <1>27, <1>28 DEF Next, Controller

LEMMA ConfirmInit == Init => ConfirmInv
<1> SUFFICES ASSUME Init PROVE ConfirmInv
  OBVIOUS
<1>1. cache = sub /\ pc = "idle" /\ confirm = "none"
  BY DEF Init
<1>2. AnnotationInv /\ LoopInv /\ GateInv
  BY <1>1 DEF AnnotationInv, LoopInv, GateInv, MayStart, Managing
<1> QED BY <1>1, <1>2 DEF ConfirmInv

\* checkUpgradeConfirm: in any deployment without faults, a reconcile that read
\* Progressing as not False and a new subset in every region starts a group
\* only on a confirmation that no earlier group of the region has used, with
\* every update strategy and whatever the user edits in between.
THEOREM GroupsWaitForConfirm == ASSUME ConfirmScope PROVE Spec => ConfirmGate
<1>1. CASE NeedWaitingForConfirm /\ ~NeedFirstConfirm
  <2>1. TypeOK /\ ConfirmInv /\ [Next]_vars => ConfirmInv' /\ Gate
    BY <1>1, ConfirmStep
  <2>2. Gate => (NeedWaitingForConfirm /\ ~NeedFirstConfirm
         /\ snap.progressing /\ (\A r \in Regions : info[r][snap.tmpl].live)
       => \A r \in Regions : StartsGroup(r) => granted[r])
    BY DEF Gate, Asked
  <2> QED BY <2>1, <2>2, TypeInit, TypeStep, ConfirmInit, PTL DEF Spec, ConfirmGate
<1>2. CASE ~(NeedWaitingForConfirm /\ ~NeedFirstConfirm)
  BY <1>2, PTL DEF ConfirmGate
<1> QED BY <1>1, <1>2
=============================================================================
