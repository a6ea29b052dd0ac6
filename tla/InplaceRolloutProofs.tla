------------------------ MODULE InplaceRolloutProofs ------------------------
(***************************************************************************)
(* Theorems about InplaceRollout, for every number of pods, templates,     *)
(* sizes and edits, every size of a group and any number of faults: types, *)
(* pods patched out of service only, and (from GroupInv on) one group of   *)
(* pods out of service at a time, all of them updated at the end.          *)
(***************************************************************************)
EXTENDS InplaceRollout, FiniteFacts, FiniteSetTheorems, TLAPS

USE InplaceSetAssumption, InplaceRolloutAssumption

-----------------------------------------------------------------------------
(* Types                                                                   *)

LEMMA PodConstants ==
    /\ \A t \in Templates : Created(t) \in Pod /\ Serving(t) \in Pod
    /\ NoPod \in Pod /\ NoSet \in InplaceSetObject
BY DEF Created, Serving, NoPod, Pod, NoSet, InplaceSetObject

LEMMA PodWrites ==
    ASSUME NEW pod \in Pod, NEW t \in Templates, NEW b \in BOOLEAN
    PROVE  /\ Patched(pod, t) \in Pod
           /\ Gated(pod, b) \in Pod
           /\ UpdatedInPlace(pod, t) \in Pod
<1>1. Patched(pod, t) \in Pod
  BY DEF Patched, Pod
<1>2. Gated(pod, b) \in Pod
  BY DEF Gated, Pod
<1>3. UpdatedInPlace(pod, t) \in Pod
  BY <1>1 DEF UpdatedInPlace, Pod
<1> QED BY <1>1, <1>2, <1>3

LEMMA CountType ==
    ASSUME NEW S \in SUBSET Pods
    PROVE  Cardinality(S) \in Nat
BY FS_Subset, FS_CardinalityType

LEMMA SmallerType ==
    ASSUME NEW a \in Nat, NEW b \in Nat
    PROVE  Smaller(a, b) \in Nat /\ Smaller(a, b) <= a /\ Smaller(a, b) <= b
BY DEF Smaller

\* calculateStepSize never asks for a size below zero.
LEMMA StepSizeType ==
    ASSUME NEW want \in Nat, NEW have \in Nat
    PROVE  StepSize(want, have) \in Int /\ have + StepSize(want, have) \in Nat
<1>1. CASE want >= have
  <2>1. want - have \in Nat
    BY <1>1
  <2> QED BY <1>1, <2>1, SmallerType DEF StepSize
<1>2. CASE ~(want >= have)
  <2>1. have - want \in Nat
    BY <1>2
  <2>2. Smaller(BatchSize, have - want) \in Nat /\ Smaller(BatchSize, have - want) <= have - want
    BY <2>1, SmallerType
  <2> QED BY <1>2, <2>2 DEF StepSize
<1> QED BY <1>1, <1>2

LEMMA UpdatePodNumType ==
    ASSUME NEW s \in InplaceSetObject, NEW t \in Templates, NEW n \in Nat
    PROVE  UpdatePodNum(s, n) \in Nat
<1>1. s.updatePodNum \in Nat
  BY DEF InplaceSetObject
<1> QED BY <1>1, StepSizeType DEF UpdatePodNum

LEMMA StatusType ==
    ASSUME NEW s \in InplaceSetObject, NEW ps \in [Pods -> Pod]
    PROVE  Status(s, ps) \in InplaceSetObject
<1>1. Cardinality({p \in Live(ps) : ps[p].ready}) \in Nat
  BY CountType DEF Live
<1>2. Cardinality(InplaceUpdatedPods(s, ps)) \in Nat
  BY CountType DEF Live, InplaceUpdatedPods
<1>3. /\ UpdateStatusOf(s, ps).hash \in {0} \cup Templates
      /\ UpdateStatusOf(s, ps).updated \in Nat
  BY <1>2 DEF UpdateStatusOf, InplaceSetObject
<1> QED BY <1>1, <1>3 DEF Status, InplaceSetObject

-----------------------------------------------------------------------------
(* Type correctness                                                        *)

\* The types of the variables of InplaceSet.
SetType ==
    /\ ips \in InplaceSetObject /\ setSnap \in InplaceSetObject
    /\ pods \in [Pods -> Pod] /\ elapsed \subseteq Pods
    /\ podSnap \in [Pods -> Pod]
    /\ spc \in {"idle", "refresh", "update", "try", "status"}
    /\ todo \subseteq Pods /\ cur \subseteq Pods /\ lags \in Nat
    /\ faults \in 0..MaxFaults

LEMMA SaveType ==
    ASSUME pods \in [Pods -> Pod], NEW p \in Pods, NEW new \in Pod, Save(p, new)
    PROVE  pods' \in [Pods -> Pod]
BY DEF Save

LEMMA EndsType ==
    ASSUME podSnap \in [Pods -> Pod], lags \in Nat, Ends
    PROVE  /\ spc' = "idle" /\ todo' \subseteq Pods /\ cur' \subseteq Pods
           /\ setSnap' \in InplaceSetObject /\ podSnap' \in [Pods -> Pod] /\ lags' \in Nat
BY PodConstants DEF Ends

LEMMA RefreshPodType ==
    ASSUME SetType, NEW p \in Pods, RefreshPod(p)
    PROVE  SetType'
<1>1. pods[p] \in Pod
  BY DEF SetType
<1>2. pods' \in [Pods -> Pod]
  <2>1. CASE UNCHANGED pods
    BY <2>1 DEF SetType
  <2>2. CASE GraceOver(p) /\ Save(p, Patched(pods[p], pods[p].grace))
    <3>1. pods[p].grace \in Templates
      BY <1>1, <2>2 DEF GraceOver, Pod
    <3>2. Patched(pods[p], pods[p].grace) \in Pod
      BY <1>1, <3>1, PodWrites
    <3> QED BY <2>2, <3>2, SaveType DEF SetType
  <2>3. CASE Save(p, Gated(pods[p], TRUE))
    <3>1. Gated(pods[p], TRUE) \in Pod
      BY <1>1, PodWrites
    <3> QED BY <2>3, <3>1, SaveType DEF SetType
  <2> QED BY <2>1, <2>2, <2>3 DEF RefreshPod
<1>3. CASE Ends
  BY <1>2, <1>3, EndsType DEF SetType, RefreshPod
<1>4. CASE todo' = todo \ {p} /\ UNCHANGED <<spc, cur, snapVars>>
  BY <1>2, <1>4 DEF SetType, RefreshPod, snapVars
<1> QED BY <1>3, <1>4 DEF RefreshPod

LEMMA ManageReplicasType ==
    ASSUME SetType, ManageReplicas \/ ManageReplicasFails
    PROVE  SetType'
<1>1. setSnap.template \in Templates
  BY DEF SetType, InplaceSetObject
<1>2. \A S \in SUBSET Pods :
         /\ [p \in Pods |-> IF p \in S THEN Created(setSnap.template) ELSE pods[p]] \in [Pods -> Pod]
         /\ [p \in Pods |-> IF p \in S THEN NoPod ELSE pods[p]] \in [Pods -> Pod]
  BY <1>1, PodConstants DEF SetType
<1>3. \A n : Subsets(Unused, n) \subseteq SUBSET Pods
  BY DEF Subsets, Unused
<1>4. \A n : \A D \in ToDelete(podSnap, n) : SUBSET D \subseteq SUBSET Pods
  BY DEF ToDelete, Subsets, Live
<1>5. CASE ManageReplicas
  <2>1. pods' \in [Pods -> Pod]
    BY <1>2, <1>3, <1>4, <1>5 DEF ManageReplicas, SetType
  <2> QED BY <1>5, <2>1 DEF ManageReplicas, SetType, snapVars
<1>6. CASE ManageReplicasFails
  <2>1. pods' \in [Pods -> Pod]
    BY <1>2, <1>3, <1>4, <1>6 DEF ManageReplicasFails, SetType
  <2> QED BY <1>6, <2>1 DEF ManageReplicasFails, SetType, snapVars
<1> QED BY <1>5, <1>6

LEMMA NodeType ==
    ASSUME SetType, NEW p \in Pods, Node(p) \/ PodLost(p)
    PROVE  SetType'
<1>1. pods[p] \in Pod
  BY DEF SetType
<1>2. CASE ContainerRestarts(p)
  <2>1. pods' = [pods EXCEPT ![p] = [pods[p] EXCEPT !.running = pods[p].image,
                                       !.containers = FALSE, !.ready = FALSE]]
    BY <1>2 DEF ContainerRestarts, SetType
  <2>2. [pods[p] EXCEPT !.running = pods[p].image, !.containers = FALSE, !.ready = FALSE] \in Pod
    BY <1>1 DEF Pod
  <2> QED BY <1>2, <2>1, <2>2 DEF ContainerRestarts, SetType, PodUnchanged, snapVars
<1>3. CASE KubeletReports(p)
  <2> DEFINE r == ReadinessGate => pods[p].gate
  <2>1. pods' = [pods EXCEPT ![p] = [pods[p] EXCEPT !.containers = TRUE, !.ready = r]]
    BY <1>3 DEF KubeletReports, SetType
  <2>2. [pods[p] EXCEPT !.containers = TRUE, !.ready = r] \in Pod
    BY <1>1 DEF Pod
  <2> QED BY <1>3, <2>1, <2>2 DEF KubeletReports, SetType, PodUnchanged, snapVars
<1>4. CASE GraceElapses(p)
  BY <1>4 DEF GraceElapses, SetType, PodUnchanged, snapVars
<1>5. CASE PodLost(p)
  BY <1>5, PodConstants, SaveType DEF PodLost, SetType, PodUnchanged, snapVars
<1> QED BY <1>2, <1>3, <1>4, <1>5 DEF Node

LEMMA SetTypeStep ==
    ASSUME SetType, SetNext
    PROVE  SetType'
<1>1. CASE SyncStart
  BY <1>1 DEF SetType, SyncStart, ToRefresh, Live
<1>2. CASE SyncStartStale
  BY <1>2 DEF SetType, SyncStartStale, ToRefresh, Live
<1>3. CASE ManageInplaceUpdate
  <2>1. \A need \in NeedUpdate(setSnap, podSnap) : need \subseteq Pods
    BY DEF NeedUpdate, Subsets, Live
  <2> QED BY <1>3, <2>1 DEF SetType, ManageInplaceUpdate, snapVars
<1>4. ASSUME NEW p \in Pods, CloseGate(p) PROVE SetType'
  <2>1. Gated(pods[p], FALSE) \in Pod
    BY PodWrites DEF SetType
  <2> QED BY <1>4, <2>1, SaveType DEF SetType, CloseGate, snapVars
<1>5. ASSUME NEW p \in Pods, UpdatePodInPlace(p) PROVE SetType'
  <2>1. pods[p] \in Pod /\ setSnap.template \in Templates
    BY DEF SetType, InplaceSetObject
  <2>2. UpdatedInPlace(pods[p], setSnap.template) \in Pod
    BY <2>1, PodWrites
  <2> QED BY <1>5, <2>2, SaveType DEF SetType, UpdatePodInPlace, snapVars
<1>6. CASE TryFails
  BY <1>6 DEF SetType, TryFails, snapVars
<1>7. CASE UpdateStatus
  <2>1. Status(setSnap, podSnap) \in InplaceSetObject
    BY StatusType DEF SetType
  <2>2. ips' \in InplaceSetObject
    BY <1>7, <2>1 DEF SetType, UpdateStatus, InplaceSetObject
  <2> QED BY <1>7, <2>2, EndsType DEF SetType, UpdateStatus
<1>8. CASE SyncAborts
  BY <1>8, EndsType DEF SetType, SyncAborts
<1>9. QED
  BY <1>1, <1>2, <1>3, <1>4, <1>5, <1>6, <1>7, <1>8, RefreshPodType, ManageReplicasType,
     NodeType DEF SetNext, Reconcile

LEMMA TypeStep ==
    ASSUME TypeOK, [Next]_vars
    PROVE  TypeOK'
<1> SetType
  BY DEF TypeOK, SetType
<1>1. CASE SetNext /\ UNCHANGED rolloutVars
  BY <1>1, SetTypeStep DEF TypeOK, SetType, rolloutVars
<1>2. CASE RolloutStart
  BY <1>2 DEF TypeOK, RolloutStart, setVars
<1>3. RolloutEnds => /\ rpc' \in {"idle", "manage", "clean"}
                     /\ seen' \in [set : InplaceSetObject, template : Templates, desired : Nat]
  BY PodConstants DEF RolloutEnds
<1>4. /\ seen.set \in InplaceSetObject /\ seen.template \in Templates /\ seen.desired \in Nat
  BY DEF TypeOK
<1>5. CASE RaiseUpdatePodNum
  <2>1. ips' \in InplaceSetObject
    BY <1>4, <1>5, UpdatePodNumType DEF TypeOK, RaiseUpdatePodNum, InplaceSetObject
  <2> QED BY <1>3, <1>5, <2>1 DEF TypeOK, RaiseUpdatePodNum, snapVars
<1>6. CASE ScaleSubset
  <2>1. seen.set.replicas \in Nat
    BY <1>4 DEF InplaceSetObject
  <2>2. ips' \in InplaceSetObject
    BY <1>4, <1>6, <2>1, StepSizeType DEF TypeOK, ScaleSubset, InplaceSetObject
  <2> QED BY <1>3, <1>6, <2>2 DEF TypeOK, ScaleSubset, snapVars
<1>7. CASE CleanAfterSaturated
  <2>1. ips' \in InplaceSetObject
    BY <1>7 DEF TypeOK, CleanAfterSaturated, InplaceSetObject
  <2> QED BY <1>3, <1>7, <2>1 DEF TypeOK, CleanAfterSaturated, snapVars
<1>8. CASE RolloutAborts
  BY <1>3, <1>8 DEF TypeOK, RolloutAborts, snapVars
<1>9. ASSUME NEW t \in Templates, UserApply(t) PROVE TypeOK'
  BY <1>9 DEF TypeOK, UserApply, setVars
<1>10. ASSUME NEW n \in Sizes, UserScale(n) PROVE TypeOK'
  BY <1>10 DEF TypeOK, UserScale, setVars
<1>11. CASE UNCHANGED vars
  BY <1>11 DEF TypeOK, vars, setVars, rolloutVars
<1> QED BY <1>1, <1>2, <1>5, <1>6, <1>7, <1>8, <1>9, <1>10, <1>11 DEF Next, Rollout

LEMMA TypeInit ==
    ASSUME Init
    PROVE  TypeOK
<1>1. \A n \in Nat : [NoSet EXCEPT !.replicas = n, !.available = n] \in InplaceSetObject
  BY DEF NoSet, InplaceSetObject
<1>2. \A P : [p \in Pods |-> IF p \in P THEN Serving(1) ELSE NoPod] \in [Pods -> Pod]
  BY PodConstants
<1>3. pods \in [Pods -> Pod]
  <2>1. PICK P : pods = [p \in Pods |-> IF p \in P THEN Serving(1) ELSE NoPod]
    BY DEF Init, SetInit
  <2> QED BY <1>2, <2>1
<1>4. /\ ips \in InplaceSetObject /\ setSnap \in InplaceSetObject
      /\ desired \in Nat /\ desired \in Sizes
  BY <1>1, PodConstants DEF Init, SetInit
<1>5. seen \in [set : InplaceSetObject, template : Templates, desired : Nat]
  BY PodConstants DEF Init
<1> QED BY <1>3, <1>4, <1>5 DEF Init, SetInit, TypeOK

\* Through updates in place, edits, lost pods, failed calls and stale lists,
\* every variable keeps its type; above all no size or updatePodNum that the
\* rollout computes (calculateStepSize, CheckInplaceUpdate) goes below zero.
THEOREM TypeCorrect == Spec => []TypeOK
BY TypeInit, TypeStep, PTL DEF Spec

-----------------------------------------------------------------------------
(* Pods leave the service before their images are replaced                 *)

\* The deployments the theorem is about: the template has the readiness gate.
GateScope == ReadinessGate = TRUE

\* pod is out of service and stays so until its gate is opened.
Out(pod) == ~pod.ready /\ ~pod.gate

\* No pod is ready whose containers are not; a pod in its grace period, and the
\* one whose gate this reconcile has just closed, are out of service; and while
\* refreshPods works, a pod without a grace period in the list has none.  It
\* holds until a reconcile works from a stale list.
GateInv ==
    /\ \A p \in Pods : pods[p].ready => pods[p].containers
    /\ \A p \in Pods : pods[p].grace # 0 => Out(pods[p])
    /\ \A p \in cur : Out(pods[p])
    /\ cur # {} => spc = "try"
    /\ spc = "refresh" => \A p \in Pods : podSnap[p].grace = 0 => pods[p].grace = 0

PatchedOut == \A p \in Live(pods) : pods'[p].live /\ pods'[p].image # pods[p].image
                                       => ~pods[p].ready

LEMMA GateConstants ==
    /\ \A t \in Templates : /\ Out(Created(t)) /\ Created(t).grace = 0
                            /\ Serving(t).containers /\ Serving(t).grace = 0
    /\ Out(NoPod) /\ NoPod.grace = 0 /\ ~NoPod.live
BY DEF Out, Created, Serving, NoPod

\* What the writes of the controller do to a pod.
LEMMA GateWrites ==
    ASSUME NEW pod \in Pod, NEW t \in Templates, pod.ready => pod.containers
    PROVE  /\ Out(Gated(pod, FALSE))
           /\ Out(pod) => Out(Patched(pod, t)) /\ Out(UpdatedInPlace(pod, t))
           /\ Patched(pod, t).grace = 0
           /\ \A b \in BOOLEAN : /\ Gated(pod, b).grace = pod.grace
                                 /\ Gated(pod, b).image = pod.image
                                 /\ Gated(pod, b).ready => Gated(pod, b).containers
           /\ Patched(pod, t).ready => Patched(pod, t).containers
           /\ UpdatedInPlace(pod, t).ready => UpdatedInPlace(pod, t).containers
<1>1. /\ Out(Gated(pod, FALSE))
      /\ \A b \in BOOLEAN : /\ Gated(pod, b).grace = pod.grace
                            /\ Gated(pod, b).image = pod.image
                            /\ Gated(pod, b).ready => Gated(pod, b).containers
  BY DEF Out, Gated, Pod
<1>2. /\ Patched(pod, t).grace = 0
      /\ Patched(pod, t).ready = pod.ready /\ Patched(pod, t).gate = pod.gate
      /\ Patched(pod, t).containers = pod.containers
  BY DEF Patched, Pod
<1>3. /\ UpdatedInPlace(pod, t).ready = pod.ready /\ UpdatedInPlace(pod, t).gate = pod.gate
      /\ UpdatedInPlace(pod, t).containers = pod.containers
  BY <1>2 DEF UpdatedInPlace, Pod
<1> QED BY <1>1, <1>2, <1>3 DEF Out

\* A reconcile that ends, or a step that leaves the pods alone.
LEMMA GateKept ==
    ASSUME GateInv, UNCHANGED pods,
           \/ cur' = {} /\ spc' # "refresh"
           \/ UNCHANGED <<cur, spc, podSnap>>
    PROVE  GateInv' /\ PatchedOut
BY DEF GateInv, PatchedOut

\* A step that writes new to p, which was out of service if its images change.
LEMMA GateSaved ==
    ASSUME SetType, GateInv, NEW p \in Pods, NEW new \in Pod,
           pods' = [pods EXCEPT ![p] = new],
           new.ready => new.containers,
           new.grace # 0 => Out(new),
           p \in cur' => Out(new),
           cur' \subseteq cur \cup {p}, cur' # {} => spc' = "try",
           spc' = "refresh" => /\ spc = "refresh" /\ UNCHANGED podSnap
                               /\ new.grace = 0 \/ new.grace = pods[p].grace,
           new.live /\ new.image # pods[p].image => ~pods[p].ready
    PROVE  GateInv' /\ PatchedOut
<1>1. \A q \in Pods : pods'[q] = IF q = p THEN new ELSE pods[q]
  BY DEF SetType
<1>2. PatchedOut
  BY <1>1 DEF PatchedOut, Live
<1>3. GateInv'
  BY <1>1 DEF GateInv, SetType
<1> QED BY <1>2, <1>3

LEMMA GateRefresh ==
    ASSUME GateScope, SetType, GateInv, NEW p \in Pods, RefreshPod(p)
    PROVE  GateInv' /\ PatchedOut
<1>1. /\ pods[p] \in Pod /\ spc = "refresh" /\ cur = {}
      /\ pods[p].ready => pods[p].containers
      /\ pods[p].grace # 0 => Out(pods[p])
      /\ podSnap[p].grace = 0 => pods[p].grace = 0
  BY DEF SetType, GateInv, RefreshPod
<1>2. CASE UNCHANGED pods
  <2>1. \/ cur' = {} /\ spc' # "refresh"
        \/ UNCHANGED <<cur, spc, podSnap>>
    BY <1>1, <1>2 DEF RefreshPod, Ends, snapVars
  <2> QED BY <1>2, <2>1, GateKept
<1>3. CASE pods[p].live /\ GraceOver(p) /\ Save(p, Patched(pods[p], pods[p].grace))
           /\ UNCHANGED <<spc, cur, snapVars>>
  <2> DEFINE new == Patched(pods[p], pods[p].grace)
  <2>1. pods[p].grace \in Templates
    BY <1>1, <1>3 DEF GraceOver, Pod
  <2>2. new \in Pod
    BY <1>1, <2>1, PodWrites
  <2>3. /\ new.grace = 0 /\ ~pods[p].ready
        /\ new.ready => new.containers
    BY <1>1, <1>3, <2>1, GateWrites DEF GraceOver, Out
  <2>4. pods' = [pods EXCEPT ![p] = new] /\ UNCHANGED podSnap /\ spc' = "refresh" /\ cur' = {}
    BY <1>1, <1>3 DEF Save, snapVars
  <2> HIDE DEF new
  <2> QED BY <1>1, <2>2, <2>3, <2>4, GateSaved
<1>4. CASE podSnap[p].grace = 0 /\ Save(p, Gated(pods[p], TRUE)) /\ UNCHANGED <<spc, cur, snapVars>>
  <2> DEFINE new == Gated(pods[p], TRUE)
  <2>1. new \in Pod
    BY <1>1, PodWrites
  <2>2. PICK t \in Templates : TRUE
    OBVIOUS
  <2>3. /\ new.grace = pods[p].grace /\ new.image = pods[p].image
        /\ new.ready => new.containers
    BY <1>1, <2>2, GateWrites
  <2>4. pods' = [pods EXCEPT ![p] = new] /\ UNCHANGED podSnap /\ spc' = "refresh" /\ cur' = {}
    BY <1>1, <1>4 DEF Save, snapVars
  <2>5. new.grace = 0
    BY <1>1, <1>4, <2>3
  <2> HIDE DEF new
  <2> QED BY <1>1, <2>1, <2>3, <2>4, <2>5, GateSaved
<1> QED BY <1>2, <1>3, <1>4 DEF RefreshPod

\* manageReplicas gives new pods unused names and takes others away.
LEMMA GateReplicas ==
    ASSUME SetType, GateInv, ManageReplicas \/ ManageReplicasFails
    PROVE  GateInv' /\ PatchedOut
<1>1. spc = "refresh" /\ cur = {} /\ cur' = {} /\ spc' # "refresh"
  BY DEF GateInv, ManageReplicas, ManageReplicasFails
<1>2. setSnap.template \in Templates
  BY DEF SetType, InplaceSetObject
<1>3. \A p \in Pods : \/ pods'[p] = pods[p]
                      \/ pods'[p] = NoPod
                      \/ pods'[p] = Created(setSnap.template) /\ ~pods[p].live
  <2>1. \A n : \A S \in Subsets(Unused, n) : \A p \in S : ~pods[p].live
    BY DEF Subsets, Unused, Live
  <2>2. CASE ManageReplicas
    BY <2>1, <2>2 DEF ManageReplicas
  <2>3. CASE ManageReplicasFails
    BY <2>1, <2>3 DEF ManageReplicasFails
  <2> QED BY <2>2, <2>3
<1>4. PatchedOut
  BY <1>3, GateConstants DEF PatchedOut, Live
<1>5. GateInv'
  BY <1>1, <1>2, <1>3, GateConstants DEF GateInv, Out
<1> QED BY <1>4, <1>5

LEMMA GateNode ==
    ASSUME GateScope, SetType, GateInv, NEW p \in Pods, Node(p) \/ PodLost(p)
    PROVE  GateInv' /\ PatchedOut
<1>1. /\ pods[p] \in Pod
      /\ pods[p].ready => pods[p].containers
      /\ pods[p].grace # 0 => Out(pods[p])
      /\ p \in cur => Out(pods[p])
      /\ UNCHANGED <<cur, spc, podSnap>>
      /\ cur # {} => spc = "try"
  BY DEF SetType, GateInv, Node, ContainerRestarts, KubeletReports, GraceElapses, PodLost,
         PodUnchanged, snapVars
<1>2. CASE ContainerRestarts(p)
  <2> DEFINE new == [pods[p] EXCEPT !.running = pods[p].image, !.containers = FALSE,
                                    !.ready = FALSE]
  <2>1. pods' = [pods EXCEPT ![p] = new]
    BY <1>2 DEF ContainerRestarts, SetType
  <2>2. /\ new \in Pod /\ new.grace = pods[p].grace /\ new.image = pods[p].image
        /\ ~new.ready /\ new.gate = pods[p].gate
    BY <1>1 DEF Pod
  <2> HIDE DEF new
  <2>3. Out(pods[p]) => Out(new)
    BY <2>2 DEF Out
  <2> QED BY <1>1, <2>1, <2>2, <2>3, GateSaved
<1>3. CASE KubeletReports(p)
  <2> DEFINE new == [pods[p] EXCEPT !.containers = TRUE, !.ready = pods[p].gate]
  <2>1. pods' = [pods EXCEPT ![p] = new]
    BY <1>1, <1>3 DEF KubeletReports, SetType, GateScope, Pod
  <2>2. /\ new \in Pod /\ new.grace = pods[p].grace /\ new.image = pods[p].image
        /\ new.ready = pods[p].gate /\ new.gate = pods[p].gate /\ new.containers
    BY <1>1 DEF Pod
  <2> HIDE DEF new
  <2>3. Out(pods[p]) => Out(new)
    BY <2>2 DEF Out
  <2> QED BY <1>1, <2>1, <2>2, <2>3, GateSaved
<1>4. CASE GraceElapses(p)
  BY <1>1, <1>4, GateKept DEF GraceElapses
<1>5. CASE PodLost(p)
  <2>1. pods' = [pods EXCEPT ![p] = NoPod]
    BY <1>5 DEF PodLost, Save
  <2>2. NoPod \in Pod /\ ~NoPod.ready /\ NoPod.grace = 0 /\ Out(NoPod) /\ ~NoPod.live
    BY PodConstants, GateConstants DEF Out
  <2> QED BY <1>1, <2>1, <2>2, GateSaved
<1> QED BY <1>2, <1>3, <1>4, <1>5 DEF Node

LEMMA GateTry ==
    ASSUME GateScope, SetType, GateInv, NEW p \in Pods, CloseGate(p) \/ UpdatePodInPlace(p)
    PROVE  GateInv' /\ PatchedOut
<1>1. /\ pods[p] \in Pod
      /\ pods[p].ready => pods[p].containers
      /\ spc = "try" /\ spc' = "try" /\ setSnap.template \in Templates
  BY DEF SetType, GateInv, CloseGate, UpdatePodInPlace, InplaceSetObject
<1>2. CASE CloseGate(p)
  <2> DEFINE new == Gated(pods[p], FALSE)
  <2>1. pods' = [pods EXCEPT ![p] = new] /\ cur' = {p}
    BY <1>2 DEF CloseGate, Save
  <2>2. new \in Pod
    BY <1>1, PodWrites
  <2>3. /\ Out(new) /\ new.image = pods[p].image
        /\ new.ready => new.containers
    BY <1>1, GateWrites
  <2> HIDE DEF new
  <2> QED BY <1>1, <2>1, <2>2, <2>3, GateSaved
<1>3. CASE UpdatePodInPlace(p)
  <2> DEFINE new == UpdatedInPlace(pods[p], setSnap.template)
  <2>1. pods' = [pods EXCEPT ![p] = new] /\ cur' = {} /\ cur = {p}
    BY <1>3 DEF UpdatePodInPlace, Save, GateScope
  <2>2. Out(pods[p])
    BY <2>1 DEF GateInv
  <2>3. new \in Pod
    BY <1>1, PodWrites
  <2>4. Out(new) /\ (new.ready => new.containers)
    BY <1>1, <2>2, GateWrites
  <2>5. ~pods[p].ready
    BY <2>2 DEF Out
  <2> HIDE DEF new
  <2> QED BY <1>1, <2>1, <2>3, <2>4, <2>5, GateSaved
<1> QED BY <1>2, <1>3

LEMMA GateStep ==
    ASSUME GateScope, TypeOK, GateInv, [Next]_vars, ~SyncStartStale
    PROVE  GateInv' /\ PatchedOut
<1> SetType
  BY DEF TypeOK, SetType
<1>1. CASE SyncStart
  BY <1>1 DEF SyncStart, GateInv, PatchedOut
<1>2. CASE ManageInplaceUpdate \/ TryFails
  BY <1>2, GateKept DEF ManageInplaceUpdate, TryFails
<1>3. CASE UpdateStatus \/ SyncAborts
  BY <1>3, GateKept DEF UpdateStatus, SyncAborts, Ends
<1>4. CASE SetNext
  BY <1>1, <1>2, <1>3, <1>4, GateRefresh, GateReplicas, GateNode, GateTry DEF SetNext, Reconcile
<1>5. CASE Rollout \/ RolloutAborts
  <2>1. UNCHANGED <<pods, cur, spc, podSnap>>
    BY <1>5 DEF Rollout, RolloutAborts, RolloutStart, RaiseUpdatePodNum, ScaleSubset,
                CleanAfterSaturated, setVars, snapVars
  <2> QED BY <2>1, GateKept
<1>6. CASE (\E t \in Templates : UserApply(t)) \/ (\E n \in Sizes : UserScale(n))
  <2>1. UNCHANGED <<pods, cur, spc, podSnap>>
    BY <1>6 DEF UserApply, UserScale, setVars
  <2> QED BY <2>1, GateKept
<1>7. CASE UNCHANGED vars
  <2>1. UNCHANGED <<pods, cur, spc, podSnap>>
    BY <1>7 DEF vars, setVars
  <2> QED BY <2>1, GateKept
<1> QED BY <1>4, <1>5, <1>6, <1>7 DEF Next

LEMMA GateInit ==
    ASSUME Init
    PROVE  GateInv
<1>1. PICK P : pods = [p \in Pods |-> IF p \in P THEN Serving(1) ELSE NoPod]
  BY DEF Init, SetInit
<1>2. \A p \in Pods : pods[p] = Serving(1) \/ pods[p] = NoPod
  BY <1>1
<1>3. cur = {} /\ spc = "idle"
  BY DEF Init, SetInit
<1> QED BY <1>2, <1>3, GateConstants DEF GateInv, Out

\* Stale lists are not forgotten.
LEMMA LagsStay ==
    ASSUME lags \in Nat, [Next]_vars
    PROVE  /\ lags' = 0 => lags = 0
           /\ SyncStartStale => lags' # 0 /\ UNCHANGED pods
           /\ ~SyncStartStale => UNCHANGED lags
<1>1. SyncStartStale => lags' = lags + 1 /\ UNCHANGED pods
  BY DEF SyncStartStale
<1>2. SetNext /\ ~SyncStartStale => UNCHANGED lags
  <2>1. SyncStart \/ ManageReplicas \/ ManageReplicasFails \/ ManageInplaceUpdate \/ TryFails
          => UNCHANGED lags
    BY DEF SyncStart, ManageReplicas, ManageReplicasFails, ManageInplaceUpdate, TryFails, snapVars
  <2>2. UpdateStatus \/ SyncAborts => UNCHANGED lags
    BY DEF UpdateStatus, SyncAborts, Ends
  <2>3. \A p \in Pods : RefreshPod(p) => UNCHANGED lags
    BY DEF RefreshPod, Ends, snapVars
  <2>4. \A p \in Pods : CloseGate(p) \/ UpdatePodInPlace(p) => UNCHANGED lags
    BY DEF CloseGate, UpdatePodInPlace, snapVars
  <2>5. \A p \in Pods : Node(p) \/ PodLost(p) => UNCHANGED lags
    BY DEF Node, ContainerRestarts, KubeletReports, GraceElapses, PodLost, PodUnchanged, snapVars
  <2> QED BY <2>1, <2>2, <2>3, <2>4, <2>5 DEF SetNext, Reconcile
<1>3. ~SetNext => UNCHANGED lags
  BY DEF Next, Rollout, RolloutAborts, RolloutStart, RaiseUpdatePodNum, ScaleSubset,
         CleanAfterSaturated, UserApply, UserScale, vars, setVars, snapVars
<1> QED BY <1>1, <1>2, <1>3

\* With the readiness gate, for every number of pods, size of a group and grace
\* period, and whatever pods are lost, calls fail or edits come in the middle of
\* an update: as long as no reconcile worked from a stale list of pods,
\* TryInplaceUpdate and finishGracePeriod replace the images of a pod only while
\* it is not Ready.
THEOREM PatchedOutOfService ==
    ASSUME GateScope
    PROVE  Spec => OutOfServiceWhenPatched
<1>1. Init => GateInv
  BY GateInit
<1>2. TypeOK /\ (lags = 0 => GateInv) /\ [Next]_vars => (lags = 0 => GateInv)'
  BY GateStep, LagsStay DEF TypeOK
<1>3. TypeOK /\ (lags = 0 => GateInv) /\ [Next]_vars
         => [lags = 0 => \A p \in Live(pods) : pods'[p].live /\ pods'[p].image # pods[p].image
                                                 => ~pods[p].ready]_vars
  BY GateStep, LagsStay DEF TypeOK, PatchedOut
<1> QED BY <1>1, <1>2, <1>3, TypeCorrect, PTL DEF Spec, OutOfServiceWhenPatched


-----------------------------------------------------------------------------
(* One group at a time, and every pod updated at the end                   *)

\* The deployments the theorems are about: pods have the readiness gate, and the
\* user waits for an update to be over before the next edit.
GroupScope == ReadinessGate = TRUE /\ Interrupt = FALSE

\* The user does not change the size of the region in this step.
NoScaling == \A n \in Sizes : ~UserScale(n)

Busy == spc # "idle"
Num  == ips.updatePodNum
Tpl  == ips.template

\* The template that pods are updated to: that of the reconcile, if there is one.
Aim == IF Busy THEN setSnap.template ELSE Tpl

\* No pod is to be updated: there is no update spec, or the reconcile has read the
\* InplaceSet before it was given one.
Resting == Num = 0 \/ (Busy /\ setSnap.template # Tpl)

\* ... but the reconcile still acts on the update spec that has been removed.
Late == Resting /\ Busy /\ setSnap.updatePodNum > 0

\* Pods that the update to t has reached, those that serve again after it, and
\* those out of service for any update; of these the strays, which belong to
\* another update than the one to t and are not in the hands c of the reconcile.
Reached(ps, t)  == {p \in Live(ps) : ps[p].state = t}
Done(ps, t)     == {p \in Live(ps) : ps[p].state = t /\ ps[p].ready /\ Completed(ps[p])}
OutOf(ps)       == {p \in Live(ps) : ps[p].state # 0 /\ ~ps[p].ready}
Stray(ps, t, c) == {p \in OutOf(ps) : ps[p].state # t /\ p \notin c}
Picked          == IF spc = "try" THEN todo ELSE {}

\* A pod that is at template t, or about to be patched with what it has.
At(pod, t) == pod.image = t /\ pod.grace \in {0, t} /\ pod.state \in {0, t}
AllAt(t)   == \A p \in Pods : pods[p].live => At(pods[p], t)

\* What the annotations, conditions and images of a pod say together: a pod is
\* ready only with an open gate; the grace period is for the recorded hash; after
\* it the images are those of that hash; and a container that is still to be
\* replaced keeps the pod out of service.
Coherent(pod) ==
    /\ pod.ready => pod.gate /\ pod.containers
    /\ pod.grace # 0 => Out(pod) /\ pod.grace = pod.state
    /\ pod.state # 0 /\ pod.grace = 0 => pod.image = pod.state
    /\ pod.state = 0 => pod.running = pod.image
    /\ pod.grace # 0 /\ pod.image = pod.grace => pod.running = pod.image
    /\ pod.running # pod.image => Out(pod) /\ (pod.grace = 0 => ~Completed(pod))

\* The pods, and the reconcile that is at work on them.
ShapeInv ==
    /\ \A p \in Pods : Coherent(pods[p])
    /\ \A p \in cur : Out(pods[p])
    /\ ~Resting => \A p \in Pods : pods[p].live /\ pods[p].state \notin {0, Tpl} => pods[p].image # Tpl
    /\ spc = "refresh" => \A p \in todo : pods[p].live /\ podSnap[p].grace = 0
                             => pods[p].grace = 0 /\ pods[p].running = pods[p].image
    /\ spc = "try" => \A p \in todo : pods[p].live => pods[p].state # setSnap.template

\* The list of the reconcile and the pods since.
ListInv ==
    /\ Cardinality(Live(pods)) <= desired
    /\ faults = 0 => Cardinality(Live(pods)) = desired
    /\ Busy => Cardinality(Listed) <= desired
    /\ spc = "refresh" => Live(pods) \subseteq Listed
    /\ Busy => \A p \in Pods : pods[p].live /\ ~podSnap[p].live => pods[p].state = 0
    /\ spc \in {"refresh", "update"} =>
          \A p \in Pods : pods[p].live /\ podSnap[p].live => pods[p].state = podSnap[p].state
    /\ todo \subseteq Listed /\ cur \subseteq todo
    /\ cur # {} => spc = "try" /\ \E p \in Pods : cur = {p}
    /\ todo # {} => spc = "refresh" \/ (spc = "try" /\ setSnap.updatePodNum > 0)

\* The update spec and what the two controllers have read of it.
SpecInv ==
    /\ ips.replicas = desired /\ Num <= desired
    /\ template # Tpl => Num = 0
    /\ Num = 0 => ips.updateHash \in {0, Tpl}
    /\ Num > 0 /\ ips.updateHash # Tpl => Num <= BatchSize
    /\ rpc # "idle" => /\ seen.desired = desired /\ seen.template = template
                       /\ seen.set.updatePodNum = Num /\ seen.set.template = Tpl
                       /\ seen.set.replicas = desired
                       /\ Num > 0 => ips.updateHash = Tpl
    /\ rpc = "clean" => template = Tpl /\ Num \in {0, desired}
    /\ rpc = "manage" /\ template = Tpl => Num > 0 /\ Num < desired
    /\ Busy => /\ setSnap.replicas = desired /\ setSnap.updatePodNum <= desired
               /\ Num = 0 \/ ips.updateHash = Tpl => setSnap.template = Tpl
               /\ Num > 0 /\ setSnap.template = Tpl => setSnap.updatePodNum \in 1..Num

\* The update is over, or will be declared so.
Finished ==
    \/ Resting \/ rpc = "clean"
    \/ ips.updateHash = Tpl /\ ips.updated >= desired
    \/ Busy /\ setSnap.template = Tpl /\ Cardinality(Done(podSnap, Tpl)) >= desired

EndInv == Finished => AllAt(Aim)

\* The pods out of service, against those that serve again and the faults.
CountInv ==
    /\ Resting => Cardinality(OutOf(pods)) <= faults
    /\ Late => /\ desired <= Cardinality(Done(pods, Aim)) + faults
               /\ Cardinality(Reached(pods, Aim) \cup Picked) <= desired
    /\ ~Resting =>
          LET stray == Cardinality(Stray(pods, Tpl, cur))
              done  == Cardinality(Done(pods, Tpl))
          IN  /\ stray <= faults
              /\ Num + stray <= done + BatchSize + faults
              /\ Cardinality(Reached(pods, Tpl) \cup Picked) <= Num
              /\ ips.updateHash = Tpl => ips.updated + stray <= done + faults
              /\ Busy => Cardinality(Done(podSnap, Tpl)) + stray <= done + faults
              /\ rpc # "idle" => Num + stray <= done + faults
    /\ faults = 0 /\ Num > 0 /\ desired > 1 => Num < desired \/ Done(pods, Tpl) # {}

GroupInv == ShapeInv /\ ListInv /\ SpecInv /\ EndInv /\ CountInv

-----------------------------------------------------------------------------
(* One pod                                                                 *)

\* The kubelet replaces the container, or reports it.
Restarted(pod) == [pod EXCEPT !.running = pod.image, !.containers = FALSE, !.ready = FALSE]
Seen(pod)      == [pod EXCEPT !.containers = TRUE, !.ready = pod.gate]

\* What a step that chooses no pod for an update may do to a pod.
CalmStep(old, new, t) ==
    \/ new = old \/ new = NoPod
    \/ ~old.live /\ new = Created(t)
    \/ old.grace # 0 /\ new = Patched(old, old.grace)
    \/ old.grace = 0 /\ old.running = old.image /\ new = Gated(old, TRUE)
    \/ old.running # old.image /\ new = Restarted(old)
    \/ old.running = old.image /\ new = Seen(old)

\* What TryInplaceUpdate does to a pod that was not reached by the update to t.
TryStep(old, new, t) ==
    /\ old.state # t
    /\ \/ new = Gated(old, FALSE)
       \/ Out(old) /\ (old.image = t => old.running = old.image) /\ new = UpdatedInPlace(old, t)

LEMMA TemplateNotZero == \A t \in Templates : t \in Nat /\ t # 0
BY InplaceSetAssumption

LEMMA PatchedFields ==
    ASSUME NEW old \in Pod, NEW t \in Templates
    PROVE  LET new == Patched(old, t)
           IN  /\ new.image = t /\ new.state = t /\ new.grace = 0
               /\ new.running = old.running /\ new.live = old.live
               /\ new.ready = old.ready /\ new.gate = old.gate /\ new.containers = old.containers
               /\ old.image # t => new.last = old.running
               /\ old.running # 0 /\ t # 0
<1>1. old.running # 0 /\ t # 0
  BY TemplateNotZero DEF Pod
<1> QED BY <1>1 DEF Patched, Pod

\* The images are patched in a pod that is out of service.
LEMMA CoherentPatched ==
    ASSUME NEW old \in Pod, NEW t \in Templates, Out(old), old.ready => old.containers,
           old.image = t => old.running = old.image
    PROVE  Coherent(Patched(old, t))
<1> DEFINE new == Patched(old, t)
<1>1. /\ new.image = t /\ new.state = t /\ new.grace = 0
      /\ new.running = old.running
      /\ new.ready = old.ready /\ new.gate = old.gate
      /\ old.image # t => new.last = old.running
      /\ old.running # 0 /\ t # 0
  BY PatchedFields
<1> HIDE DEF new
<1> QED BY <1>1 DEF Coherent, Out, Completed, new

LEMMA CoherentCalm ==
    ASSUME NEW old \in Pod, NEW t \in Templates, NEW new, Coherent(old), CalmStep(old, new, t)
    PROVE  Coherent(new)
<1>1. CASE new = old
  BY <1>1
<1>2. CASE new = NoPod \/ new = Created(t)
  BY <1>2 DEF Coherent, Created, NoPod, Out, Completed
<1>3. CASE old.grace # 0 /\ new = Patched(old, old.grace)
  <2>1. old.grace \in Templates
    BY <1>3 DEF Pod
  <2>2. Out(old) /\ (old.ready => old.containers) /\ (old.image = old.grace => old.running = old.image)
    BY <1>3 DEF Coherent
  <2> QED BY <1>3, <2>1, <2>2, CoherentPatched
<1>4. CASE old.grace = 0 /\ old.running = old.image /\ new = Gated(old, TRUE)
  BY <1>4 DEF Coherent, Gated, Out, Completed, Pod
<1>5. CASE old.running # old.image /\ new = Restarted(old)
  BY <1>5 DEF Coherent, Restarted, Out, Completed, Pod
<1>6. CASE old.running = old.image /\ new = Seen(old)
  BY <1>6 DEF Coherent, Seen, Out, Completed, Pod
<1> QED BY <1>1, <1>2, <1>3, <1>4, <1>5, <1>6 DEF CalmStep

LEMMA CoherentTry ==
    ASSUME NEW old \in Pod, NEW t \in Templates, NEW new, Coherent(old), TryStep(old, new, t)
    PROVE  Coherent(new)
<1>1. CASE new = Gated(old, FALSE)
  BY <1>1 DEF Coherent, Gated, Out, Completed, Pod
<1>2. CASE Out(old) /\ (old.image = t => old.running = old.image) /\ new = UpdatedInPlace(old, t)
  <2>1. CASE GracePeriod
    <3>1. /\ new.state = t /\ new.grace = t /\ new.last = 0 /\ new.image = old.image
          /\ new.running = old.running /\ new.ready = old.ready /\ new.gate = old.gate /\ t # 0
      BY <1>2, <2>1, TemplateNotZero DEF UpdatedInPlace, Pod
    <3> QED BY <1>2, <3>1 DEF Coherent, Out
  <2>2. CASE ~GracePeriod
    <3>1. new = Patched(old, t)
      BY <1>2, <2>2 DEF UpdatedInPlace
    <3> QED BY <1>2, <3>1, CoherentPatched DEF Out
  <2> QED BY <2>1, <2>2
<1> QED BY <1>1, <1>2 DEF TryStep

\* A step that chooses no pod gives none a new hash, takes none out of service,
\* and leaves those that serve after an update, but for a pod that is lost.
LEMMA CalmFields ==
    ASSUME NEW old \in Pod, NEW t \in Templates, NEW new, Coherent(old), CalmStep(old, new, t)
    PROVE  /\ new.live /\ new.state # 0 => old.live /\ new.state = old.state
           /\ new.live /\ new.state # 0 /\ ~new.ready => ~old.ready
           /\ new.live /\ old.live => new.state = old.state
           /\ new.live /\ old.live /\ old.state # 0 /\ old.ready /\ Completed(old)
                 => new.ready /\ Completed(new)
           /\ old.live /\ Out(old) /\ new # Gated(old, TRUE) => Out(new)
           /\ new # NoPod /\ old.live => new.live
<1>1. CASE new = old
  BY <1>1
<1>2. CASE new = NoPod
  BY <1>2 DEF Created, NoPod, Out
<1>7. CASE ~old.live /\ new = Created(t)
  BY <1>7 DEF Created
<1>3. CASE old.grace # 0 /\ new = Patched(old, old.grace)
  BY <1>3 DEF Coherent, Patched, Out, Completed, Pod
<1>4. CASE old.grace = 0 /\ old.running = old.image /\ new = Gated(old, TRUE)
  BY <1>4 DEF Coherent, Gated, Out, Completed, Pod
<1>5. CASE old.running # old.image /\ new = Restarted(old)
  BY <1>5 DEF Coherent, Restarted, Out, Completed, Pod
<1>6. CASE old.running = old.image /\ new = Seen(old)
  BY <1>6 DEF Coherent, Seen, Out, Completed, Pod
<1> QED BY <1>1, <1>2, <1>3, <1>4, <1>5, <1>6, <1>7 DEF CalmStep

LEMMA TryFields ==
    ASSUME NEW old \in Pod, NEW t \in Templates, NEW new, Coherent(old), TryStep(old, new, t)
    PROVE  /\ new.live = old.live /\ ~new.ready /\ Out(new)
           /\ new.state \in {old.state, t}
<1>1. CASE new = Gated(old, FALSE)
  BY <1>1 DEF Coherent, Gated, Out, Pod
<1>2. CASE Out(old) /\ new = UpdatedInPlace(old, t)
  <2>1. CASE GracePeriod
    BY <1>2, <2>1 DEF UpdatedInPlace, Out, Pod
  <2>2. CASE ~GracePeriod
    BY <1>2, <2>2 DEF UpdatedInPlace, Patched, Out, Pod
  <2> QED BY <2>1, <2>2
<1> QED BY <1>1, <1>2 DEF TryStep

\* A pod at template t stays there as long as t is what pods are updated to.
LEMMA AtStays ==
    ASSUME NEW old \in Pod, NEW t \in Templates, NEW new, Coherent(old),
           CalmStep(old, new, t) \/ TryStep(old, new, t),
           old.live => At(old, t), new.live
    PROVE  At(new, t)
<1>1. CASE new = old
  BY <1>1
<1>2. CASE new = NoPod
  BY <1>2 DEF NoPod, Created
<1>7. CASE ~old.live /\ new = Created(t)
  BY <1>7 DEF Created, At
<1>3. CASE old.grace # 0 /\ new = Patched(old, old.grace)
  BY <1>3 DEF Coherent, Patched, At, Pod
<1>4. CASE \E b \in BOOLEAN : new = Gated(old, b)
  BY <1>4 DEF Gated, At, Pod
<1>5. CASE new = Restarted(old)
  BY <1>5 DEF Restarted, At, Pod
<1>6. CASE new = Seen(old)
  BY <1>6 DEF Seen, At, Pod
<1>8. CASE new = UpdatedInPlace(old, t)
  <2>1. CASE GracePeriod
    BY <1>8, <2>1 DEF UpdatedInPlace, At, Pod
  <2>2. CASE ~GracePeriod
    BY <1>8, <2>2 DEF UpdatedInPlace, Patched, At, Pod
  <2> QED BY <2>1, <2>2
<1> QED BY <1>1, <1>2, <1>3, <1>4, <1>5, <1>6, <1>7, <1>8 DEF CalmStep, TryStep

-----------------------------------------------------------------------------
(* What the steps do to the pods                                           *)

Calm(t)   == \A q \in Pods : CalmStep(pods[q], pods'[q], t)
NoneLost  == \A q \in Pods : pods[q].live => pods'[q].live

LEMMA ListedPods == Live(pods) \subseteq Pods /\ Listed \subseteq Pods
BY DEF Live, Listed

LEMMA AimType ==
    ASSUME SetType
    PROVE  Aim \in Templates /\ Tpl \in Templates /\ Num \in Nat
           /\ setSnap.template \in Templates /\ setSnap.updatePodNum \in Nat
BY DEF SetType, Aim, Tpl, Num, InplaceSetObject

\* Outside of an update, pods are updated to what the InplaceSet asks for.
LEMMA AimOfUpdate ==
    ASSUME ~Resting
    PROVE  Aim = Tpl /\ Num # 0
BY DEF Resting, Aim

LEMMA SamePodsCalm ==
    ASSUME NEW t, UNCHANGED pods
    PROVE  Calm(t) /\ NoneLost
BY DEF Calm, CalmStep, NoneLost

LEMMA OnePod ==
    ASSUME SetType, NEW p \in Pods, NEW new, pods' = [pods EXCEPT ![p] = new]
    PROVE  /\ pods'[p] = new /\ \A q \in Pods \ {p} : pods'[q] = pods[q]
           /\ \A t : CalmStep(pods[p], new, t) => Calm(t)
           /\ (pods[p].live => new.live) => NoneLost
<1>1. pods'[p] = new /\ \A q \in Pods \ {p} : pods'[q] = pods[q]
  BY DEF SetType
<1>2. ASSUME NEW t, CalmStep(pods[p], new, t) PROVE Calm(t)
  BY <1>1, <1>2 DEF Calm, CalmStep
<1>3. (pods[p].live => new.live) => NoneLost
  BY <1>1 DEF NoneLost
<1> QED BY <1>1, <1>2, <1>3

\* Kubelet, clock and the loss of a pod.
LEMMA NodeValues ==
    ASSUME GroupScope, SetType, NEW p \in Pods, Node(p) \/ PodLost(p)
    PROVE  /\ \A q \in Pods \ {p} : pods'[q] = pods[q]
           /\ pods[p].live \/ UNCHANGED pods
           /\ \/ pods'[p] = pods[p] /\ ~PodLost(p)
              \/ pods'[p] = Restarted(pods[p]) /\ pods[p].running # pods[p].image /\ ~PodLost(p)
              \/ pods'[p] = Seen(pods[p]) /\ pods[p].running = pods[p].image /\ ~PodLost(p)
              \/ pods'[p] = NoPod /\ ~Node(p)
           /\ Node(p) => pods'[p].live = pods[p].live
           /\ PodLost(p) => pods'[p] = NoPod
<1>1. pods[p] \in Pod
  BY DEF SetType
<1>2. PodLost(p) => pods[p].live /\ ~pods'[p].live /\ pods'[p] = NoPod
  BY GateConstants DEF PodLost, Save, SetType
<1>3. CASE ContainerRestarts(p)
  <2>1. pods' = [pods EXCEPT ![p] = Restarted(pods[p])] /\ pods[p].running # pods[p].image
    BY <1>3 DEF ContainerRestarts, SetType, Restarted
  <2>2. Restarted(pods[p]).live = pods[p].live /\ pods[p].live
    BY <1>1, <1>3 DEF Restarted, Pod, ContainerRestarts
  <2> QED BY <1>2, <2>1, <2>2 DEF SetType
<1>4. CASE KubeletReports(p)
  <2>1. pods' = [pods EXCEPT ![p] = Seen(pods[p])] /\ pods[p].running = pods[p].image
    BY <1>1, <1>4 DEF KubeletReports, SetType, Seen, GroupScope, Pod
  <2>2. Seen(pods[p]).live = pods[p].live /\ pods[p].live
    BY <1>1, <1>4 DEF Seen, Pod, KubeletReports
  <2> QED BY <1>2, <2>1, <2>2 DEF SetType
<1>5. CASE GraceElapses(p)
  <2>1. UNCHANGED pods
    BY <1>5 DEF GraceElapses
  <2> QED BY <1>2, <2>1
<1>6. CASE PodLost(p) /\ ~Node(p)
  <2>1. pods' = [pods EXCEPT ![p] = NoPod]
    BY <1>6 DEF PodLost, Save
  <2> QED BY <1>2, <1>6, <2>1 DEF SetType
<1> QED BY <1>3, <1>4, <1>5, <1>6 DEF Node

LEMMA NodeCalm ==
    ASSUME GroupScope, SetType, NEW p \in Pods, Node(p) \/ PodLost(p)
    PROVE  /\ \A t : Calm(t)
           /\ Node(p) => NoneLost
           /\ PodLost(p) => pods'[p] = NoPod /\ \A q \in Pods \ {p} : pods'[q] = pods[q]
<1>1. \A t : CalmStep(pods[p], pods'[p], t)
  BY NodeValues DEF CalmStep
<1>2. \A t : Calm(t)
  BY <1>1, NodeValues DEF Calm, CalmStep
<1>3. Node(p) => NoneLost
  BY NodeValues DEF NoneLost
<1> QED BY <1>2, <1>3, NodeValues

LEMMA RefreshCalm ==
    ASSUME SetType, GroupInv, NEW p \in Pods, RefreshPod(p)
    PROVE  /\ Calm(Aim) /\ NoneLost
           /\ \/ Ends /\ UNCHANGED pods
              \/ /\ todo' = todo \ {p} /\ UNCHANGED <<spc, cur, snapVars>>
                 /\ \A q \in Pods \ {p} : pods'[q] = pods[q]
<1>1. pods[p] \in Pod /\ spc = "refresh" /\ p \in todo
  BY DEF SetType, RefreshPod
<1>2. CASE UNCHANGED pods
  <2>1. Calm(Aim) /\ NoneLost
    BY <1>2, SamePodsCalm
  <2> QED BY <1>2, <2>1 DEF RefreshPod
<1>3. CASE pods[p].live /\ GraceOver(p) /\ Save(p, Patched(pods[p], pods[p].grace))
           /\ todo' = todo \ {p} /\ UNCHANGED <<spc, cur, snapVars>>
  <2> DEFINE new == Patched(pods[p], pods[p].grace)
  <2>1. pods[p].grace \in Templates /\ pods[p].grace # 0
    BY <1>1, <1>3 DEF GraceOver, Pod
  <2>2. new.live
    BY <1>1, <1>3, <2>1, PatchedFields
  <2>3. CalmStep(pods[p], new, Aim)
    BY <2>1 DEF CalmStep
  <2>4. pods' = [pods EXCEPT ![p] = new]
    BY <1>3 DEF Save
  <2> HIDE DEF new
  <2>5. Calm(Aim) /\ NoneLost /\ \A q \in Pods \ {p} : pods'[q] = pods[q]
    BY <2>2, <2>3, <2>4, OnePod
  <2> QED BY <1>3, <2>5
<1>4. CASE /\ pods[p].live /\ podSnap[p].grace = 0 /\ Save(p, Gated(pods[p], TRUE))
           /\ todo' = todo \ {p} /\ UNCHANGED <<spc, cur, snapVars>>
  <2> DEFINE new == Gated(pods[p], TRUE)
  <2>1. pods[p].grace = 0 /\ pods[p].running = pods[p].image
    BY <1>1, <1>4 DEF GroupInv, ShapeInv
  <2>2. new.live
    BY <1>1, <1>4 DEF Gated, Pod
  <2>3. CalmStep(pods[p], new, Aim)
    BY <2>1 DEF CalmStep
  <2>4. pods' = [pods EXCEPT ![p] = new]
    BY <1>4 DEF Save
  <2> HIDE DEF new
  <2>5. Calm(Aim) /\ NoneLost /\ \A q \in Pods \ {p} : pods'[q] = pods[q]
    BY <2>2, <2>3, <2>4, OnePod
  <2> QED BY <1>4, <2>5
<1> QED BY <1>2, <1>3, <1>4 DEF RefreshPod

\* manageReplicas has no pods to delete, since the list is no longer than the
\* size of the region.
LEMMA ManageCalm ==
    ASSUME SetType, GroupInv, ManageReplicas \/ ManageReplicasFails
    PROVE  /\ Calm(Aim) /\ NoneLost
           /\ \E new \in SUBSET Pods :
                 /\ Cardinality(new) <= desired - Cardinality(Listed)
                 /\ new \cap (Listed \cup Live(pods)) = {}
                 /\ pods' = [p \in Pods |-> IF p \in new THEN Created(setSnap.template) ELSE pods[p]]
<1>1. spc = "refresh" /\ Aim = setSnap.template /\ setSnap.replicas = desired
      /\ Cardinality(Listed) <= desired
  BY DEF ManageReplicas, ManageReplicasFails, Aim, Busy, GroupInv, ListInv, SpecInv
<1>2. PICK k \in Nat : k = Cardinality(Listed)
  BY ListedPods, CountType
<1>3. desired \in Nat
  BY <1>1 DEF SetType, InplaceSetObject
<1>4. PICK diff \in Int : diff = Cardinality(Listed) - setSnap.replicas
  BY <1>1, <1>2, <1>3
<1>5. ~(diff > 0) /\ -diff = desired - Cardinality(Listed) /\ -diff \in Nat
  BY <1>1, <1>2, <1>3, <1>4
<1>6. Smaller(-diff, BurstReplicas) \in Nat /\ Smaller(-diff, BurstReplicas) <= -diff
  BY <1>5, SmallerType, InplaceSetAssumption
<1>7. \E new \in SUBSET Pods :
         /\ Cardinality(new) <= desired - Cardinality(Listed)
         /\ new \cap (Listed \cup Live(pods)) = {}
         /\ pods' = [p \in Pods |-> IF p \in new THEN Created(setSnap.template) ELSE pods[p]]
  <2>1. CASE UNCHANGED pods
    <3>1. pods' = [p \in Pods |-> IF p \in {} THEN Created(setSnap.template) ELSE pods[p]]
      BY <2>1 DEF SetType
    <3>2. Cardinality({}) <= desired - Cardinality(Listed)
      BY <1>5, FS_EmptySet
    <3> QED BY <3>1, <3>2
  <2>2. ASSUME NEW m \in Nat, m <= -diff, NEW new \in Subsets(Unused, m),
               pods' = [p \in Pods |-> IF p \in new THEN Created(setSnap.template) ELSE pods[p]]
        PROVE  \E new2 \in SUBSET Pods :
                  /\ Cardinality(new2) <= desired - Cardinality(Listed)
                  /\ new2 \cap (Listed \cup Live(pods)) = {}
                  /\ pods' = [p \in Pods |-> IF p \in new2 THEN Created(setSnap.template) ELSE pods[p]]
    <3>1. new \in SUBSET Pods /\ new \cap (Listed \cup Live(pods)) = {} /\ Cardinality(new) = m
      BY <2>2 DEF Subsets, Unused
    <3> QED BY <1>5, <2>2, <3>1
  <2>3. CASE ManageReplicas
    <3>1. \/ UNCHANGED pods
          \/ diff < 0 /\ \E new \in Subsets(Unused, Smaller(-diff, BurstReplicas)) :
                pods' = [p \in Pods |-> IF p \in new THEN Created(setSnap.template) ELSE pods[p]]
      BY <1>4, <1>5, <2>3 DEF ManageReplicas
    <3> QED BY <1>6, <2>1, <2>2, <3>1
  <2>4. CASE ManageReplicasFails
    <3>1. \E m \in 0..(Smaller(-diff, BurstReplicas) - 1) : \E new \in Subsets(Unused, m) :
                pods' = [p \in Pods |-> IF p \in new THEN Created(setSnap.template) ELSE pods[p]]
      BY <1>4, <1>5, <2>4 DEF ManageReplicasFails
    <3>2. PICK m \in 0..(Smaller(-diff, BurstReplicas) - 1) : \E new \in Subsets(Unused, m) :
                pods' = [p \in Pods |-> IF p \in new THEN Created(setSnap.template) ELSE pods[p]]
      BY <3>1
    <3>3. m \in Nat /\ m <= -diff
      BY <1>5, <1>6, <3>2
    <3> QED BY <2>2, <3>2, <3>3
  <2> QED BY <2>3, <2>4
<1>8. PICK new \in SUBSET Pods :
         /\ new \cap (Listed \cup Live(pods)) = {}
         /\ pods' = [p \in Pods |-> IF p \in new THEN Created(setSnap.template) ELSE pods[p]]
  BY <1>7
<1>9. \A q \in Pods : \/ pods'[q] = pods[q]
                      \/ ~pods[q].live /\ pods'[q] = Created(Aim)
  BY <1>1, <1>8 DEF Live
<1>10. Calm(Aim) /\ NoneLost
  BY <1>9, GateConstants DEF Calm, CalmStep, NoneLost
<1> QED BY <1>7, <1>10

\* TryInplaceUpdate works on one pod that the update has not reached.
LEMMA TryOne ==
    ASSUME GroupScope, SetType, GroupInv, NEW p \in Pods, CloseGate(p) \/ UpdatePodInPlace(p)
    PROVE  /\ TryStep(pods[p], pods'[p], Aim) /\ \A q \in Pods \ {p} : pods'[q] = pods[q]
           /\ NoneLost /\ spc = "try" /\ p \in todo /\ Aim = setSnap.template /\ pods[p].live
           /\ CloseGate(p) => cur' = {p} /\ cur = {} /\ pods'[p].state = pods[p].state
           /\ UpdatePodInPlace(p) => cur' = {} /\ cur = {p} /\ pods'[p].state = Aim
<1>1. /\ pods[p] \in Pod /\ spc = "try" /\ p \in todo /\ Aim = setSnap.template /\ pods[p].live
      /\ Aim \in Templates /\ Coherent(pods[p]) /\ pods[p].state # Aim
  BY AimType DEF SetType, CloseGate, UpdatePodInPlace, Aim, Busy, GroupInv, ShapeInv
<1>2. CASE CloseGate(p)
  <2>1. pods' = [pods EXCEPT ![p] = Gated(pods[p], FALSE)] /\ cur' = {p} /\ cur = {}
    BY <1>2 DEF CloseGate, Save
  <2>2. pods'[p] = Gated(pods[p], FALSE) /\ \A q \in Pods \ {p} : pods'[q] = pods[q]
    BY <2>1, OnePod
  <2>3. TryStep(pods[p], pods'[p], Aim)
    BY <1>1, <2>2 DEF TryStep
  <2>4. pods'[p].state = pods[p].state /\ pods'[p].live = pods[p].live
    BY <1>1, <2>2 DEF Gated, Pod
  <2>5. ~UpdatePodInPlace(p)
    BY <2>1 DEF UpdatePodInPlace, GroupScope
  <2> QED BY <1>1, <2>1, <2>2, <2>3, <2>4, <2>5 DEF NoneLost
<1>3. CASE UpdatePodInPlace(p)
  <2>1. pods' = [pods EXCEPT ![p] = UpdatedInPlace(pods[p], Aim)] /\ cur' = {} /\ cur = {p}
    BY <1>1, <1>3 DEF UpdatePodInPlace, Save, GroupScope
  <2>2. pods'[p] = UpdatedInPlace(pods[p], Aim) /\ \A q \in Pods \ {p} : pods'[q] = pods[q]
    BY <2>1, OnePod
  <2>3. Out(pods[p])
    BY <2>1 DEF GroupInv, ShapeInv
  <2>4. pods[p].image = Aim => pods[p].running = pods[p].image
    <3>1. CASE pods[p].state = 0
      BY <1>1, <3>1 DEF Coherent
    <3>2. CASE pods[p].state # 0 /\ Resting
      <4>1. AllAt(Aim)
        BY <3>2 DEF GroupInv, EndInv, Finished
      <4> QED BY <1>1, <3>2, <4>1 DEF AllAt, At
    <3>3. CASE pods[p].state # 0 /\ ~Resting
      <4>1. Aim = Tpl
        BY <3>3, AimOfUpdate
      <4> QED BY <1>1, <3>3, <4>1 DEF GroupInv, ShapeInv
    <3> QED BY <3>1, <3>2, <3>3
  <2>5. TryStep(pods[p], pods'[p], Aim)
    BY <1>1, <2>2, <2>3, <2>4 DEF TryStep
  <2>6. pods'[p].state = Aim /\ pods'[p].live = pods[p].live
    <3>1. CASE GracePeriod
      BY <1>1, <2>2, <3>1 DEF UpdatedInPlace, Pod
    <3>2. CASE ~GracePeriod
      <4>1. pods'[p] = Patched(pods[p], Aim)
        BY <2>2, <3>2 DEF UpdatedInPlace
      <4>2. pods[p] \in Pod /\ Aim \in Templates
        BY <1>1
      <4>3. Patched(pods[p], Aim).state = Aim /\ Patched(pods[p], Aim).live = pods[p].live
        BY <4>2, PatchedFields
      <4> QED BY <4>1, <4>3
    <3> QED BY <3>1, <3>2
  <2>7. ~CloseGate(p)
    BY <2>1 DEF CloseGate
  <2> QED BY <1>1, <2>1, <2>2, <2>5, <2>6, <2>7 DEF NoneLost
<1> QED BY <1>2, <1>3

-----------------------------------------------------------------------------
(* The update spec                                                         *)


\* The step neither begins nor ends a reconcile of the InplaceSet controller.
Within == UNCHANGED <<ips, setSnap, podSnap>> /\ (Busy' <=> Busy)

\* The step ends a reconcile that writes no status.
CutOff == Ends /\ Busy /\ UNCHANGED <<ips, pods>>

LEMMA SetSteps ==
    ASSUME SetType, GroupInv, SetNext, ~SyncStartStale
    PROVE  SyncStart \/ UpdateStatus \/ CutOff \/ Within
<1>1. \A p \in Pods : RefreshPod(p) => CutOff \/ Within
  BY RefreshCalm DEF RefreshPod, CutOff, Within, Busy, snapVars
<1>2. ManageReplicas \/ ManageReplicasFails \/ ManageInplaceUpdate \/ TryFails => Within
  BY DEF ManageReplicas, ManageReplicasFails, ManageInplaceUpdate, TryFails, Within, Busy, snapVars
<1>3. \A p \in Pods : CloseGate(p) \/ UpdatePodInPlace(p) => Within
  BY DEF CloseGate, UpdatePodInPlace, Within, Busy, snapVars
<1>4. \A p \in Pods : Node(p) \/ PodLost(p) => Within
  BY DEF Node, ContainerRestarts, KubeletReports, GraceElapses, PodLost, PodUnchanged, snapVars,
         Within, Busy
<1>5. SyncAborts => CutOff
  BY DEF SyncAborts, CutOff, Busy
<1> QED BY <1>1, <1>2, <1>3, <1>4, <1>5 DEF SetNext, Reconcile

LEMMA SpecSet ==
    ASSUME SetType, GroupInv, SyncStart \/ UpdateStatus \/ CutOff \/ Within,
           UNCHANGED rolloutVars
    PROVE  SpecInv'
<1> SpecInv /\ UNCHANGED <<template, desired, rpc, seen>>
  BY DEF GroupInv, rolloutVars
<1>1. CASE SyncStart
  <2>1. UNCHANGED ips /\ setSnap' = ips /\ Num \in Nat
    BY <1>1, AimType DEF SyncStart
  <2> QED BY <2>1 DEF SpecInv, Busy, Num, Tpl
<1>2. CASE UpdateStatus
  <2>1. /\ ~Busy' /\ Num' = Num /\ Tpl' = Tpl /\ ips'.replicas = ips.replicas
        /\ ips'.updateHash = Status(setSnap, podSnap).updateHash
    BY <1>2 DEF UpdateStatus, Ends, Busy, Num, Tpl, SetType, InplaceSetObject
  <2>2. ips'.updateHash = IF setSnap.updatePodNum = 0 THEN 0 ELSE setSnap.template
    BY <2>1 DEF Status, UpdateStatusOf, SetType, InplaceSetObject
  <2>3. Busy
    BY <1>2 DEF UpdateStatus, Busy
  <2>4. /\ Num = 0 => ips'.updateHash \in {0, Tpl}
        /\ Num > 0 /\ ips'.updateHash # Tpl => Num <= BatchSize
        /\ Num > 0 /\ ips.updateHash = Tpl => ips'.updateHash = Tpl
    <3>1. Num \in Nat /\ setSnap.updatePodNum \in Nat
      BY AimType
    <3> QED BY <2>2, <2>3, <3>1 DEF SpecInv
  <2> QED BY <2>1, <2>4 DEF SpecInv
<1>3. CASE CutOff
  <2>1. UNCHANGED ips /\ ~Busy'
    BY <1>3 DEF CutOff, Ends, Busy
  <2> QED BY <2>1 DEF SpecInv, Num, Tpl
<1>4. CASE Within
  <2>1. UNCHANGED <<ips, setSnap>> /\ (Busy' <=> Busy)
    BY <1>4 DEF Within
  <2> QED BY <2>1 DEF SpecInv, Num, Tpl
<1> QED BY <1>1, <1>2, <1>3, <1>4

LEMMA StepWithin ==
    ASSUME NEW want \in Nat, NEW have \in Nat, have < want
    PROVE  /\ StepSize(want, have) \in 1..BatchSize
           /\ have + StepSize(want, have) <= want
           /\ StepSize(want, have) # want => StepSize(want, have) < want
<1>1. want - have \in Nat \ {0} /\ want >= have
  OBVIOUS
<1>2. StepSize(want, have) = Smaller(BatchSize, want - have)
  BY <1>1 DEF StepSize
<1>3. Smaller(BatchSize, want - have) \in {BatchSize, want - have}
      /\ Smaller(BatchSize, want - have) <= BatchSize
      /\ Smaller(BatchSize, want - have) <= want - have
  BY <1>1 DEF Smaller
<1> QED BY <1>1, <1>2, <1>3

\* CheckInplaceUpdate: the next number of pods to be updated.
LEMMA RaiseEffect ==
    ASSUME TypeOK, SpecInv, RaiseUpdatePodNum
    PROVE  /\ Tpl' = template /\ rpc' = "idle" /\ rpc = "manage"
           /\ ips' = [ips EXCEPT !.template = template, !.updatePodNum = Num']
           /\ Num' \in 1..desired
           /\ Num = 0 => template # Tpl /\ Num' <= BatchSize /\ (desired > 1 => Num' < desired)
           /\ Num > 0 => template = Tpl /\ Num' > Num /\ Num' <= Num + BatchSize
                         /\ ips.updateHash = Tpl
           /\ UNCHANGED <<pods, spc, setSnap, podSnap, todo, cur, faults, template, desired, lags>>
<1>1. /\ seen.desired = desired /\ seen.template = template /\ seen.set.updatePodNum = Num
      /\ seen.set.template = Tpl /\ seen.set.replicas = desired /\ rpc = "manage"
      /\ Num > 0 => ips.updateHash = Tpl
      /\ rpc' = "idle"
  BY DEF SpecInv, RaiseUpdatePodNum, RolloutEnds
<1>2. /\ Num \in Nat /\ desired \in Nat \ {0} /\ Num <= desired
      /\ ips \in InplaceSetObject /\ template \in Templates
  BY DEF TypeOK, SpecInv, Num, InplaceSetObject
<1>3. ips' = [ips EXCEPT !.template = template, !.updatePodNum = UpdatePodNum(seen.set, desired)]
  BY <1>1 DEF RaiseUpdatePodNum
<1>4. Tpl' = template /\ Num' = UpdatePodNum(seen.set, desired)
  BY <1>2, <1>3 DEF Tpl, Num, InplaceSetObject
<1>5. /\ UpdatePodNum(seen.set, desired) =
            IF Num = 0 /\ StepSize(desired, Num) = desired THEN 1 ELSE Num + StepSize(desired, Num)
      /\ StepSize(desired, Num) > 0
  BY <1>1 DEF UpdatePodNum, RaiseUpdatePodNum, CanInplaceUpdate
<1>6. Num < desired
  <2>1. StepSize(Num, Num) = Smaller(BatchSize, 0)
    BY <1>2 DEF StepSize
  <2>2. Smaller(BatchSize, 0) = 0
    BY DEF Smaller
  <2>3. Num # desired
    BY <1>5, <2>1, <2>2
  <2> QED BY <1>2, <2>3
<1>7. /\ StepSize(desired, Num) \in 1..BatchSize
      /\ Num + StepSize(desired, Num) <= desired
      /\ StepSize(desired, Num) # desired => StepSize(desired, Num) < desired
  BY <1>2, <1>6, StepWithin
<1>8. /\ Num = 0 => template # Tpl
      /\ Num > 0 => template = Tpl
  BY <1>1, <1>2 DEF SpecInv
<1>9. Num' \in 1..desired
  BY <1>2, <1>4, <1>5, <1>6, <1>7
<1>10. Num = 0 => Num' <= BatchSize /\ (desired > 1 => Num' < desired)
  BY <1>2, <1>4, <1>5, <1>7
<1>11. Num > 0 => Num' > Num /\ Num' <= Num + BatchSize
  BY <1>2, <1>4, <1>5, <1>7
<1>12. UNCHANGED <<pods, spc, setSnap, podSnap, todo, cur, faults, template, desired, lags>>
  BY DEF RaiseUpdatePodNum, snapVars
<1> QED BY <1>1, <1>3, <1>4, <1>8, <1>9, <1>10, <1>11, <1>12

\* A region of a fixed size is never scaled.
LEMMA NeverScaled ==
    ASSUME TypeOK, SpecInv
    PROVE  ~ScaleSubset
<1> SUFFICES ASSUME ScaleSubset PROVE FALSE
  OBVIOUS
<1>1. /\ seen.desired = desired /\ seen.template = template /\ seen.set.updatePodNum = Num
      /\ seen.set.template = Tpl /\ seen.set.replicas = desired /\ rpc = "manage" /\ template = Tpl
      /\ Num > 0 /\ Num < desired
  BY DEF SpecInv, ScaleSubset, IsNew
<1>2. Num \in Nat /\ desired \in Nat
  BY DEF TypeOK, Num, InplaceSetObject
<1>3. StepSize(desired, Num) > 0
  BY <1>1, <1>2, StepWithin
<1>4. CanInplaceUpdate(seen.set, seen.template, seen.desired)
  BY <1>1, <1>2, <1>3 DEF CanInplaceUpdate
<1> QED BY <1>4 DEF ScaleSubset

\* Reconcile of the deployment finds the update as the status reports it.
LEMMA StartEffect ==
    ASSUME TypeOK, SpecInv, RolloutStart
    PROVE  /\ UNCHANGED <<ips, pods, spc, setSnap, podSnap, todo, cur, faults, template, desired, lags>>
           /\ seen' = [set |-> ips, template |-> template, desired |-> desired]
           /\ rpc' \in {"clean", "manage"}
           /\ Num > 0 => ips.updateHash = Tpl /\ ips.updated >= Num
           /\ rpc' = "clean" => template = Tpl /\ Num \in {0, desired}
           /\ rpc' = "manage" /\ template = Tpl => Num > 0 /\ Num < desired
<1>1. /\ Num \in Nat /\ desired \in Nat /\ Num <= desired /\ ips.replicas = desired
      /\ template # Tpl => Num = 0
      /\ ips.replicas \in Nat
  BY DEF TypeOK, SpecInv, Num, InplaceSetObject
<1>2. UNCHANGED <<ips, pods, spc, setSnap, podSnap, todo, cur, faults, template, desired, lags>>
      /\ seen' = [set |-> ips, template |-> template, desired |-> desired]
  BY DEF RolloutStart, setVars
<1>3. CASE template # Tpl
  <2>1. ~AvailableDesired(ips, template, desired)
    BY <1>3 DEF AvailableDesired, IsNew, Tpl
  <2> QED BY <1>1, <1>2, <1>3, <2>1 DEF RolloutStart
<1>4. CASE template = Tpl /\ Num = 0
  <2>1. IsNew(ips, template)
    BY <1>4 DEF IsNew, Tpl
  <2>2. ReplicasDesired(ips, template, desired)
    BY <1>1, <1>4, <2>1 DEF ReplicasDesired, Num
  <2>3. rpc' = "clean"
    BY <2>1, <2>2 DEF RolloutStart
  <2> QED BY <1>2, <1>4, <2>3
<1>5. CASE template = Tpl /\ Num > 0
  <2>1. IsNew(ips, template)
    BY <1>5 DEF IsNew, Tpl
  <2>2. AvailableDesired(ips, template, desired)
        /\ rpc' = IF ReplicasDesired(ips, template, desired) THEN "clean" ELSE "manage"
    BY <2>1 DEF RolloutStart
  <2>3. ips.updateHash = Tpl /\ ips.updated >= Num
    BY <1>1, <1>5, <2>2 DEF AvailableDesired, Reported, Num, Tpl
  <2>4. ReplicasDesired(ips, template, desired) <=> Num = desired
    BY <1>5, <2>1, <2>3 DEF ReplicasDesired, Reported, Num, Tpl
  <2> QED BY <1>1, <1>2, <1>5, <2>2, <2>3, <2>4
<1> QED BY <1>1, <1>3, <1>4, <1>5

LEMMA CleanEffect ==
    ASSUME TypeOK, SpecInv, CleanAfterSaturated
    PROVE  /\ UNCHANGED <<pods, spc, setSnap, podSnap, todo, cur, faults, template, desired, lags>>
           /\ ips' = [ips EXCEPT !.updatePodNum = 0] /\ rpc' = "idle"
           /\ Num' = 0 /\ Tpl' = Tpl /\ rpc = "clean" /\ Num \in {0, desired}
           /\ Num > 0 => ips.updateHash = Tpl
<1>1. /\ ips' = [ips EXCEPT !.updatePodNum = 0] /\ rpc' = "idle" /\ rpc = "clean"
      /\ UNCHANGED <<pods, spc, setSnap, podSnap, todo, cur, faults, template, desired, lags>>
  BY DEF CleanAfterSaturated, RolloutEnds, snapVars
<1>2. Num' = 0 /\ Tpl' = Tpl
  BY <1>1 DEF TypeOK, Num, Tpl, InplaceSetObject
<1> QED BY <1>1, <1>2 DEF SpecInv

LEMMA SpecRollout ==
    ASSUME TypeOK, GroupInv, Rollout \/ RolloutAborts
    PROVE  SpecInv'
<1> SpecInv
  BY DEF GroupInv
<1>0. ips \in InplaceSetObject /\ Num \in Nat /\ desired \in Nat /\ template \in Templates
      /\ Tpl \in Templates
  BY DEF TypeOK, Num, Tpl, InplaceSetObject
<1>1. CASE RolloutStart
  <2>1. /\ UNCHANGED <<ips, spc, setSnap, template, desired>>
        /\ seen' = [set |-> ips, template |-> template, desired |-> desired]
        /\ Num > 0 => ips.updateHash = Tpl
        /\ rpc' = "clean" => template = Tpl /\ Num \in {0, desired}
        /\ rpc' = "manage" /\ template = Tpl => Num > 0 /\ Num < desired
    BY <1>1, StartEffect
  <2>2. Num' = Num /\ Tpl' = Tpl /\ (Busy' <=> Busy)
    BY <2>1 DEF Num, Tpl, Busy
  <2>3. /\ seen'.desired = desired /\ seen'.template = template
        /\ seen'.set.updatePodNum = Num /\ seen'.set.template = Tpl
        /\ seen'.set.replicas = desired
    BY <2>1 DEF Num, Tpl, SpecInv
  <2> QED BY <2>1, <2>2, <2>3 DEF SpecInv
<1>2. CASE RaiseUpdatePodNum
  <2>1. /\ Tpl' = template /\ rpc' = "idle" /\ Num' \in 1..desired
        /\ ips' = [ips EXCEPT !.template = template, !.updatePodNum = Num']
        /\ Num = 0 => template # Tpl /\ Num' <= BatchSize
        /\ Num > 0 => template = Tpl /\ Num' > Num /\ ips.updateHash = Tpl
        /\ UNCHANGED <<spc, setSnap, template, desired>>
    BY <1>2, RaiseEffect
  <2>2. ips'.replicas = ips.replicas /\ ips'.updateHash = ips.updateHash /\ (Busy' <=> Busy)
    BY <1>0, <2>1 DEF InplaceSetObject, Busy
  <2>3. CASE Num = 0
    <3>1. ips.updateHash # template
      BY <2>1, <2>3, <1>0, TemplateNotZero DEF SpecInv
    <3>2. Busy => setSnap.template = Tpl /\ setSnap.updatePodNum <= desired /\ setSnap.replicas = desired
      BY <2>3 DEF SpecInv
    <3> QED BY <1>0, <2>1, <2>2, <2>3, <3>1, <3>2 DEF SpecInv
  <2>4. CASE Num > 0
    <3>1. Tpl' = Tpl /\ ips'.updateHash = Tpl
      BY <2>1, <2>2, <2>4
    <3>2. Busy => /\ setSnap.template = Tpl /\ setSnap.updatePodNum <= desired
                  /\ setSnap.replicas = desired /\ setSnap.updatePodNum \in 1..Num
      BY <2>1, <2>4 DEF SpecInv
    <3>3. Busy => setSnap.updatePodNum \in 1..Num'
      BY <1>0, <2>1, <2>4, <3>2
    <3> QED BY <1>0, <2>1, <2>2, <2>4, <3>1, <3>2, <3>3 DEF SpecInv
  <2> QED BY <1>0, <2>3, <2>4
<1>3. CASE CleanAfterSaturated
  <2>1. /\ UNCHANGED <<spc, setSnap, template, desired>>
        /\ ips' = [ips EXCEPT !.updatePodNum = 0] /\ rpc' = "idle"
        /\ Num' = 0 /\ Tpl' = Tpl /\ rpc = "clean" /\ Num \in {0, desired}
        /\ Num > 0 => ips.updateHash = Tpl
    BY <1>3, CleanEffect
  <2>2. ips'.replicas = ips.replicas /\ ips'.updateHash = ips.updateHash /\ (Busy' <=> Busy)
    BY <1>0, <2>1 DEF InplaceSetObject, Busy
  <2>3. ips.updateHash \in {0, Tpl} /\ (Busy => setSnap.template = Tpl)
    BY <1>0, <2>1 DEF SpecInv
  <2> QED BY <1>0, <2>1, <2>2, <2>3 DEF SpecInv
<1>4. CASE RolloutAborts
  <2>1. UNCHANGED <<ips, spc, setSnap, template, desired>> /\ rpc' = "idle"
    BY <1>4 DEF RolloutAborts, RolloutEnds, snapVars
  <2> QED BY <2>1 DEF SpecInv, Num, Tpl, Busy
<1> QED BY <1>1, <1>2, <1>3, <1>4, NeverScaled DEF Rollout

LEMMA SpecUser ==
    ASSUME GroupScope, GroupInv, NEW t \in Templates, UserApply(t)
    PROVE  SpecInv' /\ UNCHANGED <<ips, desired, rpc, faults, pods, podSnap, setSnap, spc, todo, cur>>
<1>1. Num = 0 /\ rpc = "idle" /\ UNCHANGED <<ips, spc, setSnap, desired, rpc, seen>>
  BY DEF UserApply, Settled, GroupScope, Num, setVars
<1>2. SpecInv'
  BY <1>1 DEF GroupInv, SpecInv, Num, Tpl, Busy
<1> QED BY <1>2 DEF UserApply, setVars

-----------------------------------------------------------------------------
(* The list of the reconcile                                               *)

LEMMA Fewer ==
    ASSUME NEW B \in SUBSET Pods, NEW A \in SUBSET B
    PROVE  Cardinality(A) <= Cardinality(B) /\ Cardinality(A) \in Nat /\ Cardinality(B) \in Nat
           /\ IsFiniteSet(A) /\ (Cardinality(A) = Cardinality(B) => A = B)
<1>1. IsFiniteSet(B) /\ IsFiniteSet(A)
  BY InplaceSetAssumption, FS_Subset
<1> QED BY <1>1, FS_Subset, FS_CardinalityType

\* The pods keep their names and hashes.
SameLive == \A q \in Pods : pods'[q].live = pods[q].live
SameHash == \A q \in Pods : pods'[q].live => pods'[q].state = pods[q].state

LEMMA SameLiveCount ==
    ASSUME SameLive, UNCHANGED desired, ListInv, faults' = 0 => faults = 0
    PROVE  /\ Live(pods)' = Live(pods)
           /\ Cardinality(Live(pods)') <= desired'
           /\ faults' = 0 => Cardinality(Live(pods)') = desired'
<1>1. Live(pods)' = Live(pods)
  BY DEF SameLive, Live
<1> QED BY <1>1 DEF ListInv

LEMMA CalmSame ==
    ASSUME SetType, GroupInv, NEW t \in Templates, Calm(t), NoneLost,
           \A q \in Pods : pods'[q].live => pods[q].live
    PROVE  SameLive /\ SameHash
<1>1. \A q \in Pods : pods'[q].live /\ pods[q].live => pods'[q].state = pods[q].state
  BY CalmFields DEF Calm, SetType, GroupInv, ShapeInv
<1>3. SameHash
  BY <1>1 DEF SameHash
<1>4. \A q \in Pods : pods[q].live \in BOOLEAN
  BY DEF SetType, Pod
<1>5. \A q \in Pods : pods'[q].live \in BOOLEAN
  <2> SUFFICES ASSUME NEW q \in Pods PROVE pods'[q].live \in BOOLEAN
    OBVIOUS
  <2>1. pods[q] \in Pod /\ CalmStep(pods[q], pods'[q], t)
    BY DEF SetType, Calm
  <2>2. CASE pods'[q] = pods[q] \/ pods'[q] = NoPod \/ pods'[q] = Created(t)
    <3>1. pods[q].live \in BOOLEAN
      BY <2>1 DEF Pod
    <3>2. NoPod.live = FALSE /\ Created(t).live = TRUE
      BY DEF NoPod, Created
    <3> QED BY <2>2, <3>1, <3>2
  <2>3. CASE pods[q].grace # 0 /\ pods'[q] = Patched(pods[q], pods[q].grace)
    BY <2>1, <2>3 DEF Patched, Pod
  <2>4. CASE pods'[q] = Gated(pods[q], TRUE) \/ pods'[q] = Restarted(pods[q]) \/ pods'[q] = Seen(pods[q])
    BY <2>1, <2>4 DEF Gated, Restarted, Seen, Pod
  <2> QED BY <2>1, <2>2, <2>3, <2>4 DEF CalmStep
<1>6. SameLive
  BY <1>4, <1>5 DEF NoneLost, SameLive
<1> QED BY <1>3, <1>6

LEMMA NodeSame ==
    ASSUME GroupScope, SetType, GroupInv, NEW p \in Pods, Node(p)
    PROVE  SameLive /\ SameHash
<1>1. (\A t : Calm(t)) /\ NoneLost
  BY NodeCalm
<1>2. PICK t \in Templates : TRUE
  BY InplaceSetAssumption
<1>3. \A q \in Pods : pods'[q].live => pods[q].live
  <2>1. pods[p].live \/ UNCHANGED pods
    BY DEF Node, ContainerRestarts, KubeletReports, GraceElapses
  <2>2. \A q \in Pods \ {p} : pods'[q] = pods[q]
    BY DEF Node, ContainerRestarts, KubeletReports, GraceElapses, SetType
  <2> QED BY <2>1, <2>2
<1> QED BY <1>1, <1>2, <1>3, CalmSame

LEMMA ListStart ==
    ASSUME SetType, GroupInv, SyncStart, UNCHANGED desired
    PROVE  ListInv'
<1>1. /\ UNCHANGED <<pods, faults>> /\ podSnap' = pods /\ todo' = ToRefresh(pods) /\ cur' = {}
      /\ spc' = "refresh"
  BY DEF SyncStart
<1>2. Live(pods)' = Live(pods) /\ Listed' = Live(pods)
  BY <1>1 DEF Live, Listed
<1>3. ToRefresh(pods) \subseteq Live(pods)
  BY DEF ToRefresh
<1>4. Cardinality(Live(pods)) <= desired /\ (faults = 0 => Cardinality(Live(pods)) = desired)
  BY DEF GroupInv, ListInv
<1> QED BY <1>1, <1>2, <1>3, <1>4 DEF ListInv

LEMMA ListRefresh ==
    ASSUME SetType, GroupInv, UNCHANGED desired, NEW p \in Pods, RefreshPod(p)
    PROVE  ListInv'
<1> ListInv
  BY DEF GroupInv
<1>1. Calm(Aim) /\ NoneLost /\ UNCHANGED faults /\ spc = "refresh"
  BY RefreshCalm DEF RefreshPod
<1>2. CASE Ends /\ UNCHANGED pods
  <2>1. UNCHANGED <<pods, podSnap>> /\ spc' = "idle" /\ todo' = {} /\ cur' = {}
    BY <1>2 DEF Ends
  <2> QED BY <1>1, <2>1 DEF ListInv, Live, Listed, Busy
<1>3. CASE /\ todo' = todo \ {p} /\ UNCHANGED <<spc, cur, snapVars>>
           /\ \A q \in Pods \ {p} : pods'[q] = pods[q]
  <2>1. pods[p].live \/ UNCHANGED pods
    BY DEF RefreshPod
  <2>2. SameLive /\ SameHash
    BY <1>1, <1>3, <2>1, AimType, CalmSame
  <2>3. UNCHANGED <<podSnap, cur, spc, setSnap>> /\ cur = {}
    BY <1>1, <1>3 DEF snapVars, ListInv
  <2>4. /\ Live(pods)' = Live(pods)
        /\ Cardinality(Live(pods)') <= desired'
        /\ faults' = 0 => Cardinality(Live(pods)') = desired'
    BY <1>1, <2>2, SameLiveCount
  <2>5. Listed' = Listed /\ (Busy' <=> Busy)
    BY <2>3 DEF Listed, Live, Busy
  <2>6. \A q \in Pods : pods'[q].live => pods[q].live /\ pods'[q].state = pods[q].state
    BY <2>2 DEF SameLive, SameHash
  <2>7. Busy' => \A q \in Pods : pods'[q].live /\ ~podSnap'[q].live => pods'[q].state = 0
    BY <2>3, <2>5, <2>6 DEF ListInv
  <2>8. spc' \in {"refresh", "update"} =>
          \A q \in Pods : pods'[q].live /\ podSnap'[q].live => pods'[q].state = podSnap'[q].state
    BY <2>3, <2>6 DEF ListInv
  <2> QED BY <1>1, <1>3, <2>3, <2>4, <2>5, <2>7, <2>8 DEF ListInv
<1> QED BY <1>2, <1>3, RefreshCalm

LEMMA ListManage ==
    ASSUME SetType, GroupInv, UNCHANGED desired, ManageReplicas \/ ManageReplicasFails, desired \in Nat
    PROVE  ListInv'
<1> ListInv
  BY DEF GroupInv
<1>1. /\ spc = "refresh" /\ spc' \in {"update", "status"} /\ todo = {} /\ cur = {}
      /\ UNCHANGED <<todo, cur, podSnap>> /\ faults \in Nat /\ faults' \in {faults, faults + 1}
  BY DEF ManageReplicas, ManageReplicasFails, snapVars, ListInv, SetType
<1>2. PICK new \in SUBSET Pods :
         /\ Cardinality(new) <= desired - Cardinality(Listed)
         /\ new \cap (Listed \cup Live(pods)) = {}
         /\ pods' = [p \in Pods |-> IF p \in new THEN Created(setSnap.template) ELSE pods[p]]
  BY ManageCalm
<1>3. \A q \in Pods : /\ q \in new => pods'[q] = Created(setSnap.template)
                      /\ q \notin new => pods'[q] = pods[q]
  BY <1>2
<1>4. Created(setSnap.template).live /\ Created(setSnap.template).state = 0
  BY DEF Created
<1>5. Live(pods)' = Live(pods) \cup new /\ Listed' = Listed
  BY <1>1, <1>3, <1>4 DEF Live, Listed
<1>6. /\ Cardinality(Live(pods)) <= Cardinality(Live(pods)')
      /\ Cardinality(Live(pods)') <= desired
      /\ Cardinality(Live(pods)) \in Nat /\ Cardinality(Live(pods)') \in Nat
  <2>1. /\ Cardinality(Live(pods)) <= Cardinality(Listed)
        /\ Cardinality(Live(pods)) \in Nat /\ Cardinality(Listed) \in Nat
    BY <1>1, ListedPods, Fewer DEF ListInv
  <2>2. Cardinality(new) \in Nat /\ IsFiniteSet(new)
    BY Fewer
  <2>3. IsFiniteSet(Live(pods))
    BY ListedPods, Fewer
  <2>4. Cardinality(Live(pods) \cup new)
          = Cardinality(Live(pods)) + Cardinality(new) - Cardinality(Live(pods) \cap new)
    BY <2>2, <2>3, FS_Union
  <2>5. Cardinality(Live(pods) \cap new) = 0
    BY <1>2, FS_EmptySet
  <2>6. PICK l \in Nat, k \in Nat, n \in Nat :
           /\ l = Cardinality(Live(pods)) /\ k = Cardinality(Listed) /\ n = Cardinality(new)
           /\ l <= k /\ n <= desired - k
    BY <1>2, <2>1, <2>2
  <2>7. Cardinality(Live(pods)') = l + n
    BY <1>5, <2>4, <2>5, <2>6
  <2>8. l <= l + n /\ l + n <= desired /\ l + n \in Nat
    BY <2>6
  <2> QED BY <2>6, <2>7, <2>8
<1>7. faults' = 0 => Cardinality(Live(pods)') = desired
  BY <1>1, <1>6 DEF ListInv
<1>8. \A q \in Pods : pods'[q].live /\ ~podSnap'[q].live => pods'[q].state = 0
  BY <1>1, <1>3, <1>4 DEF ListInv, Busy
<1>9. \A q \in Pods : pods'[q].live /\ podSnap'[q].live => pods'[q].state = podSnap'[q].state
  BY <1>1, <1>2, <1>3 DEF ListInv, Listed, Live
<1>10. Cardinality(Listed) <= desired
  BY <1>1 DEF ListInv, Busy
<1> QED BY <1>1, <1>5, <1>6, <1>7, <1>8, <1>9, <1>10 DEF ListInv

\* getNeedInplaceUpdatePods chooses listed pods that the update has not reached,
\* no more than are missing.
LEMMA NeedEffect ==
    ASSUME SetType, GroupInv, ManageInplaceUpdate
    PROVE  /\ todo' \subseteq {q \in Listed : podSnap[q].state # setSnap.template}
           /\ todo' # {} => setSnap.updatePodNum > 0
           /\ \/ todo' = {}
              \/ Cardinality(todo') + Cardinality(Reached(podSnap, setSnap.template))
                    <= setSnap.updatePodNum
<1> DEFINE t == setSnap.template
           L == Live(podSnap)
           notTried == {q \in L : ~Tried(podSnap[q], t)}
           total == Smaller(setSnap.updatePodNum, Cardinality(L))
           tried == Cardinality(L) - Cardinality(notTried)
<1>1. setSnap.updatePodNum \in Nat
  BY AimType
<1>2. CASE setSnap.updatePodNum = 0
  BY <1>2 DEF ManageInplaceUpdate
<1>3. CASE setSnap.updatePodNum # 0
  <2>1. todo' \in IF tried >= total THEN {{}}
                  ELSE Subsets(notTried, Smaller(total - tried, Cardinality(notTried)))
    BY <1>3 DEF ManageInplaceUpdate, NeedUpdate
  <2>2. CASE tried >= total
    BY <2>1, <2>2
  <2>3. CASE ~(tried >= total)
    <3>1. todo' \subseteq notTried
          /\ Cardinality(todo') = Smaller(total - tried, Cardinality(notTried))
      BY <2>1, <2>3 DEF Subsets
    <3>2. L \in SUBSET Pods /\ notTried \in SUBSET L
      BY DEF Live
    <3>3. /\ Cardinality(L) \in Nat /\ Cardinality(notTried) \in Nat /\ IsFiniteSet(L)
          /\ Cardinality(notTried) <= Cardinality(L)
      BY <3>2, Fewer, InplaceSetAssumption, FS_Subset
    <3>4. Reached(podSnap, t) = L \ notTried
      BY DEF Reached, Tried
    <3>5. Cardinality(L \ notTried) = Cardinality(L) - Cardinality(L \cap notTried)
      BY <3>3, FS_Difference
    <3>6. L \cap notTried = notTried
      OBVIOUS
    <3>7. Cardinality(Reached(podSnap, t)) = tried /\ tried \in Nat
      BY <3>3, <3>4, <3>5, <3>6
    <3>8. total \in Nat /\ total <= setSnap.updatePodNum
      BY <1>1, <3>3, SmallerType
    <3>9. total - tried \in Nat
      BY <2>3, <3>7, <3>8
    <3>10. Smaller(total - tried, Cardinality(notTried)) <= total - tried
           /\ Smaller(total - tried, Cardinality(notTried)) \in Nat
      BY <3>3, <3>9, SmallerType
    <3>11. Cardinality(todo') + Cardinality(Reached(podSnap, t)) <= setSnap.updatePodNum
      <4> HIDE DEF total, tried, notTried, L
      <4> QED BY <1>1, <3>1, <3>7, <3>8, <3>9, <3>10
    <3>12. todo' \subseteq {q \in Listed : podSnap[q].state # setSnap.template}
      BY <3>1 DEF Tried, Listed
    <3> QED BY <1>1, <1>3, <3>11, <3>12
  <2> QED BY <2>2, <2>3
<1> QED BY <1>2, <1>3

LEMMA ListNeed ==
    ASSUME SetType, GroupInv, UNCHANGED desired, ManageInplaceUpdate
    PROVE  ListInv'
<1> ListInv
  BY DEF GroupInv
<1>1. /\ UNCHANGED <<pods, podSnap, faults, setSnap>> /\ spc = "update" /\ spc' = "try" /\ cur' = {}
  BY DEF ManageInplaceUpdate, snapVars
<1>2. Live(pods)' = Live(pods) /\ Listed' = Listed
  BY <1>1 DEF Live, Listed
<1>3. todo' \subseteq Listed /\ (todo' # {} => setSnap.updatePodNum > 0)
  BY NeedEffect
<1> QED BY <1>1, <1>2, <1>3 DEF ListInv, Busy

LEMMA ListTry ==
    ASSUME GroupScope, SetType, GroupInv, UNCHANGED desired, NEW p \in Pods,
           CloseGate(p) \/ UpdatePodInPlace(p)
    PROVE  ListInv'
<1> ListInv
  BY DEF GroupInv
<1>1. /\ TryStep(pods[p], pods'[p], Aim) /\ \A q \in Pods \ {p} : pods'[q] = pods[q]
      /\ spc = "try" /\ p \in todo
  BY TryOne
<1>2. pods'[p].live = pods[p].live
  <2>1. pods[p] \in Pod /\ Coherent(pods[p]) /\ Aim \in Templates
    BY AimType DEF SetType, GroupInv, ShapeInv
  <2> QED BY <1>1, <2>1, TryFields
<1>3. /\ UNCHANGED <<podSnap, spc, setSnap, faults>>
      /\ \/ todo' = todo /\ cur' = {p}
         \/ todo' = todo \ {p} /\ cur' = {}
  BY DEF CloseGate, UpdatePodInPlace, snapVars
<1>4. SameLive
  BY <1>1, <1>2 DEF SameLive
<1>5. /\ Live(pods)' = Live(pods)
      /\ Cardinality(Live(pods)') <= desired'
      /\ faults' = 0 => Cardinality(Live(pods)') = desired'
  BY <1>3, <1>4, SameLiveCount
<1>6. Listed' = Listed /\ (Busy' <=> Busy) /\ podSnap[p].live
  BY <1>1, <1>3 DEF Listed, Live, Busy, ListInv
<1>7. Busy' => \A q \in Pods : pods'[q].live /\ ~podSnap'[q].live => pods'[q].state = 0
  BY <1>1, <1>3, <1>6 DEF ListInv
<1>8. Cardinality(Listed) <= desired
  BY <1>1 DEF ListInv, Busy
<1> QED BY <1>1, <1>3, <1>5, <1>6, <1>7, <1>8 DEF ListInv

LEMMA ListEnds ==
    ASSUME GroupInv, UNCHANGED <<desired, pods>>, cur' = {}, todo' = {}, faults' = 0 => faults = 0,
           spc' = "idle" \/ (spc = "try" /\ UNCHANGED <<spc, podSnap>>)
    PROVE  ListInv'
<1>1. Live(pods)' = Live(pods)
  BY DEF Live
<1>2. spc' = "idle" \/ Listed' = Listed
  BY DEF Listed, Live
<1> QED BY <1>1, <1>2 DEF GroupInv, ListInv, Busy

LEMMA ListNode ==
    ASSUME GroupScope, SetType, GroupInv, UNCHANGED desired, NEW p \in Pods, Node(p) \/ PodLost(p),
           desired \in Nat
    PROVE  ListInv'
<1> ListInv
  BY DEF GroupInv
<1>1. UNCHANGED <<podSnap, cur, todo, spc, setSnap>>
  BY DEF Node, ContainerRestarts, KubeletReports, GraceElapses, PodLost, PodUnchanged, snapVars
<1>2. \A q \in Pods : pods'[q].live => pods[q].live /\ pods'[q].state = pods[q].state
  <2>1. CASE Node(p)
    BY <2>1, NodeSame DEF SameLive, SameHash
  <2>2. CASE PodLost(p)
    BY <2>2, NodeCalm, GateConstants
  <2> QED BY <2>1, <2>2
<1>3. Live(pods)' \subseteq Live(pods)
  BY <1>2 DEF Live
<1>4. Cardinality(Live(pods)') <= desired
  <2>1. Live(pods)' \in SUBSET Live(pods) /\ Live(pods) \in SUBSET Pods
    BY <1>3, ListedPods
  <2>2. /\ Cardinality(Live(pods)') <= Cardinality(Live(pods))
        /\ Cardinality(Live(pods)') \in Nat /\ Cardinality(Live(pods)) \in Nat
    BY <2>1, Fewer
  <2> QED BY <2>2 DEF ListInv
<1>5. faults' = 0 => Cardinality(Live(pods)') = desired
  <2>1. CASE Node(p)
    <3>1. SameLive /\ UNCHANGED faults
      BY <2>1, NodeSame DEF Node, ContainerRestarts, KubeletReports, GraceElapses
    <3> QED BY <3>1, SameLiveCount
  <2>2. CASE PodLost(p)
    BY <2>2 DEF PodLost, SetType
  <2> QED BY <2>1, <2>2
<1>6. Listed' = Listed /\ (Busy' <=> Busy)
  BY <1>1 DEF Listed, Live, Busy
<1>7. Busy' => \A q \in Pods : pods'[q].live /\ ~podSnap'[q].live => pods'[q].state = 0
  BY <1>1, <1>2, <1>6 DEF ListInv
<1>8. spc' \in {"refresh", "update"} =>
        \A q \in Pods : pods'[q].live /\ podSnap'[q].live => pods'[q].state = podSnap'[q].state
  BY <1>1, <1>2 DEF ListInv
<1> QED BY <1>1, <1>3, <1>4, <1>5, <1>6, <1>7, <1>8 DEF ListInv

-----------------------------------------------------------------------------
(* The pods                                                                *)

\* What a step of the InplaceSet controller or of a node does to each pod.
Steps == \A q \in Pods : CalmStep(pods[q], pods'[q], Aim) \/ TryStep(pods[q], pods'[q], Aim)

LEMMA PodSteps ==
    ASSUME GroupScope, SetType, GroupInv, SetNext, ~SyncStartStale
    PROVE  Steps
<1>1. CASE UNCHANGED pods
  BY <1>1, SamePodsCalm DEF Calm, Steps
<1>2. CASE SyncStart \/ ManageInplaceUpdate \/ TryFails \/ UpdateStatus \/ SyncAborts
  BY <1>1, <1>2 DEF SyncStart, ManageInplaceUpdate, TryFails, UpdateStatus, SyncAborts
<1>3. CASE ManageReplicas \/ ManageReplicasFails
  BY <1>3, ManageCalm DEF Calm, Steps
<1>4. ASSUME NEW p \in Pods, RefreshPod(p) PROVE Steps
  BY <1>4, RefreshCalm DEF Calm, Steps
<1>5. ASSUME NEW p \in Pods, Node(p) \/ PodLost(p) PROVE Steps
  BY <1>5, NodeCalm DEF Calm, Steps
<1>6. ASSUME NEW p \in Pods, CloseGate(p) \/ UpdatePodInPlace(p) PROVE Steps
  BY <1>6, TryOne DEF Steps, CalmStep
<1> QED BY <1>2, <1>3, <1>4, <1>5, <1>6 DEF SetNext, Reconcile

LEMMA CoherentStep ==
    ASSUME SetType, GroupInv, Steps
    PROVE  \A q \in Pods : Coherent(pods'[q])
BY CoherentCalm, CoherentTry, AimType DEF SetType, GroupInv, ShapeInv, Steps

LEMMA AllAtStays ==
    ASSUME SetType, GroupInv, Steps, AllAt(Aim)
    PROVE  \A q \in Pods : pods'[q].live => At(pods'[q], Aim)
BY AtStays, AimType DEF SetType, GroupInv, ShapeInv, Steps, AllAt

\* A pod of another update does not have the images of this one.
Foreign(pod, t) == pod.live /\ pod.state \notin {0, t} => pod.image # t

LEMMA ForeignStays ==
    ASSUME NEW old \in Pod, NEW t \in Templates, NEW new, Coherent(old),
           CalmStep(old, new, t) \/ TryStep(old, new, t), Foreign(old, t)
    PROVE  Foreign(new, t)
<1>1. CASE new = old
  BY <1>1
<1>2. CASE new = NoPod \/ new = Created(t)
  BY <1>2 DEF NoPod, Created, Foreign
<1>3. CASE old.grace # 0 /\ new = Patched(old, old.grace)
  BY <1>3 DEF Coherent, Patched, Foreign, Pod
<1>4. CASE \E b \in BOOLEAN : new = Gated(old, b)
  BY <1>4 DEF Gated, Foreign, Pod
<1>5. CASE new = Restarted(old)
  BY <1>5 DEF Restarted, Foreign, Pod
<1>6. CASE new = Seen(old)
  BY <1>6 DEF Seen, Foreign, Pod
<1>7. CASE new = UpdatedInPlace(old, t)
  <2>1. CASE GracePeriod
    BY <1>7, <2>1 DEF UpdatedInPlace, Foreign, Pod
  <2>2. CASE ~GracePeriod
    BY <1>7, <2>2 DEF UpdatedInPlace, Patched, Foreign, Pod
  <2> QED BY <2>1, <2>2
<1> QED BY <1>1, <1>2, <1>3, <1>4, <1>5, <1>6, <1>7 DEF CalmStep, TryStep

\* An update that begins to be acted on: what went before has left no pod with
\* its images.
LEMMA RestingEnds ==
    ASSUME GroupInv, SyncStart \/ UpdateStatus \/ CutOff \/ Within, SetType, UNCHANGED rolloutVars
    PROVE  /\ Tpl' = Tpl /\ Num' = Num /\ UNCHANGED <<rpc, desired>>
           /\ Within => (Resting' <=> Resting) /\ Aim' = Aim /\ (Late' <=> Late)
           /\ SyncStart => (Resting' <=> Resting) /\ Aim' = Aim /\ Aim = Tpl /\ ~Late'
                           /\ (Resting => Num = 0)
           /\ UpdateStatus \/ CutOff =>
                 /\ ~Busy' /\ Busy /\ Aim' = Tpl /\ ~Late' /\ UNCHANGED pods
                 /\ Resting' => Resting /\ Aim = Tpl /\ Num = 0
                 /\ ~Resting' /\ Resting => /\ Aim # Tpl /\ Num <= BatchSize /\ rpc = "idle"
                                            /\ ips.updateHash # Tpl /\ ips'.updateHash # Tpl
                 /\ ~Resting => Aim = Tpl /\ ~Resting'
<1>1. /\ Tpl' = Tpl /\ Num' = Num /\ UNCHANGED <<rpc, desired>>
  BY DEF SyncStart, UpdateStatus, CutOff, Within, Tpl, Num, SetType, InplaceSetObject, rolloutVars
<1>2. CASE Within
  <2>1. ~(UpdateStatus \/ CutOff) /\ ~SyncStart
    BY <1>2 DEF Within, UpdateStatus, CutOff, SyncStart, Ends, Busy
  <2>2. (Busy' <=> Busy) /\ UNCHANGED setSnap
    BY <1>2 DEF Within
  <2> QED BY <1>1, <2>1, <2>2 DEF Resting, Late, Aim
<1>3. CASE SyncStart
  <2>1. ~(UpdateStatus \/ CutOff) /\ ~Within
    BY <1>3 DEF Within, UpdateStatus, CutOff, SyncStart, Busy
  <2>2. ~Busy /\ Busy' /\ setSnap' = ips
    BY <1>3 DEF SyncStart, Busy
  <2> QED BY <1>1, <2>1, <2>2 DEF Resting, Late, Aim, Tpl, Num
<1>4. CASE UpdateStatus \/ CutOff
  <2>1. Busy /\ ~Busy' /\ UNCHANGED pods
    BY <1>4 DEF UpdateStatus, CutOff, Ends, Busy
  <2>2. ~Within /\ ~SyncStart
    BY <1>4, <2>1 DEF Within, SyncStart, Busy
  <2>3. Resting' => Resting /\ Aim = Tpl /\ Num = 0
    BY <1>1, <2>1 DEF Resting, Aim, GroupInv, SpecInv
  <2>4. ~Resting' /\ Resting => /\ Aim # Tpl /\ Num <= BatchSize /\ rpc = "idle"
                                /\ ips.updateHash # Tpl /\ ips'.updateHash # Tpl
    <3> SUFFICES ASSUME ~Resting', Resting
                 PROVE  /\ Aim # Tpl /\ Num <= BatchSize /\ rpc = "idle"
                        /\ ips.updateHash # Tpl /\ ips'.updateHash # Tpl
      OBVIOUS
    <3>1. Num # 0 /\ setSnap.template # Tpl /\ Aim = setSnap.template
      BY <1>1, <2>1 DEF Resting, Aim
    <3>2. ips.updateHash # Tpl
      BY <2>1, <3>1 DEF GroupInv, SpecInv
    <3>3. Num > 0
      BY <3>1, AimType
    <3>4. Num <= BatchSize /\ rpc = "idle"
      BY <3>2, <3>3 DEF GroupInv, SpecInv
    <3>5. ips'.updateHash # Tpl
      <4>1. CASE UpdateStatus
        <5>1. ips'.updateHash = Status(setSnap, podSnap).updateHash
          BY <4>1 DEF UpdateStatus, SetType, InplaceSetObject
        <5>2. ips'.updateHash \in {0, setSnap.template}
          BY <5>1 DEF Status, UpdateStatusOf, SetType, InplaceSetObject
        <5> QED BY <3>1, <5>2, AimType, TemplateNotZero
      <4>2. CASE CutOff
        BY <3>2, <4>2 DEF CutOff
      <4> QED BY <1>4, <4>1, <4>2
    <3> QED BY <3>1, <3>2, <3>4, <3>5
  <2>5. ~Resting => Aim = Tpl /\ ~Resting'
    BY <1>1, <2>1 DEF Resting, Aim
  <2>6. Aim' = Tpl /\ ~Late'
    BY <1>1, <2>1 DEF Aim, Late
  <2> QED BY <1>1, <2>1, <2>2, <2>3, <2>4, <2>5, <2>6
<1> QED BY <1>2, <1>3, <1>4

LEMMA ForeignStep ==
    ASSUME SetType, GroupInv, Steps, SyncStart \/ UpdateStatus \/ CutOff \/ Within, ~Resting',
           UNCHANGED rolloutVars
    PROVE  \A q \in Pods : Foreign(pods'[q], Tpl')
<1>1. Tpl' = Tpl
  BY RestingEnds
<1>2. CASE ~Resting
  <2>1. Aim = Tpl /\ Tpl \in Templates
    BY <1>2, AimOfUpdate, AimType
  <2>2. \A q \in Pods : Foreign(pods[q], Tpl)
    BY <1>2 DEF GroupInv, ShapeInv, Foreign
  <2>3. \A q \in Pods : Foreign(pods'[q], Tpl)
    BY <2>1, <2>2, ForeignStays DEF SetType, GroupInv, ShapeInv, Steps
  <2> QED BY <1>1, <2>3
<1>3. CASE Resting
  <2>1. UpdateStatus \/ CutOff
    BY <1>3, RestingEnds
  <2>2. UNCHANGED pods /\ Aim # Tpl
    BY <1>3, <2>1, RestingEnds
  <2>3. AllAt(Aim)
    BY <1>3 DEF GroupInv, EndInv, Finished
  <2> QED BY <1>1, <2>2, <2>3 DEF AllAt, At, Foreign
<1> QED BY <1>2, <1>3

\* The parts of ShapeInv that are about the reconcile.
HandsInv ==
    /\ \A p \in cur : Out(pods[p])
    /\ spc = "refresh" => \A p \in todo : pods[p].live /\ podSnap[p].grace = 0
                             => pods[p].grace = 0 /\ pods[p].running = pods[p].image
    /\ spc = "try" => \A p \in todo : pods[p].live => pods[p].state # setSnap.template

LEMMA HandsNode ==
    ASSUME GroupScope, SetType, GroupInv, NEW p \in Pods, Node(p) \/ PodLost(p)
    PROVE  HandsInv'
<1>1. UNCHANGED <<podSnap, cur, todo, spc, setSnap>> /\ cur \subseteq Pods /\ todo \subseteq Pods
  BY DEF Node, ContainerRestarts, KubeletReports, GraceElapses, PodLost, PodUnchanged, snapVars,
         SetType
<1>2. pods[p] \in Pod
  BY DEF SetType
<1>3. /\ Out(pods[p]) => Out(pods'[p])
      /\ pods'[p].live => /\ pods'[p].state = pods[p].state /\ pods[p].live
                          /\ pods[p].grace = 0 /\ pods[p].running = pods[p].image
                               => pods'[p].grace = 0 /\ pods'[p].running = pods'[p].image
  <2>1. CASE pods'[p] = pods[p]
    BY <2>1
  <2>2. CASE pods'[p] = Restarted(pods[p]) /\ pods[p].running # pods[p].image
    BY <1>2, <2>2 DEF Restarted, Out, Pod
  <2>3. CASE pods'[p] = Seen(pods[p]) /\ pods[p].running = pods[p].image
    BY <1>2, <2>3 DEF Seen, Out, Pod
  <2>4. CASE pods'[p] = NoPod
    BY <2>4, GateConstants
  <2> QED BY <2>1, <2>2, <2>3, <2>4, NodeValues
<1>4. \A q \in Pods \ {p} : pods'[q] = pods[q]
  BY NodeValues
<1>5. HandsInv
  BY DEF GroupInv, ShapeInv, HandsInv
<1>6. \A q \in Pods : /\ Out(pods[q]) => Out(pods'[q])
                      /\ pods'[q].live => /\ pods'[q].state = pods[q].state /\ pods[q].live
                                          /\ pods[q].grace = 0 /\ pods[q].running = pods[q].image
                                               => pods'[q].grace = 0 /\ pods'[q].running = pods'[q].image
  BY <1>3, <1>4
<1> QED BY <1>1, <1>5, <1>6 DEF HandsInv

LEMMA HandsStep ==
    ASSUME GroupScope, SetType, GroupInv, SetNext, ~SyncStartStale
    PROVE  HandsInv'
<1>0. HandsInv /\ ListInv /\ cur \subseteq Pods /\ todo \subseteq Pods
  BY DEF GroupInv, ShapeInv, HandsInv, SetType
<1>1. CASE SyncStart
  <2>1. UNCHANGED pods /\ podSnap' = pods /\ todo' = ToRefresh(pods) /\ cur' = {} /\ spc' = "refresh"
    BY <1>1 DEF SyncStart
  <2>2. \A q \in ToRefresh(pods) : q \in Pods /\ (pods[q].grace # 0 \/ Completed(pods[q]))
    BY DEF ToRefresh, Reopens, Live
  <2>3. \A q \in ToRefresh(pods) : pods[q].grace = 0 => pods[q].running = pods[q].image
    BY <2>2 DEF GroupInv, ShapeInv, Coherent
  <2> QED BY <2>1, <2>3 DEF HandsInv
<1>2. ASSUME NEW p \in Pods, RefreshPod(p) PROVE HandsInv'
  <2>1. CASE Ends
    BY <2>1 DEF Ends, HandsInv
  <2>2. CASE todo' = todo \ {p} /\ UNCHANGED <<spc, cur, snapVars>>
             /\ \A q \in Pods \ {p} : pods'[q] = pods[q]
    <3>1. spc = "refresh" /\ cur = {} /\ UNCHANGED podSnap
      BY <1>0, <1>2, <2>2 DEF RefreshPod, ListInv, snapVars
    <3> QED BY <1>0, <2>2, <3>1 DEF HandsInv
  <2> QED BY <1>2, <2>1, <2>2, RefreshCalm
<1>3. CASE ManageReplicas \/ ManageReplicasFails
  <2>1. cur' = {} /\ spc' \in {"update", "status"}
    BY <1>0, <1>3 DEF ManageReplicas, ManageReplicasFails, ListInv
  <2> QED BY <2>1 DEF HandsInv
<1>4. CASE ManageInplaceUpdate
  <2>1. cur' = {} /\ spc' = "try" /\ spc = "update" /\ UNCHANGED <<pods, setSnap>>
    BY <1>4 DEF ManageInplaceUpdate, snapVars
  <2>2. todo' \subseteq {q \in Listed : podSnap[q].state # setSnap.template}
    BY <1>4, NeedEffect
  <2>3. \A q \in todo' : pods[q].live => pods[q].state # setSnap.template
    BY <1>0, <2>1, <2>2 DEF ListInv, Listed, Live
  <2> QED BY <2>1, <2>3 DEF HandsInv
<1>5. ASSUME NEW p \in Pods, CloseGate(p) \/ UpdatePodInPlace(p) PROVE HandsInv'
  <2>1. /\ TryStep(pods[p], pods'[p], Aim) /\ \A q \in Pods \ {p} : pods'[q] = pods[q]
        /\ spc = "try" /\ p \in todo /\ pods[p].live
        /\ CloseGate(p) => cur' = {p} /\ pods'[p].state = pods[p].state
        /\ UpdatePodInPlace(p) => cur' = {}
    BY <1>5, TryOne
  <2>2. Out(pods'[p])
    BY <2>1, TryFields, AimType DEF SetType, GroupInv, ShapeInv
  <2>3. /\ UNCHANGED <<spc, setSnap>>
        /\ CloseGate(p) => todo' = todo
        /\ UpdatePodInPlace(p) => todo' = todo \ {p}
    BY <1>5 DEF CloseGate, UpdatePodInPlace, snapVars
  <2>4. \A q \in cur' : Out(pods'[q])
    BY <1>5, <2>1, <2>2
  <2>5. \A q \in todo' : pods'[q].live => pods'[q].state # setSnap.template
    BY <1>0, <1>5, <2>1, <2>3 DEF HandsInv
  <2> QED BY <2>1, <2>3, <2>4, <2>5 DEF HandsInv
<1>6. CASE TryFails \/ UpdateStatus \/ SyncAborts
  <2>1. cur' = {} /\ todo' = {}
    BY <1>6 DEF TryFails, UpdateStatus, SyncAborts, Ends
  <2> QED BY <2>1 DEF HandsInv
<1> QED BY <1>1, <1>2, <1>3, <1>4, <1>5, <1>6, HandsNode DEF SetNext, Reconcile

LEMMA ShapeSet ==
    ASSUME GroupScope, SetType, GroupInv, SetNext, ~SyncStartStale, UNCHANGED rolloutVars
    PROVE  ShapeInv'
<1>1. Steps /\ (SyncStart \/ UpdateStatus \/ CutOff \/ Within)
  BY PodSteps, SetSteps
<1>2. \A q \in Pods : Coherent(pods'[q])
  BY <1>1, CoherentStep
<1>3. ~Resting' => \A q \in Pods : Foreign(pods'[q], Tpl')
  BY <1>1, ForeignStep
<1>4. HandsInv'
  BY HandsStep
<1> QED BY <1>2, <1>3, <1>4 DEF ShapeInv, HandsInv, Foreign

\* When as many pods as the region has serve after the update, all have its images.
LEMMA AllDone ==
    ASSUME SetType, GroupInv, NEW t \in Templates, desired \in Nat, Cardinality(Done(pods, t)) >= desired
    PROVE  AllAt(t)
<1>1. Done(pods, t) \in SUBSET Live(pods) /\ Live(pods) \in SUBSET Pods
  BY ListedPods DEF Done
<1>2. /\ Cardinality(Done(pods, t)) <= Cardinality(Live(pods))
      /\ Cardinality(Done(pods, t)) \in Nat /\ Cardinality(Live(pods)) \in Nat
      /\ Cardinality(Done(pods, t)) = Cardinality(Live(pods)) => Done(pods, t) = Live(pods)
  BY <1>1, Fewer
<1>3. Cardinality(Live(pods)) <= desired
  BY DEF GroupInv, ListInv
<1>4. Done(pods, t) = Live(pods)
  BY <1>2, <1>3
<1> QED BY <1>4, TemplateNotZero DEF Done, Live, AllAt, At, GroupInv, ShapeInv, Coherent, Out

LEMMA EndSet ==
    ASSUME GroupScope, SetType, GroupInv, SetNext, ~SyncStartStale, UNCHANGED rolloutVars,
           desired \in Nat
    PROVE  EndInv'
<1>1. Steps /\ (SyncStart \/ UpdateStatus \/ CutOff \/ Within)
  BY PodSteps, SetSteps
<1>2. Tpl' = Tpl /\ Num' = Num /\ UNCHANGED <<rpc, desired>>
  BY <1>1, RestingEnds
<1> SUFFICES ASSUME Finished' PROVE AllAt(Aim)'
  BY DEF EndInv
<1>3. CASE Within
  <2>1. Finished /\ Aim' = Aim
    <3>1. UNCHANGED <<ips, setSnap, podSnap>> /\ (Busy' <=> Busy) /\ (Resting' <=> Resting) /\ Aim' = Aim
      BY <1>3, RestingEnds DEF Within
    <3> QED BY <1>2, <3>1 DEF Finished
  <2>2. AllAt(Aim)
    BY <2>1 DEF GroupInv, EndInv
  <2>3. \A q \in Pods : pods'[q].live => At(pods'[q], Aim)
    BY <1>1, <2>2, AllAtStays
  <2> QED BY <2>1, <2>3 DEF AllAt
<1>4. CASE SyncStart
  <2>1. Aim' = Aim /\ Aim = Tpl /\ (Resting' <=> Resting)
    BY <1>4, RestingEnds
  <2>2. UNCHANGED <<pods, ips>> /\ podSnap' = pods
    BY <1>4 DEF SyncStart
  <2>3. Finished \/ Cardinality(Done(pods, Tpl)) >= desired
    <3>1. Done(podSnap, Tpl)' = Done(pods, Tpl)
      BY <1>2, <2>2 DEF Done, Live, Completed
    <3> QED BY <1>2, <2>1, <2>2, <3>1 DEF Finished
  <2>4. AllAt(Aim)
    BY <2>1, <2>3, AllDone, AimType DEF GroupInv, EndInv
  <2> QED BY <2>1, <2>2, <2>4 DEF AllAt
<1>5. CASE UpdateStatus \/ CutOff
  <2>1. /\ ~Busy' /\ Busy /\ Aim' = Tpl /\ UNCHANGED pods
        /\ Resting' => Resting /\ Aim = Tpl /\ Num = 0
    BY <1>5, RestingEnds
  <2>2. rpc = "clean" => Aim = Tpl
    <3>1. rpc = "clean" => Num = 0 \/ ips.updateHash = Tpl
      BY AimType DEF GroupInv, SpecInv
    <3> QED BY <2>1, <3>1 DEF GroupInv, SpecInv, Aim
  <2>3. ips'.updateHash = Tpl /\ ips'.updated >= desired => Finished /\ Aim = Tpl
    <3> SUFFICES ASSUME ips'.updateHash = Tpl, ips'.updated >= desired PROVE Finished /\ Aim = Tpl
      OBVIOUS
    <3>1. CASE CutOff
      <4>1. UNCHANGED ips
        BY <3>1 DEF CutOff
      <4> QED BY <2>1, <4>1 DEF Finished, GroupInv, SpecInv, Aim
    <3>2. CASE UpdateStatus
      <4>1. /\ ips'.updateHash = Status(setSnap, podSnap).updateHash
            /\ ips'.updated = Status(setSnap, podSnap).updated
        BY <3>2 DEF UpdateStatus, SetType, InplaceSetObject
      <4>2. /\ ips'.updateHash = IF setSnap.updatePodNum = 0 THEN 0 ELSE setSnap.template
            /\ setSnap.updatePodNum # 0
                 => ips'.updated = Cardinality(InplaceUpdatedPods(setSnap, podSnap))
        BY <4>1 DEF Status, UpdateStatusOf, SetType, InplaceSetObject
      <4>3. setSnap.template = Tpl /\ setSnap.updatePodNum # 0
        BY <4>2, AimType, TemplateNotZero
      <4>4. InplaceUpdatedPods(setSnap, podSnap) = Done(podSnap, Tpl)
        BY <4>3 DEF InplaceUpdatedPods, Done, Tried
      <4> QED BY <2>1, <4>2, <4>3, <4>4 DEF Finished, Aim
    <3> QED BY <1>5, <3>1, <3>2
  <2>4. Finished /\ Aim = Tpl
    <3>1. \/ Resting' \/ rpc' = "clean"
          \/ ips'.updateHash = Tpl' /\ ips'.updated >= desired'
      BY <2>1 DEF Finished
    <3> QED BY <1>2, <2>1, <2>2, <2>3, <3>1 DEF Finished
  <2>5. AllAt(Tpl)
    BY <2>4 DEF GroupInv, EndInv
  <2> QED BY <2>1, <2>5 DEF AllAt
<1> QED BY <1>1, <1>3, <1>4, <1>5

-----------------------------------------------------------------------------
(* The rollout and the user leave the pods alone                           *)

LEMMA OthersListShape ==
    ASSUME GroupInv, UNCHANGED <<pods, spc, setSnap, podSnap, todo, cur, desired>>,
           faults' = 0 => faults = 0,
           ~Resting' => \A q \in Pods : Foreign(pods[q], Tpl')
    PROVE  ListInv' /\ ShapeInv'
<1>1. Live(pods)' = Live(pods) /\ Listed' = Listed /\ (Busy' <=> Busy)
  BY DEF Live, Listed, Busy
<1>2. ListInv'
  BY <1>1 DEF GroupInv, ListInv
<1>3. ShapeInv'
  BY DEF GroupInv, ShapeInv, Foreign
<1> QED BY <1>2, <1>3

LEMMA OthersEnd ==
    ASSUME GroupInv, UNCHANGED <<pods, desired>>, Aim' = Aim, Finished' => Finished
    PROVE  EndInv'
BY DEF GroupInv, EndInv, AllAt

LEMMA RolloutPods ==
    ASSUME TypeOK, GroupInv, Rollout \/ RolloutAborts
    PROVE  ListInv' /\ ShapeInv' /\ EndInv'
<1>0. SpecInv /\ SetType /\ desired \in Nat /\ faults \in Nat
  BY DEF GroupInv, TypeOK, SetType
<1>F. ~Resting => \A q \in Pods : Foreign(pods[q], Tpl)
  BY DEF GroupInv, ShapeInv, Foreign
<1>1. CASE RolloutStart
  <2>1. /\ UNCHANGED <<ips, pods, spc, setSnap, podSnap, todo, cur, faults, desired>>
        /\ Num > 0 => ips.updateHash = Tpl /\ ips.updated >= Num
        /\ rpc' = "clean" => Num \in {0, desired}
    BY <1>0, <1>1, StartEffect
  <2>2. Tpl' = Tpl /\ Num' = Num /\ (Busy' <=> Busy) /\ (Resting' <=> Resting) /\ Aim' = Aim
    BY <2>1 DEF Tpl, Num, Busy, Resting, Aim
  <2>3. rpc' = "clean" => Finished
    <3>1. Num \in Nat
      BY <1>0, AimType
    <3> QED BY <2>1, <3>1 DEF Finished, Resting
  <2>4. Done(podSnap, Tpl)' = Done(podSnap, Tpl)
    BY <2>1, <2>2 DEF Done, Live, Completed
  <2>5. Finished' => Finished
    BY <2>1, <2>2, <2>3, <2>4 DEF Finished
  <2> QED BY <1>F, <2>1, <2>2, <2>5, OthersListShape, OthersEnd
<1>2. CASE RaiseUpdatePodNum
  <2>1. /\ Tpl' = template /\ rpc' = "idle" /\ Num' \in 1..desired
        /\ ips' = [ips EXCEPT !.template = template, !.updatePodNum = Num']
        /\ Num = 0 => template # Tpl
        /\ Num > 0 => template = Tpl /\ ips.updateHash = Tpl
        /\ UNCHANGED <<pods, spc, setSnap, podSnap, todo, cur, faults, desired>>
    BY <1>0, <1>2, RaiseEffect
  <2>2. /\ (Busy' <=> Busy) /\ Num' # 0 /\ Num \in Nat
        /\ ips'.updateHash = ips.updateHash /\ ips'.updated = ips.updated
    BY <1>0, <2>1, AimType DEF Busy, SetType, InplaceSetObject
  <2>3. CASE Num = 0
    <3>1. /\ AllAt(Tpl) /\ (Busy => setSnap.template = Tpl) /\ Aim = Tpl
          /\ ips.updateHash \in {0, Tpl}
      BY <2>3 DEF GroupInv, EndInv, SpecInv, Finished, Resting, Aim
    <3>2. ~Resting' => ~Busy
      BY <2>1, <2>2, <2>3, <3>1 DEF Resting
    <3>3. ~Resting' => \A q \in Pods : Foreign(pods[q], Tpl')
      BY <2>1, <2>3, <3>1 DEF Foreign, AllAt, At
    <3>4. EndInv'
      <4>1. CASE Busy
        <5>1. Aim' = Aim
          BY <2>1, <2>2, <4>1 DEF Aim
        <5> QED BY <2>1, <3>1, <5>1 DEF EndInv, AllAt
      <4>2. CASE ~Busy
        <5>1. ips'.updateHash # Tpl'
          <6>1. template \in Templates
            BY DEF TypeOK
          <6> QED BY <2>1, <2>2, <2>3, <3>1, <6>1, TemplateNotZero
        <5>2. ~Finished'
          BY <2>1, <2>2, <4>2, <5>1 DEF Finished, Resting
        <5> QED BY <5>2 DEF EndInv
      <4> QED BY <4>1, <4>2
    <3> QED BY <2>1, <3>3, <3>4, OthersListShape
  <2>4. CASE Num > 0
    <3>1. Tpl' = Tpl /\ (Busy => setSnap.template = Tpl) /\ ~Resting /\ ~Resting'
      BY <2>1, <2>2, <2>4 DEF SpecInv, GroupInv, Resting
    <3>2. Aim' = Aim
      BY <2>1, <2>2, <3>1 DEF Aim
    <3>3. Done(podSnap, Tpl)' = Done(podSnap, Tpl)
      BY <2>1, <3>1 DEF Done, Live, Completed
    <3>4. Finished' => Finished
      BY <2>1, <2>2, <3>1, <3>3 DEF Finished
    <3> QED BY <1>F, <2>1, <3>1, <3>2, <3>4, OthersListShape, OthersEnd
  <2> QED BY <2>2, <2>3, <2>4
<1>3. CASE CleanAfterSaturated
  <2>1. /\ UNCHANGED <<pods, spc, setSnap, podSnap, todo, cur, faults, desired>>
        /\ Num' = 0 /\ Tpl' = Tpl /\ rpc = "clean"
    BY <1>0, <1>3, CleanEffect
  <2>2. Aim' = Aim /\ Resting' /\ Finished
    BY <2>1 DEF Aim, Busy, Resting, Finished
  <2> QED BY <2>1, <2>2, OthersListShape, OthersEnd
<1>4. CASE RolloutAborts
  <2>1. UNCHANGED <<ips, pods, spc, setSnap, podSnap, todo, cur, desired>> /\ rpc' = "idle"
        /\ faults' = faults + 1
    BY <1>4 DEF RolloutAborts, RolloutEnds, snapVars
  <2>2. Tpl' = Tpl /\ Num' = Num /\ (Busy' <=> Busy) /\ (Resting' <=> Resting) /\ Aim' = Aim
    BY <2>1 DEF Tpl, Num, Busy, Resting, Aim
  <2>3. Done(podSnap, Tpl)' = Done(podSnap, Tpl)
    BY <2>1, <2>2 DEF Done, Live, Completed
  <2>4. Finished' => Finished
    BY <2>1, <2>2, <2>3 DEF Finished
  <2> QED BY <1>0, <1>F, <2>1, <2>2, <2>4, OthersListShape, OthersEnd
<1> QED BY <1>0, <1>1, <1>2, <1>3, <1>4, NeverScaled DEF Rollout

-----------------------------------------------------------------------------
(* Counting                                                                *)

LEMMA SetsOfPods ==
    ASSUME NEW ps, NEW t, NEW c
    PROVE  /\ Reached(ps, t) \in SUBSET Pods /\ Done(ps, t) \in SUBSET Reached(ps, t)
           /\ OutOf(ps) \in SUBSET Pods /\ Stray(ps, t, c) \in SUBSET OutOf(ps)
           /\ Done(ps, t) \in SUBSET Pods /\ Stray(ps, t, c) \in SUBSET Pods
BY DEF Reached, Done, OutOf, Stray, Live

LEMMA SetCounts ==
    ASSUME NEW ps, NEW t, NEW c
    PROVE  /\ Cardinality(Reached(ps, t)) \in Nat /\ Cardinality(Done(ps, t)) \in Nat
           /\ Cardinality(OutOf(ps)) \in Nat /\ Cardinality(Stray(ps, t, c)) \in Nat
           /\ Cardinality(Stray(ps, t, c)) <= Cardinality(OutOf(ps))
<1>1. Cardinality(Reached(ps, t)) \in Nat /\ Cardinality(Done(ps, t)) \in Nat
  BY SetsOfPods, CountType, InplaceSetAssumption
<1>2. /\ Cardinality(OutOf(ps)) \in Nat /\ Cardinality(Stray(ps, t, c)) \in Nat
      /\ Cardinality(Stray(ps, t, c)) <= Cardinality(OutOf(ps))
  BY SetsOfPods, Fewer
<1> QED BY <1>1, <1>2

\* One more element at most.
LEMMA OneMore ==
    ASSUME NEW B \in SUBSET Pods, NEW p, NEW A \in SUBSET (B \cup {p}), A \in SUBSET Pods
    PROVE  Cardinality(A) <= Cardinality(B) + 1 /\ Cardinality(A) \in Nat /\ Cardinality(B) \in Nat
<1>1. A \ {p} \in SUBSET B
  OBVIOUS
<1>2. /\ Cardinality(A \ {p}) <= Cardinality(B) /\ Cardinality(A \ {p}) \in Nat
      /\ Cardinality(B) \in Nat
  BY <1>1, Fewer
<1>3. IsFiniteSet(A) /\ Cardinality(A) \in Nat
  BY Fewer
<1>4. Cardinality(A \ {p}) \in {Cardinality(A), Cardinality(A) - 1}
  BY <1>3, FS_RemoveElement
<1> QED BY <1>2, <1>3, <1>4

LEMMA TwoSets ==
    ASSUME NEW A \in SUBSET Pods, NEW B \in SUBSET Pods
    PROVE  Cardinality(A \cup B) <= Cardinality(A) + Cardinality(B)
           /\ Cardinality(A) \in Nat /\ Cardinality(B) \in Nat /\ Cardinality(A \cup B) \in Nat
<1>1. IsFiniteSet(A) /\ IsFiniteSet(B) /\ Cardinality(A) \in Nat /\ Cardinality(B) \in Nat
  BY Fewer
<1>2. Cardinality(A \cup B) = Cardinality(A) + Cardinality(B) - Cardinality(A \cap B)
  BY <1>1, FS_Union
<1>3. Cardinality(A \cap B) \in Nat /\ Cardinality(A \cup B) \in Nat
  BY CountType, InplaceSetAssumption
<1> QED BY <1>1, <1>2, <1>3

\* If all pods are at template t, those out of service are reached and not done.
LEMMA OutWhenAt ==
    ASSUME NEW ps, NEW t, \A p \in Pods : ps[p].live => At(ps[p], t),
           NEW d \in Nat, NEW f \in Nat,
           Cardinality(Reached(ps, t)) <= d, d <= Cardinality(Done(ps, t)) + f
    PROVE  Cardinality(OutOf(ps)) <= f
<1>1. OutOf(ps) \in SUBSET (Reached(ps, t) \ Done(ps, t))
  BY DEF OutOf, Reached, Done, Live, At
<1>2. Reached(ps, t) \ Done(ps, t) \in SUBSET Pods /\ IsFiniteSet(Reached(ps, t))
  BY SetsOfPods, Fewer
<1>3. /\ Cardinality(OutOf(ps)) <= Cardinality(Reached(ps, t) \ Done(ps, t))
      /\ Cardinality(OutOf(ps)) \in Nat /\ Cardinality(Reached(ps, t) \ Done(ps, t)) \in Nat
  BY <1>1, <1>2, Fewer
<1>4. Cardinality(Reached(ps, t) \ Done(ps, t))
        = Cardinality(Reached(ps, t)) - Cardinality(Reached(ps, t) \cap Done(ps, t))
  BY <1>2, FS_Difference
<1>5. Reached(ps, t) \cap Done(ps, t) = Done(ps, t)
  BY SetsOfPods
<1>6. Cardinality(Reached(ps, t)) \in Nat /\ Cardinality(Done(ps, t)) \in Nat
  BY SetCounts
<1>7. PICK o \in Nat, x \in Nat, r \in Nat, n \in Nat :
         /\ o = Cardinality(OutOf(ps)) /\ x = Cardinality(Reached(ps, t) \ Done(ps, t))
         /\ r = Cardinality(Reached(ps, t)) /\ n = Cardinality(Done(ps, t))
  BY <1>3, <1>6
<1>8. o <= x /\ x = r - n /\ r <= d /\ d <= n + f
  BY <1>3, <1>4, <1>5, <1>7
<1>9. o <= f
  BY <1>8
<1> QED BY <1>7, <1>9

LEMMA CalmSets ==
    ASSUME SetType, GroupInv, NEW t \in Templates, Calm(t), NEW u \in Templates, NEW c
    PROVE  /\ Reached(pods', u) \subseteq Reached(pods, u)
           /\ OutOf(pods') \subseteq OutOf(pods)
           /\ Stray(pods', u, c) \subseteq Stray(pods, u, c)
           /\ \A q \in Done(pods, u) : pods'[q].live => q \in Done(pods', u)
<1>1. ASSUME NEW q \in Pods, pods'[q].live
      PROVE  /\ pods'[q].state # 0 => pods[q].live /\ pods'[q].state = pods[q].state
             /\ pods'[q].state # 0 /\ ~pods'[q].ready => ~pods[q].ready
             /\ pods[q].live => pods'[q].state = pods[q].state
             /\ pods[q].live /\ pods[q].state # 0 /\ pods[q].ready /\ Completed(pods[q])
                   => pods'[q].ready /\ Completed(pods'[q])
  <2>1. pods[q] \in Pod /\ Coherent(pods[q]) /\ CalmStep(pods[q], pods'[q], t)
    BY DEF SetType, GroupInv, ShapeInv, Calm
  <2> QED BY <1>1, <2>1, CalmFields
<1>2. u # 0
  BY TemplateNotZero
<1>3. Reached(pods', u) \subseteq Reached(pods, u)
  BY <1>1, <1>2 DEF Reached, Live
<1>4. OutOf(pods') \subseteq OutOf(pods)
  BY <1>1 DEF OutOf, Live
<1>5. Stray(pods', u, c) \subseteq Stray(pods, u, c)
  BY <1>1, <1>4 DEF Stray, OutOf, Live
<1>6. \A q \in Done(pods, u) : pods'[q].live => q \in Done(pods', u)
  BY <1>1, <1>2 DEF Done, Live
<1> QED BY <1>3, <1>4, <1>5, <1>6

\* A step within a reconcile: it may undo the update of one pod, or add a stray,
\* at the cost of a fault.
LEMMA CountWithin ==
    ASSUME SetType, GroupInv, EndInv', Within, UNCHANGED rolloutVars, desired \in Nat,
           NEW k \in {0, 1}, faults' = faults + k, Picked' \subseteq Pods,
           Resting /\ ~Late => OutOf(pods') \subseteq OutOf(pods),
           ~Resting => Cardinality(Reached(pods', Tpl) \cup Picked') <= Num,
           Late => Cardinality(Reached(pods', Aim) \cup Picked') <= desired,
           NEW p,
           ~Resting \/ Late =>
             \/ /\ Done(pods, Aim) \subseteq Done(pods', Aim)
                /\ Stray(pods', Aim, cur') \subseteq Stray(pods, Aim, cur)
             \/ /\ k = 1 /\ Done(pods, Aim) \subseteq Done(pods', Aim) \cup {p}
                /\ Stray(pods', Aim, cur') \subseteq Stray(pods, Aim, cur)
             \/ /\ k = 1 /\ Done(pods, Aim) \subseteq Done(pods', Aim)
                /\ Stray(pods', Aim, cur') \subseteq Stray(pods, Aim, cur) \cup {p}
    PROVE  CountInv'
<1>1. /\ Tpl' = Tpl /\ Num' = Num /\ UNCHANGED <<rpc, desired, ips, setSnap, podSnap>>
      /\ (Resting' <=> Resting) /\ Aim' = Aim /\ (Late' <=> Late) /\ (Busy' <=> Busy)
  BY RestingEnds DEF Within
<1>2. faults \in Nat /\ faults' \in Nat /\ Num \in Nat
  BY AimType DEF SetType
<1> DEFINE done   == Cardinality(Done(pods, Aim))
           doneN  == Cardinality(Done(pods', Aim))
           stray  == Cardinality(Stray(pods, Aim, cur))
           strayN == Cardinality(Stray(pods', Aim, cur'))
<1>3. done \in Nat /\ doneN \in Nat /\ stray \in Nat /\ strayN \in Nat
  BY SetCounts
<1>4. ~Resting \/ Late => done <= doneN + k /\ strayN <= stray + k /\ strayN + done <= stray + doneN + k
  <2> SUFFICES ASSUME ~Resting \/ Late
               PROVE  done <= doneN + k /\ strayN <= stray + k /\ strayN + done <= stray + doneN + k
    OBVIOUS
  <2>0. /\ Done(pods, Aim) \in SUBSET Pods /\ Done(pods', Aim) \in SUBSET Pods
        /\ Stray(pods, Aim, cur) \in SUBSET Pods /\ Stray(pods', Aim, cur') \in SUBSET Pods
    BY SetsOfPods
  <2>1. Done(pods, Aim) \subseteq Done(pods', Aim) => done <= doneN
    BY <2>0, Fewer
  <2>2. Stray(pods', Aim, cur') \subseteq Stray(pods, Aim, cur) => strayN <= stray
    BY <2>0, Fewer
  <2>3. Done(pods, Aim) \subseteq Done(pods', Aim) \cup {p} => done <= doneN + 1
    BY <2>0, OneMore
  <2>4. Stray(pods', Aim, cur') \subseteq Stray(pods, Aim, cur) \cup {p} => strayN <= stray + 1
    BY <2>0, OneMore
  <2>5. \/ done <= doneN /\ strayN <= stray
        \/ k = 1 /\ done <= doneN + 1 /\ strayN <= stray
        \/ k = 1 /\ done <= doneN /\ strayN <= stray + 1
    <3> HIDE DEF done, doneN, stray, strayN
    <3> QED BY <2>1, <2>2, <2>3, <2>4
  <2> HIDE DEF done, doneN, stray, strayN
  <2> QED BY <1>3, <2>5
<1>5. CountInv
  BY DEF GroupInv
<1>6. Late' => /\ desired' <= Cardinality(Done(pods, Aim))' + faults'
               /\ Cardinality(Reached(pods, Aim) \cup Picked)' <= desired'
  <2> SUFFICES ASSUME Late
               PROVE  desired <= doneN + faults' /\ Cardinality(Reached(pods', Aim) \cup Picked') <= desired
    BY <1>1
  <2>1. desired <= done + faults
    BY <1>5 DEF CountInv
  <2>2. done <= doneN + k
    BY <1>4
  <2> HIDE DEF done, doneN, stray, strayN
  <2> QED BY <1>2, <1>3, <2>1, <2>2
<1>7. Resting' => Cardinality(OutOf(pods))' <= faults'
  <2>1. CASE Late
    <3>1. AllAt(Aim)'
      BY <1>1, <2>1 DEF EndInv, Finished, Late
    <3>2. \A q \in Pods : pods'[q].live => At(pods'[q], Aim)
      BY <1>1, <3>1 DEF AllAt
    <3>3. Cardinality(Reached(pods', Aim)) <= desired
      <4>1. Cardinality(Reached(pods', Aim) \cup Picked') <= desired
        BY <2>1
      <4>2. Reached(pods', Aim) \cup Picked' \in SUBSET Pods
        BY SetsOfPods
      <4>3. /\ Cardinality(Reached(pods', Aim)) <= Cardinality(Reached(pods', Aim) \cup Picked')
            /\ Cardinality(Reached(pods', Aim)) \in Nat
            /\ Cardinality(Reached(pods', Aim) \cup Picked') \in Nat
        BY <4>2, Fewer
      <4> QED BY <4>1, <4>3
    <3>4. desired <= Cardinality(Done(pods', Aim)) + faults'
      BY <1>1, <1>6, <2>1
    <3> QED BY <1>2, <3>2, <3>3, <3>4, OutWhenAt
  <2>2. CASE Resting /\ ~Late
    <3>1. Cardinality(OutOf(pods')) <= Cardinality(OutOf(pods)) /\ Cardinality(OutOf(pods')) \in Nat
          /\ Cardinality(OutOf(pods)) \in Nat
      BY <2>2, SetsOfPods, Fewer
    <3>2. Cardinality(OutOf(pods)) <= faults
      BY <1>5, <2>2 DEF CountInv
    <3> QED BY <1>2, <3>1, <3>2
  <2> QED BY <1>1, <2>1, <2>2
<1>8. ~Resting' =>
          /\ strayN <= faults'
          /\ Num + strayN <= doneN + BatchSize + faults'
          /\ Cardinality(Reached(pods', Tpl) \cup Picked') <= Num
          /\ ips.updateHash = Tpl => ips.updated + strayN <= doneN + faults'
          /\ Busy => Cardinality(Done(podSnap, Tpl)) + strayN <= doneN + faults'
          /\ rpc # "idle" => Num + strayN <= doneN + faults'
  <2> SUFFICES ASSUME ~Resting
               PROVE  /\ strayN <= faults'
                      /\ Num + strayN <= doneN + BatchSize + faults'
                      /\ ips.updateHash = Tpl => ips.updated + strayN <= doneN + faults'
                      /\ Busy => Cardinality(Done(podSnap, Tpl)) + strayN <= doneN + faults'
                      /\ rpc # "idle" => Num + strayN <= doneN + faults'
    BY <1>1
  <2>1. /\ stray <= faults
        /\ Num + stray <= done + BatchSize + faults
        /\ ips.updateHash = Tpl => ips.updated + stray <= done + faults
        /\ Busy => Cardinality(Done(podSnap, Tpl)) + stray <= done + faults
        /\ rpc # "idle" => Num + stray <= done + faults
    BY <1>5, AimOfUpdate DEF CountInv
  <2>2. strayN <= stray + k /\ strayN + done <= stray + doneN + k
    BY <1>4
  <2>3. ips.updated \in Nat /\ Cardinality(Done(podSnap, Tpl)) \in Nat
    BY SetCounts DEF SetType, InplaceSetObject
  <2> HIDE DEF done, doneN, stray, strayN
  <2>4. PICK s \in Nat : s = Cardinality(Done(podSnap, Tpl))
    BY <2>3
  <2> QED BY <1>2, <1>3, <2>1, <2>2, <2>3, <2>4
<1>9. faults' = 0 /\ Num > 0 /\ desired > 1 => Num < desired \/ Done(pods', Tpl) # {}
  <2> SUFFICES ASSUME faults' = 0, Num > 0, desired > 1, Num >= desired PROVE Done(pods', Tpl) # {}
    BY <1>2
  <2>1. k = 0 /\ faults = 0
    BY <1>2
  <2>2. Done(pods, Tpl) # {}
    BY <1>2, <1>5, <2>1 DEF CountInv
  <2>3. CASE Aim = Tpl
    <3>1. Resting => Late
      <4>1. Resting => Num = 0
        BY <2>3 DEF Resting, Aim
      <4> QED BY <4>1
    <3> QED BY <2>1, <2>2, <2>3, <3>1
  <2>4. CASE Aim # Tpl
    <3>1. Resting
      BY <2>4, AimOfUpdate
    <3>2. AllAt(Aim)
      BY <3>1 DEF GroupInv, EndInv, Finished
    <3> QED BY <2>2, <2>4, <3>2, AimType, TemplateNotZero DEF AllAt, At, Done, Live
  <2> QED BY <2>3, <2>4
<1>10. CountInv'
  <2>1. ~Resting' => Aim' = Tpl' /\ Aim = Tpl
    BY <1>1, AimOfUpdate
  <2>2. ips' = ips /\ podSnap' = podSnap /\ rpc' = rpc
    BY <1>1
  <2> HIDE DEF done, doneN, stray, strayN
  <2> QED BY <1>1, <1>6, <1>7, <1>8, <1>9, <2>1, <2>2 DEF CountInv, done, doneN, stray, strayN
<1> QED BY <1>10

-----------------------------------------------------------------------------
(* CountInv and the steps of a reconcile                                   *)

\* A step that chooses no pod; a pod may be lost at the cost of a fault.
LEMMA CountCalm ==
    ASSUME SetType, GroupInv, EndInv', Within, UNCHANGED rolloutVars, desired \in Nat,
           Calm(Aim), UNCHANGED cur, Picked' \subseteq Picked,
           NEW k \in {0, 1}, faults' = faults + k, NEW p,
           NoneLost \/ (k = 1 /\ \A q \in Pods \ {p} : pods[q].live => pods'[q].live)
    PROVE  CountInv'
<1>1. Aim \in Templates /\ Tpl \in Templates /\ Num \in Nat
  BY AimType
<1>2. Picked \subseteq Pods
  BY DEF Picked, SetType
<1>3. /\ Reached(pods', Aim) \subseteq Reached(pods, Aim) /\ Reached(pods', Tpl) \subseteq Reached(pods, Tpl)
      /\ OutOf(pods') \subseteq OutOf(pods)
      /\ Stray(pods', Aim, cur') \subseteq Stray(pods, Aim, cur)
      /\ \A q \in Done(pods, Aim) : pods'[q].live => q \in Done(pods', Aim)
  BY <1>1, CalmSets
<1>4. \/ Done(pods, Aim) \subseteq Done(pods', Aim)
      \/ k = 1 /\ Done(pods, Aim) \subseteq Done(pods', Aim) \cup {p}
  <2>1. \A q \in Done(pods, Aim) : q \in Pods /\ pods[q].live
    BY DEF Done, Live
  <2>2. CASE NoneLost
    BY <1>3, <2>1, <2>2 DEF NoneLost
  <2>3. CASE k = 1 /\ \A q \in Pods \ {p} : pods[q].live => pods'[q].live
    BY <1>3, <2>1, <2>3
  <2> QED BY <2>2, <2>3
<1>5. ASSUME NEW u, Reached(pods', u) \subseteq Reached(pods, u), NEW n \in Nat,
             Cardinality(Reached(pods, u) \cup Picked) <= n
      PROVE  Cardinality(Reached(pods', u) \cup Picked') <= n
  <2>1. Reached(pods, u) \cup Picked \in SUBSET Pods
    BY <1>2, SetsOfPods
  <2>2. Reached(pods', u) \cup Picked' \in SUBSET (Reached(pods, u) \cup Picked)
    BY <1>5
  <2>3. /\ Cardinality(Reached(pods', u) \cup Picked') <= Cardinality(Reached(pods, u) \cup Picked)
        /\ Cardinality(Reached(pods', u) \cup Picked') \in Nat
        /\ Cardinality(Reached(pods, u) \cup Picked) \in Nat
    BY <2>1, <2>2, Fewer
  <2> QED BY <1>5, <2>3
<1>6. ~Resting => Cardinality(Reached(pods', Tpl) \cup Picked') <= Num
  BY <1>1, <1>3, <1>5 DEF GroupInv, CountInv
<1>7. Late => Cardinality(Reached(pods', Aim) \cup Picked') <= desired
  BY <1>3, <1>5 DEF GroupInv, CountInv
<1>8. Picked' \subseteq Pods
  BY <1>2
<1> QED BY <1>3, <1>4, <1>6, <1>7, <1>8, CountWithin

LEMMA CountNode ==
    ASSUME GroupScope, SetType, GroupInv, EndInv', UNCHANGED rolloutVars, desired \in Nat,
           NEW p \in Pods, Node(p) \/ PodLost(p)
    PROVE  CountInv'
<1>1. UNCHANGED <<ips, spc, setSnap, podSnap, todo, cur>>
  BY DEF Node, ContainerRestarts, KubeletReports, GraceElapses, PodLost, PodUnchanged, snapVars
<1>2. Within /\ Picked' = Picked
  BY <1>1 DEF Within, Picked, Busy
<1>3. CASE Node(p)
  <2>1. faults' = faults + 0
    BY <1>3 DEF Node, ContainerRestarts, KubeletReports, GraceElapses, SetType
  <2>2. Calm(Aim) /\ NoneLost
    BY <1>3, NodeCalm
  <2> QED BY <1>1, <1>2, <2>1, <2>2, CountCalm
<1>4. CASE PodLost(p)
  <2>1. faults' = faults + 1
    BY <1>4 DEF PodLost
  <2>2. Calm(Aim) /\ \A q \in Pods \ {p} : pods'[q] = pods[q]
    BY <1>4, NodeCalm
  <2> QED BY <1>1, <1>2, <2>1, <2>2, CountCalm
<1> QED BY <1>3, <1>4

LEMMA CountRefresh ==
    ASSUME SetType, GroupInv, EndInv', UNCHANGED rolloutVars, desired \in Nat,
           NEW p \in Pods, RefreshPod(p), ~Ends
    PROVE  CountInv'
<1>1. UNCHANGED <<ips, spc, setSnap, podSnap, cur>> /\ spc = "refresh" /\ faults' = faults + 0
  <2>1. UNCHANGED <<spc, cur, snapVars>>
    BY RefreshCalm
  <2>2. UNCHANGED <<ips, faults>> /\ spc = "refresh" /\ faults \in Int
    BY DEF RefreshPod, SetType
  <2> QED BY <2>1, <2>2 DEF snapVars
<1>2. Within /\ Picked' = {}
  BY <1>1 DEF Within, Picked, Busy
<1>3. Calm(Aim) /\ NoneLost
  BY RefreshCalm
<1> QED BY <1>1, <1>2, <1>3, CountCalm

LEMMA CountManage ==
    ASSUME SetType, GroupInv, EndInv', UNCHANGED rolloutVars, desired \in Nat,
           ManageReplicas \/ ManageReplicasFails
    PROVE  CountInv'
<1>1. /\ UNCHANGED <<ips, setSnap, podSnap, cur>> /\ spc = "refresh" /\ spc' \in {"update", "status"}
      /\ \E k \in {0, 1} : faults' = faults + k
  <2>1. ManageReplicas => faults' = faults + 0
    BY DEF ManageReplicas, SetType
  <2>2. ManageReplicasFails => faults' = faults + 1
    BY DEF ManageReplicasFails
  <2> QED BY <2>1, <2>2 DEF ManageReplicas, ManageReplicasFails, snapVars
<1>2. Within /\ Picked' = {}
  BY <1>1 DEF Within, Picked, Busy
<1>3. Calm(Aim) /\ NoneLost
  BY ManageCalm
<1> QED BY <1>1, <1>2, <1>3, CountCalm

\* The pods chosen for an update are those missing from updatePodNum.
LEMMA CountNeed ==
    ASSUME SetType, GroupInv, EndInv', UNCHANGED rolloutVars, desired \in Nat, ManageInplaceUpdate
    PROVE  CountInv'
<1>1. /\ UNCHANGED <<ips, pods, setSnap, podSnap>> /\ spc = "update" /\ spc' = "try" /\ cur' = {}
      /\ faults' = faults + 0
  BY DEF ManageInplaceUpdate, snapVars, SetType
<1>2. cur = {} /\ Busy /\ Busy' /\ Picked = {} /\ Picked' = todo' /\ Aim = setSnap.template
  BY <1>1 DEF GroupInv, ListInv, Busy, Picked, Aim
<1>3. Within
  BY <1>1, <1>2 DEF Within
<1>4. Aim \in Templates /\ Tpl \in Templates /\ Num \in Nat /\ setSnap.updatePodNum \in Nat
  BY AimType
<1>5. todo' \subseteq Listed /\ todo' \subseteq Pods
  BY NeedEffect, ListedPods
<1>6. Reached(pods, Aim) \subseteq Reached(podSnap, Aim)
  <2>1. Aim # 0
    BY <1>4, TemplateNotZero
  <2>2. \A q \in Pods : pods[q].live /\ pods[q].state # 0
                          => podSnap[q].live /\ podSnap[q].state = pods[q].state
    BY <1>1, <1>2 DEF GroupInv, ListInv
  <2> QED BY <2>1, <2>2 DEF Reached, Live
<1>7. \/ todo' = {}
      \/ Cardinality(Reached(pods, Aim) \cup todo') <= setSnap.updatePodNum
  <2> SUFFICES ASSUME Cardinality(todo') + Cardinality(Reached(podSnap, Aim)) <= setSnap.updatePodNum
               PROVE  Cardinality(Reached(pods, Aim) \cup todo') <= setSnap.updatePodNum
    BY <1>2, NeedEffect
  <2>1. /\ Cardinality(Reached(pods, Aim)) <= Cardinality(Reached(podSnap, Aim))
        /\ Cardinality(Reached(podSnap, Aim)) \in Nat
    BY <1>6, SetsOfPods, Fewer
  <2>2. /\ Cardinality(Reached(pods, Aim) \cup todo') <= Cardinality(Reached(pods, Aim)) + Cardinality(todo')
        /\ Cardinality(Reached(pods, Aim)) \in Nat /\ Cardinality(todo') \in Nat
        /\ Cardinality(Reached(pods, Aim) \cup todo') \in Nat
    BY <1>5, SetsOfPods, TwoSets
  <2> QED BY <1>4, <2>1, <2>2
<1>8. ASSUME NEW n \in Nat, Cardinality(Reached(pods, Aim) \cup Picked) <= n, setSnap.updatePodNum <= n
      PROVE  Cardinality(Reached(pods', Aim) \cup Picked') <= n
  <2>1. Reached(pods, Aim) \cup {} = Reached(pods, Aim) /\ pods' = pods
    BY <1>1
  <2>2. CASE todo' = {}
    BY <1>2, <1>8, <2>1, <2>2
  <2>3. CASE Cardinality(Reached(pods, Aim) \cup todo') <= setSnap.updatePodNum
    <3>1. Cardinality(Reached(pods, Aim) \cup todo') \in Nat
      BY <1>5, SetsOfPods, TwoSets
    <3> QED BY <1>2, <1>4, <1>8, <2>1, <2>3, <3>1
  <2> QED BY <1>7, <2>2, <2>3
<1>9. ~Resting => Cardinality(Reached(pods', Tpl) \cup Picked') <= Num
  <2> SUFFICES ASSUME ~Resting PROVE Cardinality(Reached(pods', Tpl) \cup Picked') <= Num
    OBVIOUS
  <2>1. Aim = Tpl /\ Num > 0
    BY <1>4, AimOfUpdate
  <2>2. setSnap.updatePodNum <= Num
    BY <1>2, <1>4, <2>1 DEF GroupInv, SpecInv
  <2>3. Cardinality(Reached(pods, Aim) \cup Picked) <= Num
    BY <2>1 DEF GroupInv, CountInv
  <2> QED BY <1>4, <1>8, <2>1, <2>2, <2>3
<1>10. Late => Cardinality(Reached(pods', Aim) \cup Picked') <= desired
  <2> SUFFICES ASSUME Late PROVE Cardinality(Reached(pods', Aim) \cup Picked') <= desired
    OBVIOUS
  <2>1. setSnap.updatePodNum <= desired
    BY <1>2 DEF GroupInv, SpecInv
  <2>2. Cardinality(Reached(pods, Aim) \cup Picked) <= desired
    BY DEF GroupInv, CountInv
  <2> QED BY <1>8, <2>1, <2>2
<1>11. /\ Done(pods, Aim) \subseteq Done(pods', Aim) /\ OutOf(pods') \subseteq OutOf(pods)
       /\ Stray(pods', Aim, cur') \subseteq Stray(pods, Aim, cur)
  <2>1. pods' = pods /\ cur' = cur
    BY <1>1, <1>2
  <2> QED BY <2>1
<1> QED BY <1>1, <1>2, <1>3, <1>5, <1>9, <1>10, <1>11, CountWithin

\* A pod is taken out of service, patched, or given up.
LEMMA CountClose ==
    ASSUME GroupScope, SetType, GroupInv, EndInv', UNCHANGED rolloutVars, desired \in Nat,
           NEW p \in Pods, CloseGate(p) \/ UpdatePodInPlace(p)
    PROVE  CountInv'
<1>1. /\ TryStep(pods[p], pods'[p], Aim) /\ \A q \in Pods \ {p} : pods'[q] = pods[q]
      /\ spc = "try" /\ p \in todo /\ Aim = setSnap.template /\ pods[p].live
      /\ CloseGate(p) => cur' = {p} /\ cur = {} /\ pods'[p].state = pods[p].state
      /\ UpdatePodInPlace(p) => cur' = {} /\ cur = {p} /\ pods'[p].state = Aim
  BY TryOne
<1>2. /\ UNCHANGED <<ips, spc, setSnap, podSnap>> /\ faults' = faults + 0
      /\ CloseGate(p) => todo' = todo
      /\ UpdatePodInPlace(p) => todo' = todo \ {p}
  <2>1. faults \in Int
    BY DEF SetType
  <2>2. UNCHANGED <<ips, spc, setSnap, podSnap, faults>>
    BY DEF CloseGate, UpdatePodInPlace, snapVars
  <2>3. CloseGate(p) => todo' = todo
    BY DEF CloseGate
  <2>4. UpdatePodInPlace(p) => todo' = todo \ {p}
    BY DEF UpdatePodInPlace
  <2>5. faults' = faults + 0
    BY <2>1, <2>2
  <2> QED BY <2>2, <2>3, <2>4, <2>5
<1>3. /\ Within /\ Picked = todo /\ Picked' = todo' /\ todo \subseteq Pods /\ todo' \subseteq todo
      /\ Busy
  BY <1>1, <1>2 DEF Within, Picked, Busy, SetType
<1>4. Aim \in Templates /\ Tpl \in Templates /\ Num \in Nat
  BY AimType
<1>5. pods[p].state # Aim
  BY <1>1 DEF TryStep
<1>6. Done(pods, Aim) \subseteq Done(pods', Aim)
  BY <1>1, <1>5 DEF Done, Live
<1>7. Stray(pods', Aim, cur') \subseteq Stray(pods, Aim, cur)
  <2>1. CASE CloseGate(p)
    BY <1>1, <2>1 DEF Stray, OutOf, Live
  <2>2. CASE UpdatePodInPlace(p)
    BY <1>1, <2>2 DEF Stray, OutOf, Live
  <2> QED BY <2>1, <2>2
<1>8. Reached(pods', Aim) \cup Picked' \in SUBSET (Reached(pods, Aim) \cup Picked)
  BY <1>1, <1>3, <1>5 DEF Reached, Live
<1>9. Reached(pods, Aim) \cup Picked \in SUBSET Pods
  BY <1>3, SetsOfPods
<1>10. /\ Cardinality(Reached(pods', Aim) \cup Picked') <= Cardinality(Reached(pods, Aim) \cup Picked)
       /\ Cardinality(Reached(pods', Aim) \cup Picked') \in Nat
       /\ Cardinality(Reached(pods, Aim) \cup Picked) \in Nat
  BY <1>8, <1>9, Fewer
<1>11. ~Resting => Cardinality(Reached(pods', Tpl) \cup Picked') <= Num
  <2> SUFFICES ASSUME ~Resting PROVE Cardinality(Reached(pods', Tpl) \cup Picked') <= Num
    OBVIOUS
  <2>1. Aim = Tpl
    BY AimOfUpdate
  <2>2. Cardinality(Reached(pods, Tpl) \cup Picked) <= Num
    BY DEF GroupInv, CountInv
  <2> QED BY <1>4, <1>10, <2>1, <2>2
<1>12. Late => Cardinality(Reached(pods', Aim) \cup Picked') <= desired
  <2> SUFFICES ASSUME Late PROVE Cardinality(Reached(pods', Aim) \cup Picked') <= desired
    OBVIOUS
  <2>1. Cardinality(Reached(pods, Aim) \cup Picked) <= desired
    BY DEF GroupInv, CountInv
  <2> QED BY <1>10, <2>1
<1>13. Resting => Late
  BY <1>1, <1>3 DEF GroupInv, ListInv, Late
<1>14. Picked' \subseteq Pods
  BY <1>3
<1> QED BY <1>2, <1>3, <1>6, <1>7, <1>11, <1>12, <1>13, <1>14, CountWithin

LEMMA CountFails ==
    ASSUME SetType, GroupInv, EndInv', UNCHANGED rolloutVars, desired \in Nat, TryFails
    PROVE  CountInv'
<1>1. /\ UNCHANGED <<ips, pods, spc, setSnap, podSnap>> /\ spc = "try" /\ cur' = {} /\ todo' = {}
  BY DEF TryFails, snapVars
<1>2. PICK p \in todo : /\ cur \subseteq {p}
                        /\ IF pods[p].live THEN faults' = faults + 1 ELSE UNCHANGED faults
  BY DEF TryFails
<1>3. Within /\ Picked' = {} /\ Picked \subseteq Pods
  BY <1>1 DEF Within, Picked, Busy, SetType
<1>4. Aim \in Templates /\ Tpl \in Templates /\ Num \in Nat
  BY AimType
<1>5. PICK k \in {0, 1} : /\ faults' = faults + k /\ (pods[p].live => k = 1)
  <2>1. faults \in Int
    BY DEF SetType
  <2>2. CASE pods[p].live
    BY <1>2, <2>2
  <2>3. CASE ~pods[p].live
    <3>1. faults' = faults + 0 /\ ~pods[p].live
      BY <1>2, <2>1, <2>3
    <3> QED BY <3>1
  <2> QED BY <2>2, <2>3
<1>6. \/ Stray(pods, Aim, {}) \subseteq Stray(pods, Aim, cur)
      \/ k = 1 /\ Stray(pods, Aim, {}) \subseteq Stray(pods, Aim, cur) \cup {p}
  <2>1. CASE pods[p].live
    BY <1>2, <1>5, <2>1 DEF Stray
  <2>2. CASE ~pods[p].live
    BY <1>2, <2>2 DEF Stray, OutOf, Live
  <2> QED BY <2>1, <2>2
<1>7. ASSUME NEW u, NEW n \in Nat, Cardinality(Reached(pods, u) \cup Picked) <= n
      PROVE  Cardinality(Reached(pods', u) \cup Picked') <= n
  <2>1. Reached(pods', u) \cup Picked' \in SUBSET (Reached(pods, u) \cup Picked)
    BY <1>1, <1>3
  <2>2. Reached(pods, u) \cup Picked \in SUBSET Pods
    BY <1>3, SetsOfPods
  <2>3. /\ Cardinality(Reached(pods', u) \cup Picked') <= Cardinality(Reached(pods, u) \cup Picked)
        /\ Cardinality(Reached(pods', u) \cup Picked') \in Nat
        /\ Cardinality(Reached(pods, u) \cup Picked) \in Nat
    BY <2>1, <2>2, Fewer
  <2> QED BY <1>7, <2>3
<1>8. ~Resting => Cardinality(Reached(pods', Tpl) \cup Picked') <= Num
  BY <1>4, <1>7 DEF GroupInv, CountInv
<1>9. Late => Cardinality(Reached(pods', Aim) \cup Picked') <= desired
  BY <1>7 DEF GroupInv, CountInv
<1>10. /\ Done(pods, Aim) \subseteq Done(pods', Aim) /\ OutOf(pods') \subseteq OutOf(pods)
       /\ Stray(pods', Aim, cur') = Stray(pods, Aim, {})
  BY <1>1
<1>11. Picked' \subseteq Pods
  BY <1>3
<1> QED BY <1>3, <1>5, <1>6, <1>8, <1>9, <1>10, <1>11, CountWithin

\* A reconcile that starts lists the pods as they are.
LEMMA CountStart ==
    ASSUME SetType, GroupInv, UNCHANGED rolloutVars, desired \in Nat, SyncStart
    PROVE  CountInv'
<1>1. /\ UNCHANGED <<ips, pods, faults>> /\ podSnap' = pods /\ cur' = {} /\ spc' = "refresh" /\ spc = "idle"
  BY DEF SyncStart
<1>2. /\ Tpl' = Tpl /\ Num' = Num /\ UNCHANGED <<rpc, desired>>
      /\ (Resting' <=> Resting) /\ ~Late'
  BY RestingEnds
<1>3. cur' = cur /\ Picked' = Picked /\ Num \in Nat /\ faults \in Nat
  BY <1>1, AimType DEF GroupInv, ListInv, Picked, SetType
<1>4. CountInv
  BY DEF GroupInv
<1>5. /\ Cardinality(Done(pods, Tpl)) \in Nat /\ Cardinality(Stray(pods, Tpl, cur)) \in Nat
  BY SetCounts
<1>6. ~Resting =>
          /\ Cardinality(Stray(pods, Tpl, cur)) <= faults
          /\ Cardinality(Done(pods, Tpl)) + Cardinality(Stray(pods, Tpl, cur))
               <= Cardinality(Done(pods, Tpl)) + faults
  BY <1>3, <1>4, <1>5 DEF CountInv
<1>7. podSnap' = pods /\ pods' = pods /\ ips' = ips
  BY <1>1
<1> QED BY <1>1, <1>2, <1>3, <1>4, <1>6, <1>7 DEF CountInv

\* A reconcile that is over leaves its pod a stray, if it had one in hand: then
\* it was cut off by a fault.
LEMMA CountEnd ==
    ASSUME SetType, GroupInv, UNCHANGED rolloutVars, desired \in Nat, UpdateStatus \/ CutOff,
           faults' = faults \/ faults' = faults + 1, cur = {} \/ faults' = faults + 1
    PROVE  CountInv'
<1>1. /\ Tpl' = Tpl /\ Num' = Num /\ UNCHANGED <<rpc, desired>>
      /\ ~Busy' /\ Busy /\ Aim' = Tpl /\ ~Late' /\ UNCHANGED pods
      /\ Resting' => Resting /\ Aim = Tpl /\ Num = 0
      /\ ~Resting' /\ Resting => /\ Aim # Tpl /\ Num <= BatchSize /\ rpc = "idle"
                                 /\ ips'.updateHash # Tpl
      /\ ~Resting => Aim = Tpl /\ ~Resting'
  BY RestingEnds
<1>2. cur' = {} /\ Picked' = {}
  BY DEF UpdateStatus, CutOff, Ends, Picked
<1>3. Num \in Nat /\ Tpl \in Templates /\ Aim \in Templates /\ faults \in Nat
  BY AimType DEF SetType
<1>4. CountInv
  BY DEF GroupInv
<1>5. faults' \in Nat /\ faults' >= faults
  BY <1>3
<1>6. faults' = 0 /\ Num > 0 /\ desired > 1 => Num < desired \/ Done(pods, Tpl) # {}
  BY <1>3, <1>4 DEF CountInv
<1>7. CASE Resting'
  <2>1. Cardinality(OutOf(pods)) <= faults /\ Cardinality(OutOf(pods)) \in Nat
    BY <1>1, <1>4, <1>7, SetCounts DEF CountInv
  <2>2. Cardinality(OutOf(pods'))  <= faults'
    BY <1>1, <1>3, <1>5, <2>1
  <2>3. Num' = 0
    BY <1>1, <1>7
  <2> QED BY <1>1, <1>7, <2>2, <2>3 DEF CountInv
<1>8. CASE ~Resting' /\ Resting
  <2>1. AllAt(Aim)
    BY <1>8 DEF GroupInv, EndInv, Finished
  <2>2. Reached(pods, Tpl) = {}
    BY <1>1, <1>3, <1>8, <2>1, TemplateNotZero DEF AllAt, At, Reached, Live
  <2>3. /\ Cardinality(Stray(pods, Tpl, {})) <= Cardinality(OutOf(pods))
        /\ Cardinality(Stray(pods, Tpl, {})) \in Nat /\ Cardinality(OutOf(pods)) \in Nat
        /\ Cardinality(Done(pods, Tpl)) \in Nat
    BY SetCounts
  <2>4. Cardinality(OutOf(pods)) <= faults
    BY <1>4, <1>8 DEF CountInv
  <2>5. /\ Cardinality(Stray(pods, Tpl, {})) <= faults'
        /\ Num + Cardinality(Stray(pods, Tpl, {})) <= Cardinality(Done(pods, Tpl)) + BatchSize + faults'
    <3>1. Num <= BatchSize /\ BatchSize \in Nat
      BY <1>1, <1>8, InplaceRolloutAssumption
    <3> QED BY <1>3, <1>5, <2>3, <2>4, <3>1
  <2>6. Cardinality(Reached(pods, Tpl) \cup {}) <= Num
    BY <1>3, <2>2, FS_EmptySet
  <2>7. pods' = pods /\ Tpl' = Tpl /\ Num' = Num /\ cur' = {} /\ Picked' = {} /\ rpc' = "idle"
        /\ ~Busy' /\ ips'.updateHash # Tpl' /\ desired' = desired
    BY <1>1, <1>2, <1>8
  <2> QED BY <1>1, <1>6, <1>8, <2>5, <2>6, <2>7 DEF CountInv
<1>9. CASE ~Resting
  <2> DEFINE stray  == Cardinality(Stray(pods, Tpl, cur))
             strayN == Cardinality(Stray(pods, Tpl, {}))
             done   == Cardinality(Done(pods, Tpl))
             listed == Cardinality(Done(podSnap, Tpl))
  <2>1. stray \in Nat /\ strayN \in Nat /\ done \in Nat /\ listed \in Nat
    BY SetCounts
  <2>2. strayN + faults <= stray + faults'
    <3>1. CASE cur = {}
      <4>1. strayN = stray
        BY <3>1
      <4>2. PICK s \in Nat, f \in Nat, g \in Nat : s = stray /\ s = strayN /\ f = faults /\ g = faults'
        BY <1>3, <1>5, <2>1, <4>1
      <4>3. s + f <= s + g
        BY <1>5, <4>2
      <4> HIDE DEF stray, strayN
      <4> QED BY <4>2, <4>3
    <3>2. CASE faults' = faults + 1
      <4>1. PICK p : cur \subseteq {p}
        BY DEF GroupInv, ListInv
      <4>2. Stray(pods, Tpl, {}) \in SUBSET (Stray(pods, Tpl, cur) \cup {p})
        BY <4>1 DEF Stray
      <4>3. strayN <= stray + 1
        BY <4>2, SetsOfPods, OneMore
      <4> HIDE DEF stray, strayN
      <4> QED BY <1>3, <2>1, <3>2, <4>3
    <3> QED BY <3>1, <3>2
  <2>3. /\ stray <= faults
        /\ Num + stray <= done + BatchSize + faults
        /\ ips.updateHash = Tpl => ips.updated + stray <= done + faults
        /\ listed + stray <= done + faults
        /\ rpc # "idle" => Num + stray <= done + faults
    BY <1>1, <1>4, <1>9 DEF CountInv
  <2>r. Cardinality(Reached(pods, Tpl) \cup Picked) <= Num
    BY <1>4, <1>9 DEF CountInv
  <2>4. ips'.updateHash = Tpl => \/ ips'.updated = ips.updated /\ ips.updateHash = Tpl
                                 \/ ips'.updated = listed
    <3>1. CASE CutOff
      BY <3>1 DEF CutOff
    <3>2. CASE UpdateStatus
      <4> SUFFICES ASSUME ips'.updateHash = Tpl PROVE ips'.updated = listed
        OBVIOUS
      <4>1. ips' = [ips EXCEPT !.available = Status(setSnap, podSnap).available,
                               !.updateHash = Status(setSnap, podSnap).updateHash,
                               !.updated = Status(setSnap, podSnap).updated]
        BY <3>2 DEF UpdateStatus
      <4>2. /\ ips'.updateHash \in {0, setSnap.template}
            /\ ips'.updateHash # 0 => ips'.updated = Cardinality(InplaceUpdatedPods(setSnap, podSnap))
        BY <4>1 DEF Status, UpdateStatusOf, SetType, InplaceSetObject
      <4>3. Tpl # 0 /\ setSnap.template = Tpl
        BY <1>3, <4>2, TemplateNotZero
      <4>4. InplaceUpdatedPods(setSnap, podSnap) = Done(podSnap, Tpl)
        BY <4>3 DEF InplaceUpdatedPods, Done, Tried
      <4> QED BY <4>2, <4>3, <4>4
    <3> QED BY <3>1, <3>2
  <2>5. Cardinality(Reached(pods, Tpl) \cup {}) <= Num
    <3>1. Picked \subseteq Pods
      BY DEF Picked, SetType
    <3>2. /\ Reached(pods, Tpl) \cup {} \in SUBSET (Reached(pods, Tpl) \cup Picked)
          /\ Reached(pods, Tpl) \cup Picked \in SUBSET Pods
      BY <3>1, SetsOfPods
    <3>3. /\ Cardinality(Reached(pods, Tpl) \cup {}) <= Cardinality(Reached(pods, Tpl) \cup Picked)
          /\ Cardinality(Reached(pods, Tpl) \cup {}) \in Nat
          /\ Cardinality(Reached(pods, Tpl) \cup Picked) \in Nat
      BY <3>2, Fewer
    <3> QED BY <1>3, <2>r, <3>3
  <2>6. ips.updated \in Nat /\ BatchSize \in Nat
    BY InplaceRolloutAssumption DEF SetType, InplaceSetObject
  <2>7. /\ strayN <= faults'
        /\ Num + strayN <= done + BatchSize + faults'
        /\ ips'.updateHash = Tpl => ips'.updated + strayN <= done + faults'
        /\ rpc # "idle" => Num + strayN <= done + faults'
    <3>p. PICK f \in Nat, g \in Nat, s \in Nat, sn \in Nat, d \in Nat, l \in Nat, n \in Nat, u \in Nat :
             /\ f = faults /\ g = faults' /\ s = stray /\ sn = strayN /\ d = done /\ l = listed
             /\ n = Num /\ u = ips.updated
      BY <1>3, <1>5, <2>1, <2>6
    <3>q. /\ s <= f /\ n + s <= d + BatchSize + f /\ l + s <= d + f
          /\ ips.updateHash = Tpl => u + s <= d + f
          /\ rpc # "idle" => n + s <= d + f
          /\ sn + f <= s + g
      BY <2>2, <2>3, <3>p
    <3> HIDE DEF stray, strayN, done, listed
    <3>r. /\ sn <= g /\ n + sn <= d + BatchSize + g /\ l + sn <= d + g
          /\ ips.updateHash = Tpl => u + sn <= d + g
          /\ rpc # "idle" => n + sn <= d + g
      BY <2>6, <3>q
    <3>1. /\ strayN <= faults'
          /\ Num + strayN <= done + BatchSize + faults'
          /\ rpc # "idle" => Num + strayN <= done + faults'
      BY <3>p, <3>r
    <3>2. /\ ips.updateHash = Tpl => ips.updated + strayN <= done + faults'
          /\ listed + strayN <= done + faults'
      BY <3>p, <3>r
    <3>3. ips'.updateHash = Tpl => ips'.updated + strayN <= done + faults'
      BY <2>4, <3>2
    <3> QED BY <3>1, <3>3
  <2>8. pods' = pods /\ Tpl' = Tpl /\ Num' = Num /\ cur' = {} /\ Picked' = {} /\ rpc' = rpc
        /\ ~Busy' /\ desired' = desired /\ ~Resting' /\ ~Late'
    BY <1>1, <1>2, <1>9
  <2> QED BY <1>6, <2>5, <2>7, <2>8 DEF CountInv
<1> QED BY <1>1, <1>7, <1>8, <1>9

LEMMA CountSet ==
    ASSUME GroupScope, SetType, GroupInv, SetNext, ~SyncStartStale, UNCHANGED rolloutVars,
           desired \in Nat
    PROVE  CountInv'
<1>0. EndInv'
  BY EndSet
<1>1. CASE SyncStart
  BY <1>1, CountStart
<1>2. CASE ManageReplicas \/ ManageReplicasFails
  BY <1>0, <1>2, CountManage
<1>3. CASE ManageInplaceUpdate
  BY <1>0, <1>3, CountNeed
<1>4. CASE TryFails
  BY <1>0, <1>4, CountFails
<1>5. CASE UpdateStatus
  <2>1. faults' = faults /\ (spc = "status" \/ todo = {})
    BY <1>5 DEF UpdateStatus
  <2>2. cur = {}
    BY <2>1 DEF GroupInv, ListInv
  <2> QED BY <1>5, <2>1, <2>2, CountEnd
<1>6. CASE SyncAborts
  <2>1. faults' = faults + 1 /\ CutOff
    BY <1>6 DEF SyncAborts, CutOff, Busy
  <2> QED BY <2>1, CountEnd
<1>7. ASSUME NEW p \in Pods, RefreshPod(p) PROVE CountInv'
  <2>1. CASE Ends
    <3>1. spc = "refresh" /\ UNCHANGED <<ips, faults>>
      BY <1>7 DEF RefreshPod
    <3>2. UNCHANGED pods
      <4>1. spc' # spc
        BY <2>1, <3>1 DEF Ends
      <4> QED BY <1>7, <4>1, RefreshCalm
    <3>3. CutOff /\ cur = {}
      BY <2>1, <3>1, <3>2 DEF CutOff, Busy, GroupInv, ListInv
    <3> QED BY <3>1, <3>3, CountEnd
  <2>2. CASE ~Ends
    BY <1>0, <1>7, <2>2, CountRefresh
  <2> QED BY <2>1, <2>2
<1>8. ASSUME NEW p \in Pods, CloseGate(p) \/ UpdatePodInPlace(p) PROVE CountInv'
  BY <1>0, <1>8, CountClose
<1>9. ASSUME NEW p \in Pods, Node(p) \/ PodLost(p) PROVE CountInv'
  BY <1>0, <1>9, CountNode
<1> QED BY <1>1, <1>2, <1>3, <1>4, <1>5, <1>6, <1>7, <1>8, <1>9 DEF SetNext, Reconcile

LEMMA ListSet ==
    ASSUME GroupScope, SetType, GroupInv, SetNext, ~SyncStartStale, UNCHANGED rolloutVars,
           desired \in Nat
    PROVE  ListInv'
<1>0. UNCHANGED desired /\ faults \in Nat
  BY DEF rolloutVars, SetType
<1>1. CASE SyncStart
  BY <1>0, <1>1, ListStart
<1>2. CASE ManageReplicas \/ ManageReplicasFails
  BY <1>0, <1>2, ListManage
<1>3. CASE ManageInplaceUpdate
  BY <1>0, <1>3, ListNeed
<1>4. CASE TryFails \/ UpdateStatus \/ SyncAborts
  <2>1. UNCHANGED pods /\ cur' = {} /\ todo' = {}
    BY <1>4 DEF TryFails, UpdateStatus, SyncAborts, Ends
  <2>2. spc' = "idle" \/ (spc = "try" /\ UNCHANGED <<spc, podSnap>>)
    BY <1>4 DEF TryFails, UpdateStatus, SyncAborts, Ends, snapVars
  <2>3. faults' = faults \/ faults' = faults + 1
    BY <1>4 DEF TryFails, UpdateStatus, SyncAborts
  <2>4. faults' = 0 => faults = 0
    BY <1>0, <2>3
  <2> QED BY <1>0, <2>1, <2>2, <2>4, ListEnds
<1>5. ASSUME NEW p \in Pods, RefreshPod(p) PROVE ListInv'
  BY <1>0, <1>5, ListRefresh
<1>6. ASSUME NEW p \in Pods, CloseGate(p) \/ UpdatePodInPlace(p) PROVE ListInv'
  BY <1>0, <1>6, ListTry
<1>7. ASSUME NEW p \in Pods, Node(p) \/ PodLost(p) PROVE ListInv'
  BY <1>0, <1>7, ListNode
<1> QED BY <1>1, <1>2, <1>3, <1>4, <1>5, <1>6, <1>7 DEF SetNext, Reconcile

LEMMA GroupSet ==
    ASSUME GroupScope, SetType, GroupInv, SetNext, ~SyncStartStale, UNCHANGED rolloutVars,
           desired \in Nat
    PROVE  GroupInv'
<1>1. SpecInv'
  BY SetSteps, SpecSet
<1> QED BY <1>1, ShapeSet, ListSet, EndSet, CountSet DEF GroupInv

-----------------------------------------------------------------------------
(* CountInv and the rollout                                                *)

LEMMA CountRaise ==
    ASSUME TypeOK, GroupInv, RaiseUpdatePodNum
    PROVE  CountInv'
<1>0. SpecInv /\ SetType /\ desired \in Nat /\ faults \in Nat /\ CountInv /\ BatchSize \in Nat
  BY InplaceRolloutAssumption DEF GroupInv, TypeOK, SetType
<1>1. /\ Tpl' = template /\ rpc' = "idle" /\ rpc = "manage" /\ Num' \in 1..desired
      /\ ips' = [ips EXCEPT !.template = template, !.updatePodNum = Num']
      /\ Num = 0 => template # Tpl /\ Num' <= BatchSize /\ (desired > 1 => Num' < desired)
      /\ Num > 0 => template = Tpl /\ Num' > Num /\ Num' <= Num + BatchSize
                    /\ ips.updateHash = Tpl
      /\ UNCHANGED <<pods, spc, setSnap, podSnap, todo, cur, faults, desired>>
  BY <1>0, RaiseEffect
<1>2. /\ (Busy' <=> Busy) /\ Num' # 0 /\ Num' \in Nat /\ Num \in Nat /\ Picked' = Picked
      /\ ips'.updateHash = ips.updateHash /\ ips'.updated = ips.updated
      /\ template \in Templates /\ Tpl \in Templates
  BY <1>0, <1>1, AimType DEF Busy, Picked, SetType, InplaceSetObject, TypeOK
<1>3. CASE Num = 0
  <2>1. /\ AllAt(Tpl) /\ (Busy => setSnap.template = Tpl) /\ Aim = Tpl /\ Resting
        /\ ips.updateHash \in {0, Tpl} /\ Cardinality(OutOf(pods)) <= faults
    BY <1>0, <1>3 DEF GroupInv, EndInv, SpecInv, Finished, Resting, Aim, CountInv
  <2>2. CASE Busy
    <3>1. Resting' /\ Aim' = Aim /\ (Late' <=> Late)
      BY <1>1, <1>2, <1>3, <2>1, <2>2 DEF Resting, Aim, Late
    <3>2. pods' = pods /\ faults' = faults /\ desired' = desired /\ Picked' = Picked
      BY <1>1, <1>2
    <3>3. desired > 1 => Num' < desired
      BY <1>1, <1>3
    <3> QED BY <1>0, <2>1, <3>1, <3>2, <3>3 DEF CountInv
  <2>3. CASE ~Busy
    <3>1. ~Resting' /\ ~Late' /\ ~Busy'
      BY <1>1, <1>2, <2>3 DEF Resting, Late
    <3>2. Picked = {} /\ ips'.updateHash # Tpl'
      BY <1>1, <1>2, <1>3, <2>1, <2>3, TemplateNotZero DEF Picked, Busy
    <3>3. Reached(pods, template) = {}
      BY <1>1, <1>2, <1>3, <2>1, TemplateNotZero DEF AllAt, At, Reached, Live
    <3>4. Cardinality(Reached(pods, template) \cup Picked) <= Num'
      BY <1>2, <3>2, <3>3, FS_EmptySet
    <3>5. /\ Cardinality(Stray(pods, template, cur)) <= Cardinality(OutOf(pods))
          /\ Cardinality(Stray(pods, template, cur)) \in Nat /\ Cardinality(OutOf(pods)) \in Nat
          /\ Cardinality(Done(pods, template)) \in Nat
      BY SetCounts
    <3>6. /\ Cardinality(Stray(pods, template, cur)) <= faults
          /\ Num' + Cardinality(Stray(pods, template, cur))
               <= Cardinality(Done(pods, template)) + BatchSize + faults
      <4>1. Num' <= BatchSize
        BY <1>1, <1>3
      <4>2. PICK s \in Nat, d \in Nat, o \in Nat :
               /\ s = Cardinality(Stray(pods, template, cur)) /\ d = Cardinality(Done(pods, template))
               /\ o = Cardinality(OutOf(pods))
        BY <3>5
      <4>3. s <= faults /\ Num' + s <= d + BatchSize + faults
        BY <1>0, <1>2, <2>1, <3>5, <4>1, <4>2
      <4> QED BY <4>2, <4>3
    <3>7. pods' = pods /\ faults' = faults /\ desired' = desired /\ Picked' = Picked /\ cur' = cur
          /\ Tpl' = template /\ rpc' = "idle"
      BY <1>1, <1>2
    <3>8. desired > 1 => Num' < desired
      BY <1>1, <1>3
    <3> QED BY <3>1, <3>2, <3>4, <3>6, <3>7, <3>8 DEF CountInv
  <2> QED BY <2>2, <2>3
<1>4. CASE Num > 0
  <2>1. Tpl' = Tpl /\ ~Resting /\ ~Resting' /\ ~Late'
    BY <1>0, <1>1, <1>2, <1>4 DEF SpecInv, Resting, Late
  <2> DEFINE stray == Cardinality(Stray(pods, Tpl, cur))
             done  == Cardinality(Done(pods, Tpl))
             out   == Cardinality(Reached(pods, Tpl) \cup Picked)
  <2>2. stray \in Nat /\ done \in Nat /\ out \in Nat
    <3>1. Reached(pods, Tpl) \cup Picked \in SUBSET Pods
      BY <1>0, SetsOfPods DEF Picked, SetType
    <3> QED BY <3>1, SetCounts, Fewer
  <2>3. /\ stray <= faults /\ out <= Num /\ Num + stray <= done + faults
        /\ ips.updateHash = Tpl => ips.updated + stray <= done + faults
        /\ Busy => Cardinality(Done(podSnap, Tpl)) + stray <= done + faults
    BY <1>0, <1>1, <2>1 DEF CountInv
  <2>4. /\ Num' + stray <= done + BatchSize + faults /\ out <= Num'
        /\ faults = 0 => done # 0
    <3>1. PICK s \in Nat, d \in Nat, o \in Nat, n \in Nat, m \in Nat, f \in Nat :
             s = stray /\ d = done /\ o = out /\ n = Num /\ m = Num' /\ f = faults
      BY <1>0, <1>2, <2>2
    <3>2. n + s <= d + f /\ o <= n
      BY <2>3, <3>1
    <3>3. m <= n + BatchSize /\ m > n /\ n > 0
      BY <1>1, <1>4, <3>1
    <3> HIDE DEF stray, done, out
    <3>4. m + s <= d + BatchSize + f /\ o <= m /\ (f = 0 => d # 0)
      BY <1>0, <3>2, <3>3
    <3> QED BY <3>1, <3>4
  <2>5. faults = 0 => Done(pods, Tpl) # {}
    BY <2>4, FS_EmptySet
  <2>6. pods' = pods /\ faults' = faults /\ desired' = desired /\ Picked' = Picked /\ cur' = cur
        /\ rpc' = "idle" /\ podSnap' = podSnap /\ (Busy' <=> Busy)
        /\ ips'.updateHash = ips.updateHash /\ ips'.updated = ips.updated
    BY <1>1, <1>2
  <2> QED BY <2>1, <2>3, <2>4, <2>5, <2>6 DEF CountInv
<1> QED BY <1>2, <1>3, <1>4

LEMMA CountClean ==
    ASSUME TypeOK, GroupInv, CleanAfterSaturated
    PROVE  CountInv'
<1>0. SpecInv /\ SetType /\ desired \in Nat /\ faults \in Nat /\ CountInv
  BY InplaceRolloutAssumption DEF GroupInv, TypeOK, SetType
<1>1. /\ UNCHANGED <<pods, spc, setSnap, podSnap, todo, cur, faults, desired>>
      /\ Num' = 0 /\ Tpl' = Tpl /\ rpc = "clean" /\ Num \in {0, desired}
      /\ Num > 0 => ips.updateHash = Tpl
  BY <1>0, CleanEffect
<1>2. /\ Resting' /\ Aim' = Aim /\ Num \in Nat /\ Picked' = Picked /\ (Busy' <=> Busy)
      /\ Aim \in Templates
  BY <1>0, <1>1, AimType DEF Resting, Aim, Busy, Picked
<1>3. Late' <=> Busy /\ setSnap.updatePodNum > 0
  BY <1>1, <1>2 DEF Late
<1>4. pods' = pods /\ faults' = faults /\ desired' = desired
  BY <1>1
<1>5. CASE Num = 0
  <2>1. Resting /\ (Late' <=> Late)
    BY <1>3, <1>5 DEF Resting, Late
  <2> QED BY <1>0, <1>1, <1>2, <1>4, <2>1 DEF CountInv
<1>6. CASE Num # 0
  <2>1. Num = desired /\ ~Resting /\ Aim = Tpl
    <3>1. Busy => setSnap.template = Tpl
      BY <1>0, <1>1, <1>2, <1>6 DEF SpecInv
    <3> QED BY <1>1, <1>6, <3>1 DEF Resting, Aim
  <2>2. Cardinality(Reached(pods, Aim) \cup Picked) <= desired
    BY <1>0, <2>1 DEF CountInv
  <2>3. desired <= Cardinality(Done(pods, Aim)) + faults
    <3>1. Num + Cardinality(Stray(pods, Tpl, cur)) <= Cardinality(Done(pods, Tpl)) + faults
      BY <1>0, <1>1, <2>1 DEF CountInv
    <3>2. PICK s \in Nat, d \in Nat :
             s = Cardinality(Stray(pods, Tpl, cur)) /\ d = Cardinality(Done(pods, Tpl))
      BY SetCounts
    <3>3. desired + s <= d + faults
      BY <2>1, <3>1, <3>2
    <3>4. desired <= d + faults
      BY <1>0, <3>3
    <3> QED BY <2>1, <3>2, <3>4
  <2>4. \A q \in Pods : pods[q].live => At(pods[q], Aim)
    BY <1>1 DEF GroupInv, EndInv, Finished, AllAt
  <2>5. Cardinality(Reached(pods, Aim)) <= desired
    <3>1. Reached(pods, Aim) \cup Picked \in SUBSET Pods
      BY <1>0, SetsOfPods DEF Picked, SetType
    <3>2. /\ Cardinality(Reached(pods, Aim)) <= Cardinality(Reached(pods, Aim) \cup Picked)
          /\ Cardinality(Reached(pods, Aim)) \in Nat /\ Cardinality(Reached(pods, Aim) \cup Picked) \in Nat
      BY <3>1, Fewer
    <3> QED BY <1>0, <2>2, <3>2
  <2>6. Cardinality(OutOf(pods)) <= faults
    BY <1>0, <2>3, <2>4, <2>5, OutWhenAt
  <2> QED BY <1>1, <1>2, <1>4, <2>2, <2>3, <2>6 DEF CountInv
<1> QED BY <1>5, <1>6

\* The rollout begins or gives up a reconcile, or the user edits the template.
LEMMA CountSame ==
    ASSUME SetType, GroupInv, UNCHANGED <<ips, pods, spc, setSnap, podSnap, todo, cur, desired>>,
           faults' = faults \/ faults' = faults + 1,
           rpc' \in {rpc, "idle"} \/ (Num > 0 => ips.updateHash = Tpl /\ ips.updated >= Num)
    PROVE  CountInv'
<1>1. /\ Tpl' = Tpl /\ Num' = Num /\ (Busy' <=> Busy) /\ (Resting' <=> Resting) /\ Aim' = Aim
      /\ (Late' <=> Late) /\ Picked' = Picked
  BY DEF Tpl, Num, Busy, Resting, Aim, Late, Picked
<1>2. pods' = pods /\ desired' = desired /\ cur' = cur /\ podSnap' = podSnap /\ ips' = ips
  OBVIOUS
<1>3. /\ Num \in Nat /\ faults \in Nat /\ faults' \in Nat /\ faults' >= faults /\ ips.updated \in Nat
      /\ BatchSize \in Nat /\ CountInv
  BY AimType, InplaceRolloutAssumption DEF SetType, InplaceSetObject, GroupInv
<1>4. Resting => Cardinality(OutOf(pods)) <= faults'
  <2>1. Resting => Cardinality(OutOf(pods)) <= faults
    BY <1>3 DEF CountInv
  <2>2. Cardinality(OutOf(pods)) \in Nat
    BY SetCounts
  <2> QED BY <1>3, <2>1, <2>2
<1>5. Late => /\ desired <= Cardinality(Done(pods, Aim)) + faults'
              /\ Cardinality(Reached(pods, Aim) \cup Picked) <= desired
  <2> SUFFICES ASSUME Late PROVE desired <= Cardinality(Done(pods, Aim)) + faults'
    BY <1>3 DEF CountInv
  <2>1. PICK d \in Nat, f \in Nat, g \in Nat :
           d = Cardinality(Done(pods, Aim)) /\ f = faults /\ g = faults' /\ f <= g
    BY <1>3, SetCounts
  <2>2. desired <= d + f
    BY <1>3, <2>1 DEF CountInv
  <2>3. desired \in Nat
    BY <1>3 DEF GroupInv, SpecInv, SetType, InplaceSetObject
  <2>4. desired <= d + g
    BY <2>1, <2>2, <2>3
  <2> QED BY <2>1, <2>4
<1>6. ~Resting =>
          LET stray == Cardinality(Stray(pods, Tpl, cur))
              done  == Cardinality(Done(pods, Tpl))
          IN  /\ stray <= faults'
              /\ Num + stray <= done + BatchSize + faults'
              /\ Cardinality(Reached(pods, Tpl) \cup Picked) <= Num
              /\ ips.updateHash = Tpl => ips.updated + stray <= done + faults'
              /\ Busy => Cardinality(Done(podSnap, Tpl)) + stray <= done + faults'
              /\ rpc' # "idle" => Num + stray <= done + faults'
  <2> SUFFICES ASSUME ~Resting
               PROVE  LET stray == Cardinality(Stray(pods, Tpl, cur))
                          done  == Cardinality(Done(pods, Tpl))
                      IN  /\ stray <= faults'
                          /\ Num + stray <= done + BatchSize + faults'
                          /\ ips.updateHash = Tpl => ips.updated + stray <= done + faults'
                          /\ Busy => Cardinality(Done(podSnap, Tpl)) + stray <= done + faults'
                          /\ rpc' # "idle" => Num + stray <= done + faults'
    BY <1>3 DEF CountInv
  <2>1. PICK s \in Nat, d \in Nat, l \in Nat, n \in Nat, f \in Nat, g \in Nat, u \in Nat :
           /\ s = Cardinality(Stray(pods, Tpl, cur)) /\ d = Cardinality(Done(pods, Tpl))
           /\ l = Cardinality(Done(podSnap, Tpl)) /\ n = Num /\ f = faults /\ g = faults'
           /\ u = ips.updated
    BY <1>3, SetCounts
  <2>2. /\ s <= f /\ n + s <= d + BatchSize + f
        /\ ips.updateHash = Tpl => u + s <= d + f
        /\ Busy => l + s <= d + f
        /\ rpc # "idle" => n + s <= d + f
    BY <1>3, <2>1 DEF CountInv
  <2>3. f <= g /\ n # 0
    BY <1>3, <2>1, AimOfUpdate
  <2>4. rpc' # "idle" => n + s <= d + f
    <3>1. CASE rpc' \in {rpc, "idle"}
      BY <2>2, <3>1
    <3>2. CASE Num > 0 => ips.updateHash = Tpl /\ ips.updated >= Num
      <4>1. n > 0 => ips.updateHash = Tpl /\ u >= n
        BY <2>1, <3>2
      <4>2. u + s <= d + f /\ u >= n
        BY <2>2, <2>3, <4>1
      <4> QED BY <4>2
    <3> QED BY <3>1, <3>2
  <2>5. /\ s <= g /\ n + s <= d + BatchSize + g
        /\ ips.updateHash = Tpl => u + s <= d + g
        /\ Busy => l + s <= d + g
        /\ rpc' # "idle" => n + s <= d + g
    BY <1>3, <2>2, <2>3, <2>4
  <2> QED BY <2>1, <2>5
<1>7. faults' = 0 /\ Num > 0 /\ desired > 1 => Num < desired \/ Done(pods, Tpl) # {}
  BY <1>3 DEF CountInv
<1> QED BY <1>1, <1>2, <1>4, <1>5, <1>6, <1>7 DEF CountInv

LEMMA GroupRollout ==
    ASSUME TypeOK, GroupInv, Rollout \/ RolloutAborts
    PROVE  GroupInv'
<1>0. SpecInv /\ SetType
  BY DEF GroupInv, TypeOK, SetType
<1>1. CountInv'
  <2>1. CASE RolloutStart
    <3>1. /\ UNCHANGED <<ips, pods, spc, setSnap, podSnap, todo, cur, faults, desired>>
          /\ Num > 0 => ips.updateHash = Tpl /\ ips.updated >= Num
      BY <1>0, <2>1, StartEffect
    <3> QED BY <1>0, <3>1, CountSame
  <2>2. CASE RaiseUpdatePodNum
    BY <2>2, CountRaise
  <2>3. CASE CleanAfterSaturated
    BY <2>3, CountClean
  <2>4. CASE RolloutAborts
    <3>1. UNCHANGED <<ips, pods, spc, setSnap, podSnap, todo, cur, desired>> /\ rpc' = "idle"
          /\ faults' = faults + 1
      BY <2>4 DEF RolloutAborts, RolloutEnds, snapVars
    <3> QED BY <1>0, <3>1, CountSame
  <2> QED BY <1>0, <2>1, <2>2, <2>3, <2>4, NeverScaled DEF Rollout
<1> QED BY <1>1, SpecRollout, RolloutPods DEF GroupInv

LEMMA GroupUser ==
    ASSUME GroupScope, TypeOK, GroupInv, NEW t \in Templates, UserApply(t)
    PROVE  GroupInv'
<1>0. SetType
  BY DEF TypeOK, SetType
<1>1. SpecInv' /\ UNCHANGED <<ips, desired, rpc, faults, pods, podSnap, setSnap, spc, todo, cur>>
  BY SpecUser
<1>2. CountInv'
  BY <1>0, <1>1, CountSame
<1>3. /\ Tpl' = Tpl /\ Num' = Num /\ (Busy' <=> Busy) /\ (Resting' <=> Resting) /\ Aim' = Aim
      /\ Done(podSnap, Tpl)' = Done(podSnap, Tpl)
  BY <1>1 DEF Tpl, Num, Busy, Resting, Aim, Done, Live, Completed
<1>4. ListInv' /\ ShapeInv'
  <2>1. ~Resting => \A q \in Pods : Foreign(pods[q], Tpl)
    BY DEF GroupInv, ShapeInv, Foreign
  <2> QED BY <1>1, <1>3, <2>1, OthersListShape
<1>5. Finished' => Finished
  BY <1>1, <1>3 DEF Finished
<1>6. EndInv'
  BY <1>1, <1>3, <1>5, OthersEnd
<1> QED BY <1>1, <1>2, <1>4, <1>6 DEF GroupInv

-----------------------------------------------------------------------------
(* The specification                                                       *)

LEMMA GroupInit ==
    ASSUME Init
    PROVE  GroupInv
<1>1. /\ ips = [NoSet EXCEPT !.replicas = desired, !.available = desired] /\ desired \in Nat
      /\ spc = "idle" /\ todo = {} /\ cur = {} /\ faults = 0 /\ template = 1 /\ rpc = "idle"
      /\ desired \in Sizes
  BY InplaceRolloutAssumption DEF Init, SetInit
<1>2. /\ Num = 0 /\ Tpl = 1 /\ ips.replicas = desired /\ ips.updateHash = 0
      /\ ~Busy /\ Aim = 1 /\ Resting /\ ~Late
  BY <1>1 DEF Num, Tpl, NoSet, Busy, Aim, Resting, Late
<1>3. PICK P \in SUBSET Pods : /\ Cardinality(P) = desired
                               /\ pods = [p \in Pods |-> IF p \in P THEN Serving(1) ELSE NoPod]
  <2>1. \E P : P \in Subsets(Pods, desired)
    BY <1>1, FiniteSubset, EnoughPods, InplaceSetAssumption DEF Subsets
  <2>2. (CHOOSE P \in Subsets(Pods, desired) : TRUE) \in Subsets(Pods, desired)
    BY <2>1
  <2>3. pods = [p \in Pods |-> IF p \in CHOOSE P \in Subsets(Pods, desired) : TRUE
                               THEN Serving(1) ELSE NoPod]
    BY DEF Init, SetInit
  <2> QED BY <2>2, <2>3 DEF Subsets
<1>4. /\ \A p \in Pods : pods[p] = Serving(1) \/ pods[p] = NoPod
      /\ \A p \in Pods : pods[p].live <=> p \in P
  BY <1>3, GateConstants DEF Serving, NoPod, Created
<1>5. /\ Coherent(Serving(1)) /\ Coherent(NoPod)
      /\ At(Serving(1), 1) /\ Serving(1).state = 0 /\ NoPod.live = FALSE
  BY DEF Coherent, Serving, NoPod, Created, Out, Completed, At
<1>6. ShapeInv
  BY <1>1, <1>2, <1>4, <1>5 DEF ShapeInv
<1>7. Live(pods) = P
  BY <1>4 DEF Live
<1>8. ListInv
  BY <1>1, <1>2, <1>3, <1>7 DEF ListInv
<1>9. SpecInv
  BY <1>1, <1>2 DEF SpecInv
<1>10. EndInv
  BY <1>2, <1>4, <1>5 DEF EndInv, AllAt
<1>11. OutOf(pods) = {}
  BY <1>4, <1>5 DEF OutOf, Live
<1>12. CountInv
  <2>1. Cardinality(OutOf(pods)) = 0
    BY <1>11, FS_EmptySet
  <2> QED BY <1>1, <1>2, <2>1 DEF CountInv
<1> QED BY <1>6, <1>8, <1>9, <1>10, <1>12 DEF GroupInv

LEMMA GroupStutter ==
    ASSUME TypeOK, GroupInv, UNCHANGED vars
    PROVE  GroupInv'
<1>0. SetType
  BY DEF TypeOK, SetType
<1>1. UNCHANGED <<ips, pods, spc, setSnap, podSnap, todo, cur, desired, faults, rpc, seen, template>>
  BY DEF vars, setVars, rolloutVars
<1>2. CountInv'
  BY <1>0, <1>1, CountSame
<1>3. /\ Tpl' = Tpl /\ Num' = Num /\ (Busy' <=> Busy) /\ (Resting' <=> Resting) /\ Aim' = Aim
      /\ Done(podSnap, Tpl)' = Done(podSnap, Tpl)
  BY <1>1 DEF Tpl, Num, Busy, Resting, Aim, Done, Live, Completed
<1>4. ListInv' /\ ShapeInv'
  <2>1. ~Resting => \A q \in Pods : Foreign(pods[q], Tpl)
    BY DEF GroupInv, ShapeInv, Foreign
  <2> QED BY <1>1, <1>3, <2>1, OthersListShape
<1>5. Finished' => Finished
  BY <1>1, <1>3 DEF Finished
<1>6. EndInv'
  BY <1>1, <1>3, <1>5, OthersEnd
<1>7. SpecInv'
  BY <1>1, <1>3 DEF GroupInv, SpecInv
<1> QED BY <1>2, <1>4, <1>6, <1>7 DEF GroupInv

LEMMA GroupStep ==
    ASSUME GroupScope, TypeOK, GroupInv, [Next]_vars, NoScaling \/ UNCHANGED vars, ~SyncStartStale
    PROVE  GroupInv'
<1>1. SetType /\ desired \in Nat
  BY InplaceRolloutAssumption DEF TypeOK, SetType
<1>2. CASE SetNext /\ UNCHANGED rolloutVars
  BY <1>1, <1>2, GroupSet
<1>3. CASE Rollout \/ RolloutAborts
  BY <1>3, GroupRollout
<1>4. ASSUME NEW t \in Templates, UserApply(t) PROVE GroupInv'
  BY <1>4, GroupUser
<1>5. CASE UNCHANGED vars
  BY <1>5, GroupStutter
<1> QED BY <1>2, <1>3, <1>4, <1>5 DEF Next, NoScaling

\* A stale list of pods is a fault.
LagFault == lags = 0 \/ faults > 0

LEMMA LagFaultStep ==
    ASSUME TypeOK, LagFault, [Next]_vars
    PROVE  LagFault'
<1>1. CASE SyncStartStale
  BY <1>1 DEF SyncStartStale, TypeOK, LagFault
<1>2. CASE ~SyncStartStale
  <2>1. lags' = lags
    BY <1>2, LagsStay DEF TypeOK
  <2>2. faults' = faults \/ faults' = faults + 1
    <3>1. SyncStart \/ ManageReplicas \/ ManageReplicasFails \/ ManageInplaceUpdate \/ TryFails
            \/ UpdateStatus \/ SyncAborts => faults' = faults \/ faults' = faults + 1
      BY DEF SyncStart, ManageReplicas, ManageReplicasFails, ManageInplaceUpdate, TryFails,
             UpdateStatus, SyncAborts
    <3>2. \A p \in Pods : RefreshPod(p) \/ CloseGate(p) \/ UpdatePodInPlace(p) => faults' = faults
      BY DEF RefreshPod, CloseGate, UpdatePodInPlace
    <3>3. \A p \in Pods : Node(p) \/ PodLost(p) => faults' = faults \/ faults' = faults + 1
      BY DEF Node, ContainerRestarts, KubeletReports, GraceElapses, PodLost
    <3>4. SetNext => faults' = faults \/ faults' = faults + 1
      BY <1>2, <3>1, <3>2, <3>3 DEF SetNext, Reconcile
    <3>5. ~SetNext => faults' = faults \/ faults' = faults + 1
      BY DEF Next, Rollout, RolloutAborts, RolloutStart, RaiseUpdatePodNum, ScaleSubset,
             CleanAfterSaturated, UserApply, UserScale, vars, setVars
    <3> QED BY <3>4, <3>5
  <2>3. faults \in Nat
    BY DEF TypeOK
  <2>4. faults > 0 => faults' > 0
    BY <2>2, <2>3
  <2> QED BY <2>1, <2>4 DEF LagFault
<1> QED BY <1>1, <1>2

-----------------------------------------------------------------------------
(* What the invariant says                                                 *)

\* In an update the pods out of service are reached or in hand and not done, or
\* strays.
LEMMA OutBound ==
    ASSUME SetType, GroupInv, ~Resting
    PROVE  Cardinality(OutOf(pods)) + Cardinality(Done(pods, Tpl)) <= Num + Cardinality(Stray(pods, Tpl, cur))
<1> DEFINE R == Reached(pods, Tpl) \cup Picked
           D == Done(pods, Tpl)
           S == Stray(pods, Tpl, cur)
           O == OutOf(pods)
<1>1. R \in SUBSET Pods /\ D \in SUBSET Pods /\ S \in SUBSET Pods /\ O \in SUBSET Pods /\ D \in SUBSET R
  BY SetsOfPods DEF Picked, SetType
<1>2. O \in SUBSET (S \cup (R \ D))
  <2>1. cur \subseteq Picked
    BY DEF GroupInv, ListInv, Picked
  <2> QED BY <2>1 DEF OutOf, Stray, Reached, Done, Live
<1>3. Cardinality(R) <= Num /\ Num \in Nat
  BY AimType DEF GroupInv, CountInv
<1> HIDE DEF R, D, S, O
<1>4. /\ IsFiniteSet(R) /\ Cardinality(R) \in Nat /\ Cardinality(D) \in Nat
      /\ R \cap D = D /\ S \cup (R \ D) \in SUBSET Pods /\ R \ D \in SUBSET Pods
  BY <1>1, Fewer
<1>5. Cardinality(R \ D) = Cardinality(R) - Cardinality(R \cap D)
  BY <1>4, FS_Difference
<1>6. /\ Cardinality(S \cup (R \ D)) <= Cardinality(S) + Cardinality(R \ D)
      /\ Cardinality(S) \in Nat /\ Cardinality(R \ D) \in Nat /\ Cardinality(S \cup (R \ D)) \in Nat
  BY <1>1, <1>4, TwoSets
<1>7. /\ Cardinality(O) <= Cardinality(S \cup (R \ D)) /\ Cardinality(O) \in Nat
  BY <1>2, <1>4, Fewer
<1>8. Cardinality(O) + Cardinality(D) <= Num + Cardinality(S)
  <2>1. PICK o \in Nat, d \in Nat, r \in Nat, s \in Nat, n \in Nat, x \in Nat, y \in Nat :
           /\ o = Cardinality(O) /\ d = Cardinality(D) /\ r = Cardinality(R) /\ s = Cardinality(S)
           /\ n = Num /\ x = Cardinality(R \ D) /\ y = Cardinality(S \cup (R \ D))
    BY <1>3, <1>4, <1>6, <1>7
  <2>2. x = r - d /\ y <= s + x /\ o <= y /\ r <= n
    BY <1>3, <1>4, <1>5, <1>6, <1>7, <2>1
  <2>3. o + d <= n + s
    BY <2>2
  <2> QED BY <2>1, <2>3
<1> QED BY <1>8 DEF O, D, S

LEMMA GroupHolds ==
    ASSUME TypeOK, GroupInv
    PROVE  /\ Cardinality(OutOf(pods)) <= BatchSize + faults
           /\ Num = 0 => AllAt(Tpl)
           /\ NeverAllOut
<1>0. SetType /\ faults \in Nat /\ BatchSize \in Nat /\ Num \in Nat /\ desired \in Nat
  BY AimType, InplaceRolloutAssumption DEF TypeOK, SetType
<1>1. PICK o \in Nat, d \in Nat, s \in Nat :
         /\ o = Cardinality(OutOf(pods)) /\ d = Cardinality(Done(pods, Tpl))
         /\ s = Cardinality(Stray(pods, Tpl, cur))
  BY SetCounts
<1>2. Resting => o <= faults
  BY <1>1 DEF GroupInv, CountInv
<1>3. ~Resting => o + d <= Num + s /\ Num + s <= d + BatchSize + faults /\ s <= faults
  <2>1. ~Resting => o + d <= Num + s
    BY <1>0, <1>1, OutBound
  <2> QED BY <1>1, <2>1 DEF GroupInv, CountInv
<1>4. o <= BatchSize + faults
  <2>1. PICK n \in Nat, f \in Nat : n = Num /\ f = faults
    BY <1>0
  <2>2. Resting => o <= f
    BY <1>2, <2>1
  <2>3. ~Resting => o + d <= n + s /\ n + s <= d + BatchSize + f
    BY <1>3, <2>1
  <2>4. o <= BatchSize + f
    BY <1>0, <2>2, <2>3
  <2> QED BY <2>1, <2>4
<1>5. Num = 0 => AllAt(Tpl)
  <2> SUFFICES ASSUME Num = 0 PROVE AllAt(Tpl)
    OBVIOUS
  <2>1. Resting /\ (Busy => setSnap.template = Tpl)
    BY DEF Resting, GroupInv, SpecInv
  <2>2. Aim = Tpl
    BY <2>1 DEF Aim
  <2> QED BY <2>1, <2>2 DEF GroupInv, EndInv, Finished
<1>6. NeverAllOut
  <2> SUFFICES ASSUME faults = 0, Cardinality(Live(pods)) > 1,
                      \A p \in Live(pods) : ~(pods[p].ready \/ pods[p].state = 0)
               PROVE  FALSE
    BY DEF NeverAllOut
  <2>1. Cardinality(Live(pods)) = desired /\ desired > 1
    BY DEF GroupInv, ListInv
  <2>2. OutOf(pods) = Live(pods)
    BY DEF OutOf
  <2>3. o = desired
    BY <1>1, <2>1, <2>2
  <2>4. ~Resting /\ s = 0 /\ o + d <= Num
    <3>1. ~Resting
      BY <1>0, <1>2, <2>1, <2>3
    <3>2. s = 0
      BY <1>3, <3>1
    <3> QED BY <1>0, <1>3, <3>1, <3>2
  <2>5. Done(pods, Tpl) = {}
    BY DEF Done
  <2>6. Num # 0
    BY <2>4, AimOfUpdate
  <2>7. Num < desired
    BY <1>0, <2>1, <2>5, <2>6 DEF GroupInv, CountInv
  <2> QED BY <1>0, <2>3, <2>4, <2>7
<1> QED BY <1>1, <1>4, <1>5, <1>6

\* GroupInv holds as long as no list of pods was stale.
GroupKept == (lags = 0 => GroupInv) /\ LagFault

LEMMA GroupAlways ==
    ASSUME GroupScope
    PROVE  Spec /\ [][NoScaling]_vars => [](TypeOK /\ GroupKept)
<1>1. Init => GroupKept
  <2>1. Init => lags = 0
    BY DEF Init, SetInit
  <2> QED BY <2>1, GroupInit DEF GroupKept, LagFault
<1>2. TypeOK /\ GroupKept /\ [Next]_vars /\ [NoScaling]_vars => GroupKept'
  <2> SUFFICES ASSUME TypeOK, GroupKept, [Next]_vars, [NoScaling]_vars PROVE GroupKept'
    OBVIOUS
  <2>1. LagFault'
    BY LagFaultStep DEF GroupKept
  <2>2. lags' = 0 => lags = 0 /\ ~SyncStartStale
    BY LagsStay DEF TypeOK
  <2>3. ASSUME lags' = 0 PROVE GroupInv'
    BY <2>2, <2>3, GroupStep DEF GroupKept
  <2> QED BY <2>1, <2>3 DEF GroupKept
<1> QED BY <1>1, <1>2, TypeCorrect, PTL DEF Spec

\* Pods with the readiness gate, edits of the template one after the other, a size
\* that is not changed: for every number of pods, size of a group and grace
\* period, and whatever pods are lost, calls fail or reconciles are cut off, the
\* pods that are out of service for an update are at most a group and one for
\* each fault, because CheckInplaceUpdate raises updatePodNum only once the
\* status reports the pods counted so far, and getNeedInplaceUpdatePods never
\* chooses more than updatePodNum.  (As long as no list of pods was stale.)
THEOREM GroupsDoNotOverlap ==
    ASSUME GroupScope
    PROVE  Spec /\ [][NoScaling]_vars => []OneGroupUpdating
<1>1. TypeOK /\ GroupKept => OneGroupUpdating
  BY GroupHolds DEF GroupKept, OneGroupUpdating, OutOf
<1> QED BY <1>1, GroupAlways, PTL

\* For the same deployments: when cleanAfterSaturated has removed the update
\* spec, every pod has the images of the template, also one that was created,
\* lost or given up on the way.
THEOREM UpdatedWhenOver ==
    ASSUME GroupScope
    PROVE  Spec /\ [][NoScaling]_vars => []UpdatedAtTheEnd
<1>1. TypeOK /\ GroupKept => UpdatedAtTheEnd
  <2>1. AllAt(Tpl) => \A p \in Live(pods) : pods[p].image = ips.template
    BY DEF AllAt, At, Live, Tpl
  <2> QED BY <2>1, GroupHolds DEF GroupKept, UpdatedAtTheEnd, Num
<1> QED BY <1>1, GroupAlways, PTL

\* For the same deployments, until the first fault: a region of more than one pod
\* keeps one that the update has not taken out of service, even if a group is as
\* large as the region, because the first group is then one pod
\* (CheckInplaceUpdate) and the next waits for it.
THEOREM SomePodServes ==
    ASSUME GroupScope
    PROVE  Spec /\ [][NoScaling]_vars => []NeverAllOut
<1>1. TypeOK /\ GroupKept => NeverAllOut
  <2> SUFFICES ASSUME TypeOK, GroupKept, faults = 0 PROVE NeverAllOut
    BY DEF NeverAllOut
  <2>1. lags = 0
    BY DEF GroupKept, LagFault
  <2> QED BY <2>1, GroupHolds DEF GroupKept
<1> QED BY <1>1, GroupAlways, PTL

=============================================================================
