----------------------------- MODULE InplaceSet -----------------------------
(***************************************************************************)
(* The InplaceSet controller: it keeps spec.replicas pods of one subset    *)
(* running and, when the update spec in the annotations of the InplaceSet  *)
(* says so, replaces the images of a number of its pods in place.          *)
(*                                                                         *)
(* An in-place update of a pod takes the pod out of service (readiness     *)
(* gate), records the new images in the pod's annotations, waits for the   *)
(* grace period, patches the images, waits for the kubelet to restart the  *)
(* container, and lets the pod serve again.  These steps are taken by      *)
(* different reconciles, each working from the pods it listed when it      *)
(* started.  spc says where the reconcile is; setSnap and podSnap are what *)
(* it read, todo and cur its loops.                                        *)
(***************************************************************************)
EXTENDS Integers, FiniteSets

CONSTANTS
    Pods,          \* names of pods, more than ever live together
    Templates,     \* pod templates 1..n that differ in their images only
    BurstReplicas, \* the flag burst-replicas: pods created or deleted at once
    ReadinessGate, \* does the template have the gate InPlaceUpdateReady?
    GracePeriod,   \* is gracePeriodSeconds above zero?
    MaxFaults      \* bound on lost pods, failed calls, restarts and stale lists

VARIABLES
    ips,     \* the InplaceSet in the API server
    pods,    \* [Pods -> Pod], the pods in the API server
    elapsed, \* the pods whose grace period is over
    spc, setSnap, podSnap, todo, cur, \* the reconcile in progress
    lags,    \* history: the reconciles that worked from a stale list of pods
    faults   \* the faults so far

setVars == <<ips, pods, elapsed, spc, setSnap, podSnap, todo, cur, lags, faults>>
snapVars == <<setSnap, podSnap, lags>>

ASSUME InplaceSetAssumption ==
    /\ IsFiniteSet(Pods) /\ Pods # {}
    /\ Templates \subseteq Nat \ {0} /\ 1 \in Templates
    /\ BurstReplicas \in Nat \ {0}
    /\ ReadinessGate \in BOOLEAN /\ GracePeriod \in BOOLEAN
    /\ MaxFaults \in Nat

\* spec.replicas, the template, the update spec (updatePodNum, 0 when the
\* annotation is absent; its hash is that of the template written with it) and
\* the status: available replicas, and of the in-place update its hash (0: no
\* status) and available replicas.
InplaceSetObject == [replicas : Nat, template : Templates, updatePodNum : Nat,
                     available : Nat, updateHash : {0} \cup Templates, updated : Nat]

\* image is the one in the pod's spec, running that of its container;
\* containers and ready are the conditions ContainersReady and Ready, gate is
\* InPlaceUpdateReady.  state is the hash in the annotation of the in-place
\* update (0: none), last the running image recorded in it when the images were
\* patched (0: none), and grace the images recorded for the end of the grace
\* period (0: none).
Pod == [live : BOOLEAN, image : Templates, running : Templates,
        containers : BOOLEAN, ready : BOOLEAN, gate : BOOLEAN,
        state : {0} \cup Templates, last : {0} \cup Templates,
        grace : {0} \cup Templates]

\* CreatePods: a pod as the template describes it.
Created(t) == [live |-> TRUE, image |-> t, running |-> t, containers |-> FALSE,
               ready |-> FALSE, gate |-> FALSE, state |-> 0, last |-> 0,
               grace |-> 0]

Serving(t) == [Created(t) EXCEPT !.containers = TRUE, !.ready = TRUE, !.gate = TRUE]
NoPod      == [Created(1) EXCEPT !.live = FALSE]
NoSet      == [replicas |-> 0, template |-> 1, updatePodNum |-> 0,
               available |-> 0, updateHash |-> 0, updated |-> 0]

Smaller(a, b) == IF a < b THEN a ELSE b

\* The pods of a reconcile: FilterActivePods of the list it read.
Live(ps)  == {p \in Pods : ps[p].live}
Listed    == Live(podSnap)
Unused    == Pods \ (Listed \cup Live(pods))
Subsets(S, n) == {T \in SUBSET S : Cardinality(T) = n}

-----------------------------------------------------------------------------
(* What the controller reads off a pod                                     *)

\* checkContainersInPlaceUpdateCompleted: the container is another one than
\* when the images were patched.
Completed(pod) == pod.last = 0 \/ pod.running # pod.last

\* checkPodInplaceUpdateTried: the recorded hash is that of the update spec.
Tried(pod, t) == pod.state = t

\* patchUpdateSpecToPod: the new images, and the container to be replaced when
\* they differ from the old ones; the grace annotation goes.
Patched(pod, t) == [pod EXCEPT !.image = t, !.state = t, !.grace = 0,
                               !.last = IF pod.image # t THEN pod.running ELSE 0]

\* Mutant: a pod whose gate is closed stays ready until the kubelet looks.
GateOnly(pod, b) == [pod EXCEPT !.gate = b]

\* updateCondition: InPlaceUpdateReady is set; when set to False, Ready goes
\* with it (updatePodReadyCondition leaves it alone if no container is ready).
Gated(pod, b) == [pod EXCEPT !.gate = b,
                             !.ready = IF ~b /\ pod.containers THEN FALSE ELSE pod.ready]

\* updatePodInPlace: the state is replaced, and the images are patched at once
\* or recorded for the end of the grace period.
UpdatedInPlace(pod, t) ==
    IF GracePeriod
    THEN [pod EXCEPT !.state = t, !.last = 0, !.grace = t]
    ELSE Patched(pod, t)

\* refreshPod writes to a pod that is at the end of its grace period, or whose
\* gate is closed although nothing is being replaced in it.
GraceOver(p) == pods[p].grace # 0 /\ p \in elapsed
Reopens(pod) == Completed(pod) /\ ReadinessGate /\ ~pod.gate

\* Mutant: only the ends of grace periods are looked at.
GraceOnly(ps) == {p \in Live(ps) : ps[p].grace # 0}

\* refreshPods
ToRefresh(ps) == {p \in Live(ps) : ps[p].grace # 0 \/ Reopens(ps[p])}

\* getNeedInplaceUpdatePods: of the pods not tried yet, as many as are missing
\* from updatePodNum.  The list has no order.
NeedUpdate(set, ps) ==
    LET notTried == {p \in Live(ps) : ~Tried(ps[p], set.template)}
        total    == Smaller(set.updatePodNum, Cardinality(Live(ps)))
        tried    == Cardinality(Live(ps)) - Cardinality(notTried)
    IN  IF tried >= total THEN {{}}
        ELSE Subsets(notTried, Smaller(total - tried, Cardinality(notTried)))

\* getPodsToDelete: pods that are not ready go first; the order of the rest
\* depends on nodes and times.
ToDelete(ps, n) ==
    {D \in Subsets(Live(ps), n) :
        \A p \in D, q \in Live(ps) \ D : ps[p].ready => ps[q].ready}

\* getInplaceUpdatedPods: warns of a pod whose images differ from the template
\* but counts it.
InplaceUpdatedPods(set, ps) ==
    {p \in Live(ps) : Tried(ps[p], set.template) /\ ps[p].ready /\ Completed(ps[p])}

\* calcInplaceUpdateStatus
UpdateStatusOf(set, ps) ==
    IF set.updatePodNum = 0 THEN [hash |-> 0, updated |-> 0]
    ELSE [hash |-> set.template, updated |-> Cardinality(InplaceUpdatedPods(set, ps))]

\* calculateStatus
Status(set, ps) ==
    [set EXCEPT !.available  = Cardinality({p \in Live(ps) : ps[p].ready}),
                !.updateHash = UpdateStatusOf(set, ps).hash,
                !.updated    = UpdateStatusOf(set, ps).updated]

-----------------------------------------------------------------------------
(* The reconcile                                                           *)

\* Reconcile, syncReplicaSet: reads the InplaceSet and lists its pods.
SyncStart ==
    /\ spc = "idle"
    /\ setSnap' = ips /\ podSnap' = pods
    /\ todo' = ToRefresh(pods) /\ cur' = {}
    /\ spc' = "refresh"
    /\ UNCHANGED <<ips, pods, elapsed, lags, faults>>

\* The same before the informer has heard of anything that happened since the
\* previous reconcile listed the pods: the controller keeps no expectations, and
\* works from that list again.
SyncStartStale ==
    /\ spc = "idle" /\ faults < MaxFaults /\ podSnap # pods
    /\ setSnap' = ips /\ todo' = ToRefresh(podSnap) /\ cur' = {}
    /\ spc' = "refresh" /\ lags' = lags + 1 /\ faults' = faults + 1
    /\ UNCHANGED <<ips, pods, elapsed, podSnap>>

Ends == /\ spc' = "idle" /\ todo' = {} /\ cur' = {} /\ setSnap' = NoSet
        /\ UNCHANGED <<podSnap, lags>>

\* finishGracePeriod, updateCondition and updatePodInPlace read the pod again
\* and retry on a conflict, so they write to the pod as it is.
Save(p, new) == pods' = [pods EXCEPT ![p] = new]

\* refreshPod for a pod whose grace period it looks at or whose gate it opens.  If
\* the pod is gone, the reconcile ends with that error.
RefreshPod(p) ==
    /\ spc = "refresh" /\ p \in todo
    /\ \/ /\ ~pods[p].live
          /\ Ends /\ UNCHANGED pods
       \/ /\ pods[p].live
          /\ \/ podSnap[p].grace # 0 /\ GraceOver(p) /\ Save(p, Patched(pods[p], pods[p].grace))
             \/ podSnap[p].grace # 0 /\ ~GraceOver(p) /\ UNCHANGED pods
             \/ podSnap[p].grace = 0 /\ Save(p, Gated(pods[p], TRUE))
          /\ todo' = todo \ {p} /\ UNCHANGED <<spc, cur, snapVars>>
    /\ UNCHANGED <<ips, elapsed, faults>>

\* manageReplicas, slowStartBatch: the pods that are missing from the list are
\* created in batches, the surplus is deleted.
ManageReplicas ==
    /\ spc = "refresh" /\ todo = {}
    /\ LET diff == Cardinality(Listed) - setSnap.replicas
           n    == Smaller(IF diff < 0 THEN -diff ELSE diff, BurstReplicas)
       IN \/ /\ diff = 0 /\ UNCHANGED pods
          \/ /\ diff < 0
             /\ \E new \in Subsets(Unused, n) :
                   pods' = [p \in Pods |-> IF p \in new THEN Created(setSnap.template) ELSE pods[p]]
          \/ /\ diff > 0
             /\ \E old \in ToDelete(podSnap, n) :
                   pods' = [p \in Pods |-> IF p \in old THEN NoPod ELSE pods[p]]
    /\ elapsed' = elapsed \cap Live(pods')
    /\ spc' = "update"
    /\ UNCHANGED <<ips, snapVars, todo, cur, faults>>

\* The same with a call that fails: only some of the pods are created or
\* deleted, the in-place update is skipped and the status still written.
ManageReplicasFails ==
    /\ spc = "refresh" /\ todo = {} /\ faults < MaxFaults
    /\ LET diff == Cardinality(Listed) - setSnap.replicas
           n    == Smaller(IF diff < 0 THEN -diff ELSE diff, BurstReplicas)
       IN \/ /\ diff < 0
             /\ \E m \in 0..(n - 1) : \E new \in Subsets(Unused, m) :
                   pods' = [p \in Pods |-> IF p \in new THEN Created(setSnap.template) ELSE pods[p]]
          \/ /\ diff > 0
             /\ \E all \in ToDelete(podSnap, n) : \E old \in SUBSET all :
                   pods' = [p \in Pods |-> IF p \in old THEN NoPod ELSE pods[p]]
    /\ elapsed' = elapsed \cap Live(pods')
    /\ spc' = "status" /\ faults' = faults + 1
    /\ UNCHANGED <<ips, snapVars, todo, cur>>

\* manageInplaceUpdate: the pods to be updated by this reconcile.
ManageInplaceUpdate ==
    /\ spc = "update"
    /\ \E need \in (IF setSnap.updatePodNum = 0 THEN {{}} ELSE NeedUpdate(setSnap, podSnap)) :
          todo' = need
    /\ cur' = {} /\ spc' = "try"
    /\ UNCHANGED <<ips, pods, elapsed, snapVars, faults>>

\* TryInplaceUpdate: first the pod leaves the service,
CloseGate(p) ==
    /\ spc = "try" /\ ReadinessGate /\ cur = {} /\ p \in todo /\ pods[p].live
    /\ Save(p, Gated(pods[p], FALSE))
    /\ cur' = {p}
    /\ UNCHANGED <<ips, elapsed, spc, snapVars, todo, faults>>

\* then updatePodInPlace writes its annotations or its images.
UpdatePodInPlace(p) ==
    /\ spc = "try" /\ p \in todo /\ pods[p].live
    /\ cur = IF ReadinessGate THEN {p} ELSE {}
    /\ Save(p, UpdatedInPlace(pods[p], setSnap.template))
    /\ elapsed' = elapsed \ {p}
    /\ todo' = todo \ {p} /\ cur' = {}
    /\ UNCHANGED <<ips, spc, snapVars, faults>>

\* A call for the next pod fails, because the pod is gone or for another reason:
\* the loop ends, and manageInplaceUpdate returns no error.
TryFails ==
    /\ spc = "try"
    /\ \E p \in todo :
          /\ cur \subseteq {p}
          /\ IF pods[p].live THEN faults < MaxFaults /\ faults' = faults + 1
                             ELSE UNCHANGED faults
    /\ todo' = {} /\ cur' = {}
    /\ UNCHANGED <<ips, pods, elapsed, spc, snapVars>>

\* updateInplaceSetStatus: the status of the pods listed at the start, written
\* on top of the InplaceSet as it is now.
UpdateStatus ==
    /\ (spc = "try" /\ todo = {}) \/ spc = "status"
    /\ LET new == Status(setSnap, podSnap)
       IN  ips' = [ips EXCEPT !.available = new.available, !.updateHash = new.updateHash,
                              !.updated = new.updated]
    /\ Ends
    /\ UNCHANGED <<pods, elapsed, faults>>

\* The process restarts or a call fails outside the loops above.
SyncAborts ==
    /\ spc # "idle" /\ faults < MaxFaults
    /\ faults' = faults + 1 /\ Ends
    /\ UNCHANGED <<ips, pods, elapsed>>

Reconcile ==
    \/ SyncStart \/ ManageReplicas \/ ManageInplaceUpdate \/ TryFails \/ UpdateStatus
    \/ \E p \in Pods : RefreshPod(p) \/ CloseGate(p) \/ UpdatePodInPlace(p)

-----------------------------------------------------------------------------
(* Kubelet, clock, loss of pods                                            *)

PodUnchanged == UNCHANGED <<ips, spc, snapVars, todo, cur>>

\* The kubelet replaces a container whose image changed.
ContainerRestarts(p) ==
    /\ pods[p].live /\ pods[p].running # pods[p].image
    /\ pods' = [pods EXCEPT ![p].running = pods[p].image, ![p].containers = FALSE,
                            ![p].ready = FALSE]
    /\ PodUnchanged /\ UNCHANGED <<elapsed, faults>>

\* The kubelet reports containers that came up, and the Ready condition.
KubeletReports(p) ==
    /\ pods[p].live /\ pods[p].running = pods[p].image
    /\ LET ready == ReadinessGate => pods[p].gate
       IN  /\ ~pods[p].containers \/ pods[p].ready # ready
           /\ pods' = [pods EXCEPT ![p].containers = TRUE, ![p].ready = ready]
    /\ PodUnchanged /\ UNCHANGED <<elapsed, faults>>

GraceElapses(p) ==
    /\ pods[p].grace # 0 /\ p \notin elapsed
    /\ elapsed' = elapsed \cup {p}
    /\ PodUnchanged /\ UNCHANGED <<pods, faults>>

PodLost(p) ==
    /\ pods[p].live /\ faults < MaxFaults
    /\ Save(p, NoPod) /\ elapsed' = elapsed \ {p}
    /\ faults' = faults + 1
    /\ PodUnchanged

Node(p) == ContainerRestarts(p) \/ KubeletReports(p) \/ GraceElapses(p)

SetInit(n) ==
    /\ ips = [NoSet EXCEPT !.replicas = n, !.available = n]
    /\ LET P == CHOOSE P \in Subsets(Pods, n) : TRUE
       IN  pods = [p \in Pods |-> IF p \in P THEN Serving(1) ELSE NoPod]
    /\ elapsed = {}
    /\ spc = "idle" /\ setSnap = NoSet /\ podSnap = pods
    /\ todo = {} /\ cur = {} /\ lags = 0 /\ faults = 0

SetNext ==
    \/ Reconcile \/ SyncStartStale \/ ManageReplicasFails \/ SyncAborts
    \/ \E p \in Pods : Node(p) \/ PodLost(p)
=============================================================================
