--------------------------- MODULE InplaceRollout ---------------------------
(***************************************************************************)
(* An ExtendedDeployment of one region rolled out in place                 *)
(* (InPlaceIfPossible): the rollout raises updatePodNum of the InplaceSet  *)
(* group by group, the InplaceSet controller updates as many pods and      *)
(* reports them, and the rollout waits for that report.  The templates     *)
(* differ in their images only, so the region keeps its InplaceSet.        *)
(*                                                                         *)
(* rpc says where the rollout's reconcile is and seen is what it read.     *)
(***************************************************************************)
EXTENDS InplaceSet

CONSTANTS
    Sizes,     \* the replicas of the region the user ever asks for
    BatchSize, \* spec.strategy.batchSize
    Interrupt, \* may the user edit while an update is under way?
    MaxEdits   \* bound on the edits of the spec

VARIABLES
    template, desired, \* the template in the spec, the replicas of the region
    rpc, seen,         \* the rollout's reconcile
    edits              \* the edits so far

rolloutVars == <<template, desired, rpc, seen, edits>>
vars == <<setVars, rolloutVars>>

ASSUME InplaceRolloutAssumption ==
    /\ Sizes \subseteq Nat \ {0} /\ Sizes # {}
    /\ BatchSize \in Nat \ {0} /\ MaxEdits \in Nat /\ Interrupt \in BOOLEAN

\* There are names for the pods of a region.
ASSUME EnoughPods == \A n \in Sizes : n <= Cardinality(Pods)

-----------------------------------------------------------------------------
(* What the rollout reads off the InplaceSet s                             *)

\* Mutant: grows when it should shrink, and the other way round.
StepSizeInverted(want, have) ==
    IF want >= have THEN -Smaller(BatchSize, want - have) ELSE Smaller(BatchSize, have - want)

\* calculateStepSize: what is missing, at most a group; below zero to shrink.
StepSize(want, have) ==
    IF want >= have THEN Smaller(BatchSize, want - have) ELSE -Smaller(BatchSize, have - want)

\* groupSubset: the InplaceSet is new when it carries the deployment's template.
IsNew(s, t)    == s.template = t
Reported(s)    == s.updateHash = s.template

\* Mutant: the first pods to be updated are enough.
AvailableSoon(s, t, n) == IsNew(s, t) /\ (s.updatePodNum > 0 => Reported(s))

\* Mutant: the update is over when its current group is.
AnyGroupDesired(s, t, n) ==
    IsNew(s, t) /\ IF s.updatePodNum > 0 THEN Reported(s) ELSE s.replicas = n

\* groupSubset: in the middle of an in-place update the status of that update
\* counts, if it is about this template, else that of the whole subset.
ReplicasDesired(s, t, n) ==
    /\ IsNew(s, t)
    /\ IF s.updatePodNum > 0 THEN Reported(s) /\ s.updatePodNum = n ELSE s.replicas = n
AvailableDesired(s, t, n) ==
    /\ IsNew(s, t)
    /\ IF s.updatePodNum > 0
       THEN /\ Reported(s)
            /\ s.updated >= s.updatePodNum \/ (n < s.replicas /\ s.updated >= n)
       ELSE n < s.replicas \/ s.available >= s.replicas

\* CheckInplaceUpdate: whether the next group is updated in place, and how many
\* pods are then to be updated.  The first group is one pod if it would be all.
\* The count of an update that is replaced by another one is not forgotten: its
\* annotation is deleted, but spec was read before that.
CanInplaceUpdate(s, t, n) ==
    /\ IsNew(s, t) => s.updatePodNum > 0
    /\ n <= s.replicas
    /\ StepSize(n, s.updatePodNum) > 0

\* Mutant: a whole region may go at once.
WholeRegionAtOnce(s, n) == s.updatePodNum + StepSize(n, s.updatePodNum)

UpdatePodNum(s, n) ==
    LET step == StepSize(n, s.updatePodNum)
    IN  IF s.updatePodNum = 0 /\ step = n THEN 1 ELSE s.updatePodNum + step

-----------------------------------------------------------------------------
(* The rollout                                                             *)

\* Reconcile up to ManageSubsets: saturated, waiting, or the next group.
RolloutStart ==
    /\ rpc = "idle"
    /\ LET s == ips
           a == AvailableDesired(s, template, desired)
       IN  /\ a \/ ~IsNew(s, template)
           /\ rpc' = IF a /\ ReplicasDesired(s, template, desired) THEN "clean" ELSE "manage"
           /\ seen' = [set |-> s, template |-> template, desired |-> desired]
    /\ UNCHANGED <<setVars, template, desired, edits>>

RolloutEnds == rpc' = "idle" /\ seen' = [set |-> NoSet, template |-> 1, desired |-> 0]

\* CheckInplaceUpdate, UpdateSubsetAnnotations, setInplaceUpdate: the template's
\* images and the update spec are written with one call.
RaiseUpdatePodNum ==
    /\ rpc = "manage" /\ CanInplaceUpdate(seen.set, seen.template, seen.desired)
    /\ ips' = [ips EXCEPT !.template = seen.template,
                          !.updatePodNum = UpdatePodNum(seen.set, seen.desired)]
    /\ RolloutEnds
    /\ UNCHANGED <<pods, elapsed, spc, snapVars, todo, cur, faults, template, desired, edits>>

\* Otherwise regionSyncOnce scales the InplaceSet.  (An InplaceSet of another
\* template that cannot be updated in place is replaced by a new one, which is
\* not modelled here but in Rollout.)
ScaleSubset ==
    /\ rpc = "manage" /\ IsNew(seen.set, seen.template)
    /\ ~CanInplaceUpdate(seen.set, seen.template, seen.desired)
    /\ ips' = [ips EXCEPT !.replicas =
                  seen.set.replicas + StepSize(seen.desired, seen.set.replicas)]
    /\ RolloutEnds
    /\ UNCHANGED <<pods, elapsed, spc, snapVars, todo, cur, faults, template, desired, edits>>

\* cleanAfterSaturated: the update spec is removed.
CleanAfterSaturated ==
    /\ rpc = "clean"
    /\ ips' = [ips EXCEPT !.updatePodNum = 0]
    /\ RolloutEnds
    /\ UNCHANGED <<pods, elapsed, spc, snapVars, todo, cur, faults, template, desired, edits>>

RolloutAborts ==
    /\ rpc # "idle" /\ faults < MaxFaults
    /\ faults' = faults + 1 /\ RolloutEnds
    /\ UNCHANGED <<ips, pods, elapsed, spc, snapVars, todo, cur, template, desired, edits>>

Rollout == RolloutStart \/ RaiseUpdatePodNum \/ ScaleSubset \/ CleanAfterSaturated

-----------------------------------------------------------------------------
(* The user                                                                *)

\* The last edit has been rolled out.
Settled == /\ ips.template = template /\ ips.updatePodNum = 0 /\ ips.replicas = desired
           /\ rpc = "idle"

UserApply(t) ==
    /\ edits < MaxEdits /\ t # template /\ (Settled \/ Interrupt)
    /\ template' = t /\ edits' = edits + 1
    /\ UNCHANGED <<setVars, desired, rpc, seen>>

UserScale(n) ==
    /\ edits < MaxEdits /\ n # desired /\ (Settled \/ Interrupt)
    /\ desired' = n /\ edits' = edits + 1
    /\ UNCHANGED <<setVars, template, rpc, seen>>

Init ==
    /\ template = 1 /\ desired \in Sizes /\ SetInit(desired)
    /\ rpc = "idle" /\ seen = [set |-> NoSet, template |-> 1, desired |-> 0]
    /\ edits = 0

Next ==
    \/ SetNext /\ UNCHANGED rolloutVars
    \/ Rollout \/ RolloutAborts
    \/ \E t \in Templates : UserApply(t)
    \/ \E n \in Sizes : UserScale(n)

Spec == Init /\ [][Next]_vars

\* Events of pods and of the InplaceSet, requeues after errors and the periodic
\* resync keep waking both controllers; the kubelet and the clock go on.
FairSpec ==
    /\ Spec
    /\ WF_vars(Reconcile /\ UNCHANGED rolloutVars)
    /\ WF_vars(Rollout)
    /\ \A p \in Pods : WF_vars(Node(p) /\ UNCHANGED rolloutVars)

-----------------------------------------------------------------------------
(* Properties                                                              *)

\* Every variable keeps to its type; above all no count goes below zero.
TypeOK ==
    /\ ips \in InplaceSetObject /\ setSnap \in InplaceSetObject
    /\ pods \in [Pods -> Pod] /\ elapsed \subseteq Pods
    /\ podSnap \in [Pods -> Pod]
    /\ spc \in {"idle", "refresh", "update", "try", "status"}
    /\ todo \subseteq Pods /\ cur \subseteq Pods /\ lags \in Nat
    /\ template \in Templates /\ desired \in Sizes
    /\ rpc \in {"idle", "manage", "clean"}
    /\ seen \in [set : InplaceSetObject, template : Templates, desired : Nat]
    /\ faults \in 0..MaxFaults /\ edits \in 0..MaxEdits

\* At most one group of pods is out of service for an update in place: the
\* rollout raises updatePodNum only when the pods counted so far serve again.  A
\* fault may add a pod; a stale list of pods may add a group.
OneGroupUpdating ==
    lags = 0 =>
        Cardinality({p \in Live(pods) : pods[p].state # 0 /\ ~pods[p].ready}) <= BatchSize + faults

\* With the readiness gate, and as long as no list of pods was stale, the images
\* of a pod are replaced only while it is out of service (TryInplaceUpdate,
\* finishGracePeriod, refreshPod).
OutOfServiceWhenPatched ==
    [][lags = 0 => \A p \in Live(pods) : pods'[p].live /\ pods'[p].image # pods[p].image
                                           => ~pods[p].ready]_vars

\* The update is declared over (its spec removed) only when every pod has the
\* images of the template: nothing would update it later.  (A stale list can
\* make it forget one.)
UpdatedAtTheEnd ==
    lags = 0 /\ ips.updatePodNum = 0 => \A p \in Live(pods) : pods[p].image = ips.template

\* An update in place never takes all pods of a region out of service at once,
\* even if the region is no larger than a group (CheckInplaceUpdate).
NeverAllOut ==
    faults = 0 /\ Cardinality(Live(pods)) > 1
        => \E p \in Live(pods) : pods[p].ready \/ pods[p].state = 0

\* After the last edit and fault, the region runs the wanted number of pods of
\* the wanted template, all of them serving, and the update is over.
Converges ==
    <>[](/\ ips.template = template /\ ips.updatePodNum = 0
         /\ Cardinality(Live(pods)) = desired
         /\ \A p \in Live(pods) : pods[p].ready /\ pods[p].running = template)
=============================================================================
