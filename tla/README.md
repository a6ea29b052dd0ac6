# A TLA+ model of the ExtendedDeployment controllers

ExtendedDeployment is a Kubernetes operator. One custom resource describes a
service that runs in several *regions* (groups of nodes). The operator keeps one
*subset* (an InplaceSet, a ReplicaSet or a Deployment) per region and pod
template, rolls a new template out in groups, updates pods in place where it
can, and moves replicas away from regions that fail or lack resources. This
directory holds TLA+ modules translated from that code, the TLC runs that check
them and proofs that the TLA+ proof system checks. Paths below are relative to
the repository's root.

## Inventory

| component | code | state it keeps | operations | what makes it correct |
|---|---|---|---|---|
| rollout | `pkg/controllers/extendeddeployment/{controller,subset_control,update,rolling}.go` | subsets of every region and template (replicas, available replicas, revision); Progressing condition, LastTermStartTime; confirm annotation | `Reconcile` -> `syncRevisions`, `checkSaturated`, `checkIfTermReady`, `checkUpgradeConfirm`, `ManageSubsets`, `cleanAfterSaturated` | old pods go only when new ones serve; one group at a time; a group per confirmation; the rollout ends |
| revisions | `revision.go`, `rollback.go` | ControllerRevisions, revision and rollback-to annotations | `syncRevisions`, `truncateHistory`, `checkRollback` | the newest revision is the spec; the history is bounded and keeps the live revisions; a rollback ends |
| region replicas | `controller_util.go`, `webhook/v1beta1` | none | `ParseRegionReplicas`, `compareReplicas` | percentages add up to the total |
| adapters | `adapter/*.go` | none | create, scale, convert | the three subset types behave alike |
| InplaceSet | `pkg/controllers/inplaceset/controller.go` | pods of a subset, status | `manageReplicas`, `slowStartBatch`, `updateInplaceSetStatus` | exactly `replicas` pods in the end; status counts real pods |
| in-place update | `inplace_update.go`, `batch.go` | per pod: update spec, readiness gate, grace period | `manageInplaceUpdate`, `TryInplaceUpdate`, `refreshPods` | no more than a batch of pods unready; every pod gets the newest template |
| region failure | `pkg/controllers/deployregion/` | cached nodes and pods per region; failure annotation | node, pod, region events, `CheckRegionStatus` | the cache follows the cluster; a failed region is flagged, a recovered one is not |
| rescheduling | `pkg/controllers/reschedule/` | auto-schedule annotation | `RescheduleFailedRegions`, `RescheduleInsufficientPods` | the total of replicas is conserved |
| ownership | `pkg/utils/refmanager` | owner references | `claimObject`, `release` | one controller per object |
| wiring | `cmd/`, `pkg/utils/informermanager` | none | start-up | - |

**How they interact.** All components meet in the API server and each works from
an informer cache. The reschedule controller changes the replicas a region
should have (an annotation the rollout reads); the region controller sets the
failure annotation that triggers it; the rollout writes `spec.replicas` and
annotations of subsets; the InplaceSet controller turns those into pods and
reports `status.availableReplicas`, on which the rollout waits. Users edit the
spec and set the confirm annotation at any time.

**What is hard.** A reconcile makes many writes from one old copy and may end
after any of them; regions are visited in Go's random map order; the cache lags;
an update from an outdated copy is refused; a template may be applied while the
previous one is still rolling out; timeouts only take effect when an event comes;
and decisions use flags (Progressing, the confirm annotation) that other steps
write. `PROJECT.json` lists each of these hazards at its line.

## Modules

| module | what it is |
|---|---|
| `Rollout` | the rollout of one deployment with ReCreate, RollingUpdate and DeleteAllFirst: the core of the system |
| `RolloutProofs` | theorems about `Rollout`: types, one group at a time |
| `ConfirmProofs` | the confirmation gate of `Rollout` |
| `StrategyProofs` | what DeleteAllFirst and RollingUpdate promise in `Rollout` |
| `DowntimeProofs` | a ReCreate rollout keeps every region served, a RollingUpdate its one region down to `maxUnavailable` |
| `InplaceSet` | the InplaceSet controller and the in-place update of its pods, with kubelet, clock and lost pods |
| `InplaceRollout` | `InplaceSet` composed with the rollout of one region in place |
| `InplaceRolloutProofs` | its theorems: types, pods out of service before they are patched, one group at a time, all pods updated at the end |
| `Replicas` | region replicas: what the webhook admits and what `ParseRegionReplicas` makes of it |
| `RegionHealth` | the region controller: cache of nodes, status of regions, failed-flag annotation |
| `Failover` | `RegionHealth` composed with the reschedule controller, the rollout (abstracted) and the user |
| `FailoverProofs` | the theorems about `Failover`, and sums over regions for `Replicas` |
| `LastRevision` | abstract specification: what the rollout relies on of the revision history |
| `Revisions` | ControllerRevisions and the rollback-to annotation; implements `LastRevision` |
| `RevisionsProofs` | the theorems about `Revisions`, the refinement included |
| `FiniteFacts` | for the proofs: a finite set of numbers has a maximum, and a finite set subsets of every size up to its own |
| `MCRollout`, `MCInplace`, `MCFailover`, `MCRevisions` | root modules of the runs, one `.cfg` for each run |

### Rollout

A subset is `sub[r][t]`: whether it exists, `spec.replicas`,
`status.availableReplicas` and the revision annotation. Its identity is region
and template because its name is made of the deployment, the region and the
template's hash. `cache` is the informer's copy of the subsets and `seen` that of
the deployment; `Lagging` says which of the two may be behind. A reconcile copies the cache to
`info` and the deployment to `snap` and then runs as a sequence of steps, one
per write, with `pc` as its program counter:

    idle -> SyncRevisions                                   (the spec is new)
    idle -> saturated -> clean -> sweep -> delete -> clean ... idle   (cleanAfterSaturated)
    idle -> wait -> idle                                    (group not available)
    idle -> confirm -> refresh -> idle                      (waits for the user)
    idle -> [confirm ->] manage -> cleanup -> shrink -> grow -> manage ... idle   (ReCreate)
                         manage -> cleanup -> rollOld -> manage ... idle          (RollingUpdate)
                         manage -> deleteAll | refresh | grow -> manage -> idle   (DeleteAllFirst)

| action | code |
|---|---|
| `SyncRevisions`, `SyncRevisionsFails` | `syncRevisions`; the second ends after the revision is stored and before the annotations are |
| `ReconcileStart` | `Reconcile` up to the branch on `checkSaturated` and `checkIfTermReady`; `TermFlags` holds every answer the random region order can give |
| `CheckUpgradeConfirm`, `RefreshStatus`, `WaitStatus`, `StatusConflict` | `checkUpgradeConfirm`, `SyncStatusOnly`, `UpdateProgressing`, `calculateStatus`; the last one is a status update refused because the cached deployment is outdated |
| `NewSubset`, `RaiseRevision` | `NewSubset`: creating a subset always ends the reconcile, because line 166 dereferences `ri.New`, which is nil, and the panic is recovered in `Reconcile` |
| `RecreateRegion`, `CleanupUnhealthyReplicas`, `CleanupDone`, `ShrinkOld`, `ShrinkDone`, `GrowNew` | `regionSyncOnce` and `cleanupUnhealthyReplicas` |
| `RollingRegion`, `RollOlds`, `RollOld`, `RollOldDone` | `rolling.go` |
| `DeleteAllFirstRegion`, `DeleteAllDone` | `rolloutDeleteAllFirst` |
| `SaturatedStatus`, `CleanRegion`, `SweepOld`, `CleanOldSubsets`, `DeleteSubset`, `CleanOldDone`, `CleanDone` | `cleanAfterSaturated`, `cleanOldSubsets`; the status is written every time, as `update.go:332` compares a pointer with a struct, and subsets are deleted one by one |
| `Abort` | any API call fails, or the manager restarts |
| `UserApply`, `UserScale`, `UserConfirm`, `Timeout` | the user; `SyncWaitTimeout` |
| `PodAvailable`, `PodsRemoved`, `PodFails`, `CacheSync`, `DeploymentSync` | the subset's controller and the informers |

An update is refused when the cached object is not the current one
(`CacheCurrent`): `ScaleSubset` retries five times, but from the same cache, so
the retries are not modelled; updates of the deployment's annotations and status
are refused in the same way (`Fresh`), after retries with the cached object, and
once the cache has caught up they overwrite the annotations with the ones read
when the reconcile started. A deletion does not look at versions. `granted` is
a history variable: it says whether a region may start a group, that is, whether
the user edited or confirmed, or the deployment was saturated, since its last one.

Definitions marked *Mutant* are wrong variants of the definition after them; a
run with the variant in its place must fail. They are not part of the model.

**Abstractions.** Subset types do not differ. Templates are numbers. A pod is
starting or available; starting pods are not counted in `OldPodsRunning`, which
makes the model leave that wait earlier than the code does. `maxSurge` and
`maxUnavailable` are given as numbers. Regions and the strategy of a deployment
do not change during a run, so `ClearUnused` and `UpdateSubsetStrategy` never
write. Old subsets are visited in any order: the code sorts by creation time,
which ties within a second. The revisions are read
as they are, `LastTermStartTime` too; of the deployment, `seen` holds the spec,
the confirm annotation and the condition. Events and logs are left out.

### InplaceSet and InplaceRollout

`ips` is the InplaceSet in the API server (replicas, template, the update spec's
`updatePodNum`, and the status), `pods[p]` a pod: the image in its spec and the
one that runs, the conditions ContainersReady, Ready and InPlaceUpdateReady (the
gate), and its two annotations, the state of the update and the images recorded
for the end of the grace period. A reconcile reads `setSnap` and `podSnap` and
then goes through `refresh`, `update`, `try` and `status`, one step per write:

| action | code |
|---|---|
| `SyncStart`, `SyncStartStale` | `Reconcile`, `syncReplicaSet` up to the filtered list of pods; the second from the list of the previous reconcile, as nothing waits for the cache (no expectations) |
| `RefreshPod` | `refreshPods`, `refreshPod`, `finishGracePeriod`: ends a grace period by patching the images, or opens the gate of a pod in which nothing is being replaced |
| `ManageReplicas`, `ManageReplicasFails` | `manageReplicas`, `slowStartBatch`, `getPodsToDelete` |
| `ManageInplaceUpdate`, `CloseGate`, `UpdatePodInPlace`, `TryFails` | `manageInplaceUpdate`, `getNeedInplaceUpdatePods`, `TryInplaceUpdate`, `updatePodInPlace`; an error ends the loop and is dropped |
| `UpdateStatus` | `calculateStatus`, `calcInplaceUpdateStatus`, `updateInplaceSetStatus` |
| `ContainerRestarts`, `KubeletReports`, `GraceElapses`, `PodLost` | kubelet, clock, eviction |
| `RolloutStart`, `RaiseUpdatePodNum`, `ScaleSubset`, `CleanAfterSaturated` | the rollout: `groupSubset`, `CheckInplaceUpdate`, `regionSyncOnce`, `cleanAfterSaturated` |

Writes to a pod read it again and retry on conflicts, so they change the pod as
it is; which pods are written is decided from the list. A deleted pod is gone at
once. The templates differ in one image, so the region keeps its InplaceSet.

### RegionHealth, Failover and Replicas

`up` is the set of ready nodes and `seenUp` what the cache of the region
controller believes; `status` is the status of each region in that cache. `flag`
is the failed-flag annotation, `plan` the reschedule annotation (generation,
configured replicas and difference per region) and `placed` the replicas the
rollout has brought to each region. Both controllers read the deployment and
update it later; `stale` names those whose copy is outdated by then, and whose
update is refused.

| action | code |
|---|---|
| `RebuildCache`, `RegionEvent` | `waitCacheSynced`, `handleRegionEvent` |
| `CheckRegionStatus`, `CheckRegionStatusReads`, `SetFailureAnnotation`, `SetFailureAnnotationFails` | `CheckRegionStatus`, `setFailureAnnotation`, `stopReconcile` |
| `DropPlan`, `MakePlan`, `WritePlan`, `WriteCondition`, `WritePlanFails` | `reconcile` of the reschedule controller (the plan, then the condition in the status) with `CheckAnnotation`, `RescheduleFailedRegions`, `RescheduleInsufficientPods`, `reschedule`, `SetRescheduleAnnotation` |
| `RolloutStarts`, `RolloutEnds` | the rollout as the other two see it: Progressing, then the desired replicas in each region, or as far as it gets |
| `UserEdit` | an edit that `compareReplicas` admits |
| `NodeFails`, `NodeRecovers`, `Restart` | nodes; the manager |

There is no action for a node event: `event.go:35` queues it as a pod event, for
which there is no pod, and nothing happens. What a node can hold follows
`MaxDivided` from its resources and the request of a replica. `MovedOne`
moves a replica to a region that can take in most, `Moved` several, one by one;
both give the set of outcomes, as equals come in map order, and it is empty when
there is no room. `SumOver` and `Total` add up over regions with
`MapThenSumSet` of the community modules.

`NotReady` is `checkIfTermReady`: a region that is not to shrink waits for pods
that have no resources or no ready node. As long as one does, the code stays at
`termNotReady` and starts nothing in any region (`controller.go:289`), and
`SyncWaitTimeout` ends Progressing all the same. `RolloutEnds` therefore moves all
regions in steps (`Toward`) up to the first group that does not come up, or to
the end. Steps are of any size, and an error in the middle of `ManageSubsets`,
which leaves the regions out of step, is left out; so is the order in which
`checkIfTermReady` meets a region without a subset, which `Rollout` has.

Go divides towards zero, so `MaxDivided` of a node without any of a requested
resource is -1 once the request is subtracted (`Quotient`), and lowers the room
of its region. With rescheduling off the code also writes the status when there
is no plan to remove; that changes nothing and is left out.

### Revisions and LastRevision

`revs` holds for each spec its revision number and creation time (or none): the
library keeps one ControllerRevision per spec. `created` counts the creations and
is their clock; the code has it in seconds and orders those of the same second by
name. `list` is what the reconcile listed, `read` the spec it read, `issued` a
history variable of all numbers given. `truncateHistory` works on the list with
the new revision in it (`Listed`), not on a new one, deletes the oldest first and
ends at the first that is gone already or cannot be deleted (`Truncated`).

| action | code |
|---|---|
| `Reconcile`, `ReconcileStale` | `Reconcile` up to `checkRollback` and the first part of `syncRevisions`; the second from the list of the previous reconcile |
| `RollbackTo`, `RollbackUnchanged` | `checkRollback`, `rollbackTo`, `rollbackToRevision` |
| `UpdateControllerRevision`, `CreateControllerRevision`, `UpdateAnnotations`, `TruncateHistory`, `TruncateFails` | the writes of `syncRevisions`, `updateAnnotations`, `truncateHistory` |
| `ReconcileFails` | a call that fails, a restart |

`updateAnnotations` reads the deployment again from the cache and retries on
conflicts, but a cache that lags long enough makes it fail without any other
fault (`update.go:51`). The model counts that as a fault of `ReconcileFails`, so
the properties for no faults are for caches that follow in time.

`LastRevision` has only the spec, the spec a reconcile is about to record and
the newest revision, which changes to that spec and to nothing else. `Rollout`
keeps exactly this of the history (`lastRev`). The mapping takes `newest` to the
spec of the highest revision and `read` to the spec read while it is not
recorded yet.

## Properties

* `TypeOK`: types; above all, no replica count goes below zero.
* `ZeroDowntime`: while no pod fails, a region never has fewer pods that are
  available and not being removed than its size (ReCreate) or its size less
  `maxUnavailable` (RollingUpdate).
* `SurgeBound`: a rolling update never asks for more than size plus `maxSurge`.
* `OneGroupInFlight`: at most one group of any template is starting in a region.
* `DeletedFirst`: with DeleteAllFirst, while a subset of a region asks for
  replicas no other one asks for any or has a pod left.
* `GroupsConfirmed`: every group after the first has its own confirmation.
  `ConfirmGate`: the part of it that holds, for reconciles that do ask.
* `Converges`: once edits and faults end, all regions run the wanted replicas of
  the wanted template and nothing else, and Progressing is False.

In place (`InplaceRollout`):

* `OneGroupUpdating`: as long as no list of pods was stale, no more pods are out
  of service for an update than a group has (and one more per fault).
* `OutOfServiceWhenPatched`: with the readiness gate a pod's images are replaced
  only while it is not Ready, as long as no list of pods was stale.
* `UpdatedAtTheEnd`: with the same condition, when the update spec is removed
  every pod has the template's images; nothing would update it later.
* `NeverAllOut`: without faults an update never takes all pods of a region.
* `Converges`: after the last edit and fault the region runs the wanted number
  of pods of the wanted template, all serving, and the update is over.

Rescheduling (`Failover`):

* `FlaggedGetNothing`: a plan leaves nothing in a region that is flagged when the
  plan is written and has replicas configured. `PlanForSpec`: a plan that counts as current was made from
  the spec as it is. These rest on the conflict of updates.
* `NothingLost`: moving replicas keeps their total, for failed regions or for
  short ones that run no more than configured, not for both at once.
* `RoundedTotal`: admitted percentages give the total up to rounding.
* `FlaggedEmptied`: in the end a flagged region is empty, if every region that is
  down is flagged. One that is down and not flagged (its failure was found while
  the deployment was progressing, `failure.go:110`, or not at all) keeps the
  rollout at `termNotReady`, and no region is emptied; TLC finds this without the
  condition. `EditTakesEffect`: a plan of an older generation does not outlive an
  edit.
* `FailureDetected`: what the repository's README promises of failures.

Revisions:

* `ImplementsLastRevision`: the refinement of `LastRevision`.
* `NumbersNotReused`: without faults no number is given to two specs.
* `AnnotatedNewest`: without faults the revision annotation names the newest
  revision between reconciles.
* `HistoryBounded`: at most `historyLimit + 1` revisions, one more per fault.
* `Recorded`: in the end the newest revision is the spec, unless a rollback-to
  annotation stands in the way.

## Runs

| run | instance | result |
|---|---|---|
| `recreate_lagging` | 1 region, 2 templates, 3 replicas, groups of 1, Beta, first-group confirmation, both caches lag | `ZeroDowntime`, `OneGroupInFlight`, `Converges` hold |
| `recreate_regions` | 2 regions, 3 templates (so a rollout is interrupted by another), 3 replicas, confirmation | `ZeroDowntime`, `ConfirmGate` hold |
| `recreate_faults` | 1 region, 3 templates with rollbacks, 2 or 4 replicas, groups of 2, one fault anywhere | `TypeOK`, `Converges` hold |
| `rolling` | 1 region, 3 templates with rollbacks, 2 or 3 replicas, surge 1, unavailable 1 | `ZeroDowntime`, `SurgeBound` hold |
| `delete_first` | 1 region, first install, 3 templates with rollbacks, one fault | `DeletedFirst`, `Converges` hold |
| `groups_overlap` | 2 regions, ReCreate | `OneGroupInFlight` is violated |
| `groups_unconfirmed` | 1 region, confirmation on | `GroupsConfirmed` is violated |
| `rolling_regions` | 2 regions, RollingUpdate | `ZeroDowntime` is violated |
| `inplace` | 4 pod names, 2 templates, 2 or 3 replicas, groups of 2, gate and grace period, one edit, one fault or stale list | the properties in place hold |
| `failover` | 3 regions with 4 nodes, one of them without memory, one region full; percentages or counts; 2 node changes, one edit, one fault | the rescheduling properties hold |
| `failover_undetected` | as `failover`, without edits and faults | `FailureDetected` is violated |
| `revisions` | 4 specs, history limit 1, 5 edits or rollbacks, one fault | all revision properties hold |

**Bounds.** `MaxEdits` 2 lets a second edit meet a rollout that is under way,
and three templates give two old subsets next to the new one, the smallest case
in which the loops over old subsets have a choice. Three replicas in groups of
one give a first, a middle and a last group, and so a group after the one that
slips past the confirmation gate. One fault at any step covers every place a
reconcile can be cut; a second would repeat the first from a state that is
already covered by an edit. The runs are exhaustive in these bounds, without
state constraints. Those of `Rollout` and `InplaceRollout` check for deadlock: an
idle controller always has a reconcile to run; in `Failover` and `Revisions` a
reconcile that would write nothing is left out, so these systems may come to
rest.

In place, three pods in groups of two give a first group of two and a last of
one, two pods the case in which a group would be the whole region, and four
names let a stale list create a pod too many. In `failover`, the third region
has no room for its replica, so a pod waits; one node lacks a requested resource;
two node changes take a region with one node down and up, two regions or one with
two nodes down; the four specs are percentages that round up (2 becomes 3), counts, rescheduling off, and
percentages the webhook rejects. Four specs and a history limit of 1 make
`truncateHistory` delete, and five edits let a deleted spec come back.

**Fairness** (`FairSpec`) is weak fairness of the controller's next step (owned
objects, requeues and resyncs keep waking it), of each subset's pods starting
and being removed, of the informers (`CacheSync`, `DeploymentSync`), and of a user who is asked to confirm.
Edits, faults and timeouts get none. With DeleteAllFirst and two regions weak
fairness is not enough: `ManageSubsets` returns after the first region of a
random iteration, and which region that is, is never guaranteed; the run has
one region.

`InplaceRollout` has weak fairness of each of the two controllers, and for each
pod of the kubelet and the clock. `Failover` has it of the region controller,
the reschedule controller and the rollout, `Revisions` of the reconcile: every
write to the deployment and every error queues a request. Nodes, users, faults
and stale lists get none.

**The violations.** `NewSubset` ends in a panic each time it creates a
subset (`subset_control.go:166`). In a deployment with two regions the second
one therefore waits for the next reconcile, in which `checkIfTermReady` may meet
it first, answer `termInit`, and let `ManageSubsets` grow the other region's
subset although its group is not available (`groups_overlap`; README.md:9 says
that the next group starts only after the current one is completed). In the same
situation RollingUpdate removes old pods whose replacements are not available,
because `rolling.go:83` counts replicas as available pods (`rolling_regions`).
The panic also skips `UpdateProgressing`, so the next reconcile finds
Progressing False and does not ask for confirmation; a `SyncWaitTimeout` has the
same effect (`groups_unconfirmed`; README.md:12). `event.go:35` gives node
events the prefix of pod events, so that the failure of a region's nodes is only
noticed after a restart of the manager (`failover_undetected`; README.md:14).

**Limits met while choosing instances.** The following fail in the model with
other constants, and the runs stay clear of them: with a lagging cache,
`ZeroDowntime` and `SurgeBound` with three templates and `OneGroupInFlight` with
rollbacks or size changes (the copy still lists a subset that is gone, or misses
one); `ConfirmGate` with a lagging cache and four replicas (a confirmation given
early outlives a group that a timeout let through), with a lagging cache of the
deployment (a confirmation already used is read again), with a failure inside
`syncRevisions` (the confirmation of the previous rollout survives) and with a
pod that fails after the confirmation (the rollout times out, one group starts
without asking and a second one on the confirmation);
`DeletedFirst` with a lagging cache (`rolloutDeleteAllFirst` creates the new
subset next to one that the cache does not show yet, against
`api/v1beta1/extendeddeployment_types.go:51`);
`ZeroDowntime` for ReCreate with rollbacks in the middle of a rollout (available
pods of the new subset above its replicas count as capacity,
`subset_control.go:648`), and for RollingUpdate with a scale-down in the middle
of a rollout (sizes 2 and 4, surge 3: `rolling.go:83` takes the replicas of the
subsets for their available pods, and the new subset, shrunk before its pods
are up, covers for old ones that are removed).

In place: a template applied in the middle of an update keeps the old
`updatePodNum`, because `CheckInplaceUpdate` deletes the annotation
(`subset_control.go:497`) after it has read it, and two groups are out at once
(`Interrupt = TRUE`); a scale-down in the middle of an update can leave pods of
the old template (the FIXME in `groupSubset`); without the readiness gate and
with a grace period `UpdatedAtTheEnd` fails, and so it does with stale lists
(`lags` counts them); with a stale list and two edits `refreshPod` opens a gate
that was closed for an update, during the grace period, and a serving pod is
patched, against `api/v1beta1/inplaceset_types.go:30`; one
stale list can add a whole group to those out of service (4 pods in groups of 2:
the pods already updated look untried, and two others are chosen). InPlaceOnly
refuses the first install and every scale. `updateInplaceSetStatus` reports
success after two refused updates.

Rescheduling: a deployment that is progressing when its region is checked is
never flagged for that change (`failure.go:110`); after a restart a healthy
region that is checked first takes the flag away for a while, and a shortage at
that moment moves replicas back into the failed region; a failed and a short
region at once lose replicas; a short region that runs more than configured
gains some; `FailureRegion` in the plan is always empty (value receiver), so
replicas never come home after a recovery until the generation changes; regions
with equal room are taken in map order and plans may flip between reconciles;
the room of a region ignores what runs there; `RescheduleInsufficientPods`
recognises a failed region by the replicas it has lost (`reschedule.go:149`), so
one with none configured may be given some right after a restart; only InplaceSets are looked up, so
deployments with other subset types are never flagged; negative counts pass the
webhook and fail in `ParseRegionReplicas`; the reschedule controller reads the
region controller's cache without a lock.

Revisions: a rollback to the current spec leaves its annotation and stops every
later reconcile (`rollback.go:61`); `updateAnnotations` overwrites a rollback-to
annotation, a failed-flag or a plan set since the read; a failure between the
revision and the annotation leaves the old number; a stale list gives a number
twice; with a list older than the previous reconcile's the newest revision could
be another one than the spec's, which the model does not have.

## Proofs

All theorems hold for every value of the constants that satisfies the
assumptions of the modules (finite sets, natural numbers). Where a theorem needs
more, its scope is a named hypothesis, stated below and in the module; the
violations and limits above say how the property fails without it.

**Rollout** (`RolloutProofs`, `ConfirmProofs`, `StrategyProofs`,
`DowntimeProofs`)

| theorem | scope | statement |
|---|---|---|
| `TypeCorrect` | all | `[]TypeOK`, with caches however stale |
| `OneGroupAtATime` | ReCreate, one region, current cache of the subsets, no faults | `[]OneGroupInFlight` |
| `GroupsWaitForConfirm` | current caches, no faults; any strategy and number of regions | `ConfirmGate` |
| `OldPodsGoneFirst` | DeleteAllFirst, current cache of the subsets; faults | `[]DeletedFirst` |
| `WithinMaxSurge` | RollingUpdate, current cache of the subsets; faults, any number of regions | `[]SurgeBound` |
| `ServedThroughout` | ReCreate, newer templates only (no rollback), current cache of the subsets; reconciles cut off anywhere, any number of regions; no pod fails by itself | `[]ZeroDowntime` |
| `RollingServed` | RollingUpdate of one region, rollbacks included, current cache of the subsets; reconciles cut off anywhere; no pod fails by itself, no size is reduced | `[]ZeroDowntime` |

* `TypeOK` is inductive. The lemmas behind it say that the sums over subsets are
  natural numbers (`SpecReplicasType`, by finite cardinalities), that the highest
  revision exists (`MaxRevisionType`, from `FiniteMax`), and that
  `calculateStepSize` and `NewRSNewReplicas` stay within their bounds.
* `GroupInv` (one group): a write uses a size computed earlier, so the property
  is not inductive. As long as the reconcile may still grow the new subset
  (`Pending`), the size it read is the one in the API server and the group it saw
  available still is, or the subset must shrink (`Ready`); the sizes of the old
  subsets are those it read (`Copied`).
* `ConfirmInv` (confirmation): the group a reconcile starts on a confirmation uses
  it up; what has to be excluded is a reconcile that starts one without asking
  while an unused "true" is there, since a second group would then follow on it.
  `Settled` is the reason: the annotation exists only while the last group is
  available in every region and Progressing is not False, and from there each
  reconcile asks. The rest ties the snapshot to the annotation and to the sizes
  the loops will write.
* `FirstInv` (DeleteAllFirst): the reconcile grows a subset only while the
  emptiness it has read of the others lasts. Nothing starts a pod in a subset
  with no replicas, and the reconcile writes to one region only, so what it read
  cannot be made untrue by its own earlier writes.
* `SurgeInv` (surge): a new subset is made larger on sizes that still hold, old
  ones are only made smaller. The replicas of a region are a cardinality
  (`PodsCounted`); `FewerReplicas` and `OldAndNew` say how it changes with one
  subset.
* `ZeroInv` (served throughout): that enough pods serve is not inductive, since
  what a reconcile deletes or shrinks it computes from what it read.
  `LoopInv` says why each write is safe: what was read of a region is no more
  than there is (`AsRead`: as long as no pod fails, pods of a subset only come,
  up to its size); `left` is still within `MaxCleanupCount` of that copy, and an
  old subset is shrunk only after the cleanup found all old subsets steady, so
  what shrinking takes are serving pods and the budget counts them; and old subsets
  are deleted after saturation only while the new one alone has the size the
  reconcile wants. `StoreInv` is what the next reconcile may start from, wherever
  the last one was cut off. A pod that fails does break the bound, and so does a
  rollback (see the limits above); both are outside the scope.
* `ServedInv` (rolling served): `scaleDownOldSubsetsForRollingUpdate` takes the
  replicas asked for as available pods (`rolling.go:83`), so the invariant has to
  say when they are. With one region a reconcile gets past `checkIfTermReady` only
  with a new subset that is missing or, as sizes only grow, no larger than wanted
  and wholly available (`RollRead`). `cleanupUnhealthyReplicas` then either uses up
  the room (and nothing more may go) or leaves every old subset steady, and from
  there the loop over the old subsets takes as many serving pods as it counts
  (`AllServe`). Both conditions of the scope are needed: with two regions the
  floor is lost (`rolling_regions`), and so it is with a scale-down in the middle
  of a rollout (see the limits above). The deployment read may lag: `Growing` says
  that the size read last still bounds every subset.

**In place** (`InplaceRolloutProofs`)

| theorem | scope | statement |
|---|---|---|
| `TypeCorrect` | all | `[]TypeOK`, stale lists included |
| `PatchedOutOfService` | readiness gate; any faults, interrupted updates included | `OutOfServiceWhenPatched` |
| `GroupsDoNotOverlap` | readiness gate, an edit of the template only after the last one is rolled out, no change of the size; any faults | `[]OneGroupUpdating` |
| `UpdatedWhenOver` | the same | `[]UpdatedAtTheEnd` |
| `SomePodServes` | the same | `[]NeverAllOut` |

All but the first speak of the time before the first stale list (`NeverAllOut` of
that before the first fault), with or without a grace period.

* `GateInv`: a pod in its grace period, and the one whose gate this reconcile has
  closed and not yet patched, are out of service and stay so; while `refreshPods`
  works, a pod whose listed copy has no grace period has none, so its gate may be
  opened. The last part is what a stale list breaks, so the invariant holds while
  `lags` is 0.
* `GroupInv`: how many pods are out of service depends on what two controllers
  have read of each other, so the bound is not inductive. `ShapeInv` says which
  annotations, conditions and images of a pod go together (`Coherent`), and that a
  pod of an older update never has the images of the current one. `ListInv` ties
  the list of a reconcile to the pods since: a hash changes only in the loop over
  the pods it has chosen. `SpecInv` is the handshake over the update spec: a
  reconcile still at work for the last template ends before the status can carry
  the hash of the new one, and the rollout raises `updatePodNum` only after that.
  `CountInv` counts: pods reached or chosen are at most `updatePodNum`, which is
  at most a group above those that serve again; what a status will report, the
  list it is computed from and what the rollout has read of it are no more than
  serve now. Each fault may cost one of these (a lost pod), or add a stray, a pod
  whose gate was closed for an update that did not reach it. `EndInv`: once the
  update is or will be declared over, every pod is at the template; every pod
  created since has it, and no other is chosen.
* A step changes a pod in one of a few ways (`CalmStep`, `TryStep`), so that what
  each part needs of the pods is shown once for each way and not for each action.
* The size is fixed because the sizes of the InplaceSet, of the list and of the
  spec differ while it changes, and `Cardinality(Done) >= desired` then no longer
  means all pods. TLC finds no violation with changes of the size between updates.

**Rescheduling** (`FailoverProofs`), without a further scope,
for all regions, nodes, resources, specs, edits, node changes, restarts and
refused updates: `TypeCorrect` (`[]TypeOK`: no plan and no rollout asks for less
than no replicas), `TotalRounded` (`[]RoundedTotal`), `PlanCurrent`
(`[]PlanForSpec`), `FlaggedEmptiedByPlan` (`FlaggedGetNothing`) and
`PlansBalanced` (`NothingLost`).

* `PlanInv` and `ReplicaInv`: the stored plan says nothing of the one a reconcile
  has computed and not written yet. They add that such a plan is for the spec,
  the flags and the pods as they are while nobody wrote to the deployment since
  it was read, the only case in which the update succeeds, and that the spec is
  one the webhook admits.
* The first part of `FailoverProofs` shows that the sum (a fold in some order) does not depend on the order of
  the regions, is additive, and changes as one entry does; `MovesExists` and
  `MovedAfter` what moving replicas one by one (a recursive function) leaves in each region. The induction over
  finite sets is by a least counterexample (`LeastNatural`, `SetInduction`).

**Revisions** (`RevisionsProofs`), without a further scope: `TypeCorrect`,
`HistoryImplements` (`ImplementsLastRevision`, the refinement, with stale lists
and faults), `NumbersUnique` (`[]NumbersNotReused`), `AnnotationCurrent`
(`[]AnnotatedNewest`) and `HistoryLimited` (`[]HistoryBounded`).

* `RevInv` is what a list that lags behind still says of the revisions: none has
  a number above the next one, one that the list has is as old as it says, and
  one that it lacks has the next number and is younger than all of the list.
  So the revision just written is the newest, and truncation keeps it.
* `NumInv`: without faults the list is current until the write, and every number
  given is below the next one.
* `HistInv`: a reconcile that will truncate too little, because its list is
  behind, has been paid for by a fault.

**Only model-checked.** Liveness under fairness is out of the prover's reach:
`Converges` of both modules, `FlaggedEmptied`, `EditTakesEffect`, `Recorded`.
Not proved: `ZeroDowntime` with a lagging cache of the subsets and for
RollingUpdate with sizes that are reduced between rollouts, and the three group
properties in place across changes of the size.

## Plan

1. `ZeroDowntime` for a lagging cache of the subsets, with two templates and one
   size (what `recreate_lagging` checks).
2. `OneGroupUpdating`, `UpdatedAtTheEnd` and `NeverAllOut` with changes of the
   size between updates.
3. The refinement of the subset controller that `Rollout` assumes
   (`PodAvailable`, `PodsRemoved`, `PodFails`) by `InplaceSet`.

## Not modelled

Overrides and template merging, validation of pod templates and labels, hashes
(contents of one object, no state); ownership of objects (`refmanager`: one
owner per object is assumed); regions created or deleted at run time and
regions that leave the spec (`checkRegions`, `ClearUnused`); a change of the
strategy during a rollout (`UpdateSubsetStrategy`); collisions of revision
names; the pods the region controller counts per node, which nothing reads;
generated code, flags, clients and start-up, whose effect is that caches lag and
that a reconcile may end anywhere.
