------------------------------ MODULE Failover ------------------------------
(***************************************************************************)
(* Automatic rescheduling: the reschedule controller moves replicas out of *)
(* the regions in the failed-flag annotation and of regions whose pods     *)
(* stay pending for lack of resources.  It writes the moves as the         *)
(* reschedule annotation (the plan); the rollout follows it.               *)
(*                                                                         *)
(* Composed here with the region controller, nodes, the user, and of the   *)
(* rollout only that it brings every region to its desired replicas, or    *)
(* stops on the way at pods that do not come up.                           *)
(***************************************************************************)
EXTENDS RegionHealth

CONSTANTS
    Specs, FirstSpec, \* what the user may ask for, ever and at first
    Used,             \* [Regions -> Nat], replicas' worth of room taken by other pods
    MaxEdits          \* bound on the edits of the spec

VARIABLES newPlan, \* the plan about to be written, as a set of at most one; once it is
                   \* written, its condition is to follow
          edits

vars == <<up, deployVars, cacheVars, stale, faults, changes, newPlan, edits>>

ASSUME FailoverAssumption ==
    /\ Specs \subseteq SpecType /\ FirstSpec \in Specs
    /\ CompareReplicas(FirstSpec) /\ Parses(FirstSpec)
    /\ Used \in [Regions -> Nat] /\ MaxEdits \in Nat

\* AutoScheduleSpec: the generation it was made for (0: no annotation), and per
\* region Config and Schedule.  FailureRegion is always empty: the method that
\* fills it in works on a copy.
Zero   == [r \in Regions |-> 0]
NoPlan == [generation |-> 0, config |-> Zero, schedule |-> Zero]
PlanType == [generation : Nat, config : [Regions -> Nat], schedule : [Regions -> Int]]

\* groupSubset: the plan counts, whatever generation it is for.
DesiredReplicas(r) ==
    IF plan # NoPlan THEN plan.config[r] + plan.schedule[r]
    ELSE ParseRegionReplicas(spec.total, spec.want[r])

\* The pods of a region that wait for resources (QueryInsufficientPodsBySubset).
Room == [r \in Regions |-> AtLeastZero(SumOver(Capacity, NodesOf(r)) - Used[r])]
Pending(r) == AtLeastZero(placed[r] - Room[r])

-----------------------------------------------------------------------------
(* Plans: n is the replicas planned for each region, free what it can still *)
(* take in                                                                 *)

\* reschedule: to the region that can take in most.  Equals are taken in the order
\* of a map.
MovedOne(x, targets) ==
    LET best == {t \in targets : /\ x.free[t] > 0
                                 /\ \A q \in targets : x.free[q] <= x.free[t]}
        By(f, t, d) == [r \in Regions |-> IF r = t THEN f[r] + d ELSE f[r]]
    IN  {[n |-> By(x.n, t, 1), free |-> By(x.free, t, -1)] : t \in best}

\* k replicas, one by one.  No outcome: ErrWithoutAvailableRegions.
Moved(s, targets, k) ==
    LET Move[i \in 0..k] ==
            IF i = 0 THEN {s} ELSE UNION {MovedOne(x, targets) : x \in Move[i - 1]}
    IN  Move[k]

\* NewScheduleRegionInfo
Start == [n |-> Config(spec), free |-> [r \in Regions |-> AllocatablePodNum(r)]]

\* Mutant: the replicas of a failed region are moved but stay there as well.
KeptInFailed(s, failed) ==
    Moved([s EXCEPT !.n = [r \in Regions |-> s.n[r]]],
          Regions \ failed, SumOver(s.n, failed))

\* RescheduleFailedRegions
RescheduleFailedRegions(s, failed) ==
    Moved([s EXCEPT !.n = [r \in Regions |-> IF r \in failed THEN 0 ELSE s.n[r]]],
          Regions \ failed, SumOver(s.n, failed))

\* RescheduleInsufficientPods: what runs in a region stays, whatever was planned
\* for it before; the rest of its configured replicas is moved.
RescheduleInsufficientPods(s, short) ==
    LET config  == Config(spec)
        running == [r \in Regions |-> placed[r] - Pending(r)]
        targets == {r \in Regions \ short : s.n[r] >= config[r]}
    IN  Moved([s EXCEPT !.n = [r \in Regions |-> IF r \in short THEN running[r] ELSE s.n[r]]],
              targets, SumOver([r \in Regions |-> AtLeastZero(config[r] - running[r])], short))

\* Mutant: Config is not filled in.
PlanWithoutConfig(s) ==
    [generation |-> generation, config |-> Zero,
     schedule |-> [r \in Regions |-> s.n[r] - Config(spec)[r]]]

\* SetRescheduleAnnotation
Plan(s) == LET config == Config(spec)
           IN  [generation |-> generation, config |-> config,
                schedule |-> [r \in Regions |-> s.n[r] - config[r]]]

Plans(failed, short) ==
    {Plan(s) : s \in UNION {RescheduleInsufficientPods(x, short) :
                               x \in RescheduleFailedRegions(Start, failed)}}

-----------------------------------------------------------------------------
(* The reschedule controller                                               *)

Short == {r \in Regions \ flag : Pending(r) > 0}

\* Mutant: the plan of another generation stays.
DropPlanWhenOff ==
    /\ newPlan = {} /\ plan # NoPlan /\ ~spec.autoReschedule
    /\ newPlan' = {NoPlan} /\ stale' = stale \ {"reschedule"}
    /\ UNCHANGED <<up, deployVars, cacheVars, faults, changes, edits>>

\* reconcile when rescheduling is off, or CheckAnnotation finds the plan of
\* another generation: the annotation is to be removed.
DropPlan ==
    /\ newPlan = {} /\ plan # NoPlan
    /\ ~spec.autoReschedule \/ (~progressing /\ plan.generation # generation)
    /\ newPlan' = {NoPlan} /\ stale' = stale \ {"reschedule"}
    /\ UNCHANGED <<up, deployVars, cacheVars, faults, changes, edits>>

\* Mutant: what was rescheduled once is not rescheduled again.
MakePlanOnce ==
    /\ newPlan = {} /\ spec.autoReschedule /\ ~progressing
    /\ plan = NoPlan
    /\ flag # {} \/ Short # {}
    /\ Parses(spec) /\ synced
    /\ stale' = stale \ {"reschedule"}
    /\ UNCHANGED <<up, deployVars, cacheVars, faults, changes, edits>>
    /\ \E p \in Plans(flag, Short) : p # plan /\ newPlan' = {p}

\* reconcile otherwise: the deployment must not be progressing, the pods that
\* wait must have waited for the timeout, and there must be a failed region or
\* such a pod.  (Without any, a plan made earlier is left as it is.)
MakePlan ==
    /\ newPlan = {} /\ spec.autoReschedule /\ ~progressing
    /\ plan = NoPlan \/ plan.generation = generation
    /\ flag # {} \/ Short # {}
    /\ Parses(spec) /\ synced
    /\ stale' = stale \ {"reschedule"}
    /\ UNCHANGED <<up, deployVars, cacheVars, faults, changes, edits>>
    /\ \E p \in Plans(flag, Short) : p # plan /\ newPlan' = {p}

\* Mutant: the update goes through although somebody else wrote.
WritePlanBlindly ==
    /\ \E p \in newPlan : p # plan /\ plan' = p
    /\ stale' = Copies \ {"reschedule"}
    /\ UNCHANGED <<up, spec, generation, flag, progressing, placed, cacheVars, faults, changes,
                   newPlan, edits>>

\* Mutant: the generation is read again just before the update.
WritePlanRestamped ==
    /\ \E p \in newPlan :
          p # plan /\ plan' = IF p = NoPlan THEN p ELSE [p EXCEPT !.generation = generation]
    /\ stale' = Copies \ {"reschedule"}
    /\ UNCHANGED <<up, spec, generation, flag, progressing, placed, cacheVars, faults, changes,
                   newPlan, edits>>

\* The update of the ExtendedDeployment: it succeeds if nobody wrote since,
WritePlan ==
    /\ "reschedule" \notin stale
    /\ \E p \in newPlan : p # plan /\ plan' = p
    /\ stale' = Copies \ {"reschedule"}
    /\ UNCHANGED <<up, spec, generation, flag, progressing, placed, cacheVars, faults, changes,
                   newPlan, edits>>

\* is followed by that of its status (SetRescheduleCondition, DelRescheduleCondition),
WriteCondition ==
    /\ plan \in newPlan /\ "reschedule" \notin stale
    /\ newPlan' = {} /\ stale' = Copies
    /\ UNCHANGED <<up, deployVars, cacheVars, faults, changes, edits>>

\* and either fails otherwise; the request is queued again.
WritePlanFails ==
    /\ newPlan # {}
    /\ \/ "reschedule" \in stale /\ UNCHANGED faults
       \/ "reschedule" \notin stale /\ faults < MaxFaults /\ faults' = faults + 1
    /\ newPlan' = {}
    /\ UNCHANGED <<up, deployVars, cacheVars, stale, changes, edits>>

Reschedule == DropPlan \/ MakePlan \/ WritePlan \/ WriteCondition \/ WritePlanFails

-----------------------------------------------------------------------------
(* The rollout, the user, the process                                      *)

\* checkIfTermReady with p replicas in each region: a region that is not to shrink
\* waits for pods that have no resources, or no node that is ready.
NotReady(p) ==
    \E r \in Regions : 0 < p[r] /\ p[r] <= DesiredReplicas(r) /\ (p[r] > Room[r] \/ Down(r))

\* UpdateProgressing, when ManageSubsets changed something.
RolloutStarts ==
    /\ ~progressing /\ Parses(spec) /\ \E r \in Regions : placed[r] # DesiredReplicas(r)
    /\ ~NotReady(placed)
    /\ progressing' = TRUE /\ stale' = Copies
    /\ UNCHANGED <<up, spec, generation, flag, plan, placed, cacheVars, faults, changes,
                   newPlan, edits>>

\* After ManageSubsets has moved every region up to k replicas closer to what it
\* is to have.
Toward(k) == [r \in Regions |-> LET want == DesiredReplicas(r)
                                IN  IF placed[r] + k < want THEN placed[r] + k
                                    ELSE IF placed[r] - k > want THEN placed[r] - k ELSE want]

\* calculateStatus: all regions are synced, or the timeout passes for a group of
\* pods that do not come up; the groups after it, in all regions, are not started.
RolloutEnds ==
    LET steps(r) == 0..(placed[r] - DesiredReplicas(r)) \cup 0..(DesiredReplicas(r) - placed[r])
    IN  /\ progressing /\ Parses(spec)
        /\ \E k \in UNION {steps(r) : r \in Regions} :
              /\ NotReady(placed) => k = 0
              /\ NotReady(Toward(k)) \/ \A r \in Regions : Toward(k)[r] = DesiredReplicas(r)
              /\ placed' = Toward(k)
        /\ progressing' = FALSE /\ stale' = Copies
        /\ UNCHANGED <<up, spec, generation, flag, plan, cacheVars, faults, changes, newPlan, edits>>

Rollout == RolloutStarts \/ RolloutEnds

\* An edit of the spec that the webhook lets pass (compareForExtendedDeployment).
UserEdit(s) ==
    /\ edits < MaxEdits /\ s # spec /\ CompareReplicas(s)
    /\ spec' = s /\ generation' = generation + 1 /\ edits' = edits + 1
    /\ stale' = Copies
    /\ UNCHANGED <<up, flag, plan, progressing, placed, cacheVars, faults, changes, newPlan>>

Restart ==
    /\ faults < MaxFaults /\ faults' = faults + 1
    /\ CacheLost /\ newPlan' = {}
    /\ UNCHANGED <<up, deployVars, stale, changes, edits>>

Init ==
    /\ RegionInit
    /\ spec = FirstSpec /\ generation = 1 /\ plan = NoPlan /\ progressing = FALSE
    /\ placed = Config(spec)
    /\ newPlan = {} /\ edits = 0

Next ==
    \/ RegionSync /\ UNCHANGED <<newPlan, edits>>
    \/ Reschedule \/ Rollout \/ Restart
    \/ \E n \in Nodes : (NodeFails(n) \/ NodeRecovers(n)) /\ UNCHANGED <<newPlan, edits>>
    \/ \E s \in Specs : UserEdit(s)

Spec == Init /\ [][Next]_vars

\* Every write to the ExtendedDeployment wakes the controllers, and a failed
\* request is queued again.
FairSpec ==
    /\ Spec
    /\ WF_vars(RegionSync /\ UNCHANGED <<newPlan, edits>>)
    /\ WF_vars(Reschedule) /\ WF_vars(Rollout)

-----------------------------------------------------------------------------
(* Properties                                                              *)

\* Every variable keeps to its type; above all no region is ever asked for, or
\* given, less than no replicas.
TypeOK ==
    /\ up \subseteq Nodes /\ seenUp \subseteq Nodes
    /\ spec \in SpecType /\ generation \in Nat \ {0} /\ flag \subseteq Regions
    /\ plan \in PlanType /\ newPlan \subseteq PlanType /\ Cardinality(newPlan) <= 1
    /\ progressing \in BOOLEAN /\ placed \in [Regions -> Nat]
    /\ synced \in BOOLEAN /\ status \in [Regions -> {"unknown", "ok", "failed"}]
    /\ queue \subseteq Regions /\ toCheck \subseteq Regions
    /\ check \in [region : SUBSET Regions, failed : SUBSET Regions]
    /\ stale \subseteq Copies
    /\ faults \in 0..MaxFaults /\ changes \in 0..MaxNodeChanges /\ edits \in 0..MaxEdits

\* Percentages the webhook admits give the configured total up to the rounding
\* of each region.
RoundedTotal ==
    (Parses(spec) /\ \A r \in Regions : spec.want[r].kind = "percent")
        => LET off == Total(Config(spec)) - spec.total
           IN  2 * off <= Cardinality(Regions) /\ -2 * off <= Cardinality(Regions)

\* A plan that counts as current was made from the spec as it is: a user's edit
\* between reading the deployment and writing the plan is not overlooked.
PlanForSpec == plan # NoPlan /\ plan.generation = generation => plan.config = Config(spec)

\* A plan takes every replica configured for it from a region that is flagged when
\* the plan is written, and gives it none, although the flag is another
\* controller's.
FlaggedGetNothing ==
    [][plan' # plan /\ plan' # NoPlan
          => \A r \in flag : plan'.config[r] > 0 => plan'.config[r] + plan'.schedule[r] = 0]_vars

\* Moving replicas out of failed regions neither loses nor adds replicas, and so
\* does moving them out of regions that are short of resources, as long as those
\* run no more than they were configured to.  (Both at once may lose some.)
NothingLost ==
    [][plan' # plan /\ (Short = {} \/ (flag = {} /\ \A r \in Short : Room[r] <= Config(spec)[r]))
          => Total(plan'.schedule) = 0]_vars

\* In the end no replica is left in a flagged region, if the other regions have
\* room and nodes that are ready: plans made for other flags, for pods that wait or
\* for an earlier spec do not last.  (A region that is down and not flagged, as the
\* failure went undetected or was found while the deployment was progressing, may
\* keep the rollout waiting for ever.)
FlaggedEmptied ==
    <>[](spec.autoReschedule /\ Parses(spec) /\ (\A r \in Regions : Down(r) => r \in flag)
            => \A r \in flag : placed[r] = 0)

\* A plan of an earlier generation does not outlive the edit for ever.
EditTakesEffect ==
    <>[](Parses(spec) => plan = NoPlan \/ plan.generation = generation)

\* README.md, Partition Fault Detection: a region all of whose nodes are faulty
\* from some time on is detected to have failed.
FailureDetected == \A r \in Regions : []<>~Down(r) \/ <>(status[r] = "failed")
=============================================================================
