---------------------------- MODULE RegionHealth ----------------------------
(***************************************************************************)
(* The DeployRegion controller: it keeps a cache of the nodes of each      *)
(* region, declares a region failed when none of its nodes is ready, and   *)
(* lists the failed regions in the failed-flag annotation of every         *)
(* ExtendedDeployment with replicas there (one, in this model).            *)
(*                                                                         *)
(* Node events carry the key of a pod event, so handleNodeEvent is never   *)
(* reached: the cache learns of a node only when it is rebuilt after a     *)
(* start of the process.                                                   *)
(***************************************************************************)
EXTENDS Replicas

CONSTANTS
    Nodes, NodeRegion, \* the nodes, and the region of each
    NodeResource,      \* [Nodes -> Resource], what a node can allocate when empty
    Request,           \* the Resource a replica requests
    MaxFaults,         \* bound on restarts and failed calls
    MaxNodeChanges     \* bound on nodes that fail or recover

VARIABLES
    up,         \* the nodes that are ready
    spec, generation, flag, plan, progressing, placed, \* the ExtendedDeployment
    synced, seenUp, status, \* the cache: filled?, ready nodes, status of the regions
    queue, toCheck, check,  \* requests for regions, the regions to be checked, the write to come
    stale,      \* controllers whose copy of the ExtendedDeployment is outdated
    faults, changes

deployVars == <<spec, generation, flag, plan, progressing, placed>>
cacheVars  == <<synced, seenUp, status, queue, toCheck, check>>

\* Resource; a request has no pods, and some cpu or memory (RequestResourceByRegion).
Divisible == {"cpu", "memory", "storage"}
Resource  == [Divisible \cup {"pods"} -> Int]

ASSUME RegionHealthAssumption ==
    /\ IsFiniteSet(Nodes) /\ NodeRegion \in [Nodes -> Regions]
    /\ NodeResource \in [Nodes -> Resource] /\ Request \in Resource
    /\ \A n \in Nodes, d \in DOMAIN Request : NodeResource[n][d] >= 0
    /\ \A d \in Divisible : Request[d] >= 0
    /\ Request["pods"] = 0 /\ Request["cpu"] + Request["memory"] > 0
    /\ MaxFaults \in Nat /\ MaxNodeChanges \in Nat

NodesOf(r) == {n \in Nodes : NodeRegion[n] = r}
Down(r)    == NodesOf(r) # {} /\ NodesOf(r) \cap up = {}
Copies     == {"region", "reschedule"}
NoCheck    == [region |-> {}, failed |-> {}]
Unknown    == [r \in Regions |-> "unknown"]

\* CheckRegionStatus compares the share of nodes that are not ready with
\* regionFailureRate and regionResumeRate.  Without nodes it is not a number.
RegionStatus(r) ==
    IF NodesOf(r) = {} THEN "unknown"
    ELSE IF NodesOf(r) \cap seenUp = {} THEN "failed"
    ELSE IF NodesOf(r) \subseteq seenUp THEN "ok" ELSE "unknown"

\* The failed regions as CheckRegionStatus sees them while it checks r.
FailedRegions(r) == {q \in Regions : (IF q = r THEN RegionStatus(r) ELSE status[q]) = "failed"}

\* Go divides towards zero: a node with less than one request has 0 left after
\* SubResource and the division, one with nothing at all has -1.
Quotient(a, b) == IF a >= 0 THEN a \div b ELSE -((-a) \div b)

SubResource(a, b) == [d \in DOMAIN a |-> a[d] - b[d]]
MaxDivided(res, req) ==
    Min({res["pods"]} \cup {Quotient(res[d], req[d]) : d \in {d \in Divisible : req[d] > 0}})

\* The replicas a node can hold when empty.
Capacity == [n \in Nodes |-> MaxDivided(NodeResource[n], Request)]

\* GetRegionAllocatablePodNum: each node's allocatable resources less one request,
\* divided by the request; what the pods on the node use is not subtracted, and
\* nodes that are not ready count unless the whole region has failed.
Allocatable ==
    LET room == [n \in Nodes |-> MaxDivided(SubResource(NodeResource[n], Request), Request)]
    IN  [r \in Regions |-> SumOver(room, NodesOf(r))]
AllocatablePodNum(r) == IF status[r] = "failed" THEN 0 ELSE Allocatable[r]

-----------------------------------------------------------------------------
(* Sync                                                                    *)

\* waitCacheSynced, by the first request after a start.
RebuildCache ==
    /\ ~synced
    /\ synced' = TRUE /\ seenUp' = up /\ status' = Unknown
    /\ toCheck' = Regions /\ check' = NoCheck
    /\ UNCHANGED <<up, deployVars, queue, stale, faults, changes>>

\* handleRegionEvent for a region in the cache.
RegionEvent(r) ==
    /\ synced /\ toCheck = {} /\ r \in queue
    /\ toCheck' = {r}
    /\ UNCHANGED <<up, deployVars, synced, seenUp, status, queue, check, stale, faults, changes>>

CheckDone(r) ==
    /\ status' = [status EXCEPT ![r] = RegionStatus(r)]
    /\ toCheck' = toCheck \ {r} /\ queue' = queue \ {r} /\ check' = NoCheck
    /\ UNCHANGED <<synced, seenUp>>

\* CheckRegionStatus without a write: nothing changed, the deployment is
\* progressing (and is then left alone for good), or the flag is right.
CheckRegionStatus(r) ==
    /\ r \in toCheck /\ check = NoCheck
    /\ status[r] = RegionStatus(r) \/ progressing \/ flag = FailedRegions(r)
    /\ CheckDone(r)
    /\ UNCHANGED <<up, deployVars, stale, faults, changes>>

\* CheckRegionStatus up to the call of setFailureAnnotation.
CheckRegionStatusReads(r) ==
    /\ r \in toCheck /\ check = NoCheck
    /\ status[r] # RegionStatus(r) /\ ~progressing /\ flag # FailedRegions(r)
    /\ check' = [region |-> {r}, failed |-> FailedRegions(r)]
    /\ stale' = stale \ {"region"}
    /\ UNCHANGED <<up, deployVars, synced, seenUp, status, queue, toCheck, faults, changes>>

\* setFailureAnnotation: the update succeeds if nobody wrote in the meantime.
SetFailureAnnotation ==
    /\ "region" \notin stale
    /\ \E r \in check.region : CheckDone(r)
    /\ flag' = check.failed /\ stale' = Copies
    /\ UNCHANGED <<up, spec, generation, plan, progressing, placed, faults, changes>>

\* It fails, of a conflict or otherwise: stopReconcile ends the request, which is
\* queued again if it is one for a region.
SetFailureAnnotationFails ==
    /\ check # NoCheck
    /\ \/ "region" \in stale /\ UNCHANGED faults
       \/ "region" \notin stale /\ faults < MaxFaults /\ faults' = faults + 1
    /\ toCheck' = {} /\ check' = NoCheck
    /\ UNCHANGED <<up, deployVars, synced, seenUp, status, queue, stale, changes>>

RegionSync ==
    \/ RebuildCache \/ SetFailureAnnotation \/ SetFailureAnnotationFails
    \/ \E r \in Regions : RegionEvent(r) \/ CheckRegionStatus(r) \/ CheckRegionStatusReads(r)

-----------------------------------------------------------------------------
(* Nodes                                                                   *)

\* The pods on a node that fails become unavailable; the deployment may then
\* count as progressing until the timeout of its rollout.
NodeFails(n) ==
    /\ n \in up /\ changes < MaxNodeChanges
    /\ up' = up \ {n} /\ changes' = changes + 1
    /\ \/ UNCHANGED <<progressing, stale>>
       \/ ~progressing /\ placed[NodeRegion[n]] > 0 /\ progressing' = TRUE /\ stale' = Copies
    /\ UNCHANGED <<spec, generation, flag, plan, placed, cacheVars, faults>>

NodeRecovers(n) ==
    /\ n \in Nodes \ up /\ changes < MaxNodeChanges
    /\ up' = up \cup {n} /\ changes' = changes + 1
    /\ UNCHANGED <<deployVars, cacheVars, stale, faults>>

\* A new process: an empty cache, and a request for every region.
CacheLost ==
    /\ synced' = FALSE /\ status' = Unknown /\ seenUp' = {}
    /\ queue' = Regions /\ toCheck' = {} /\ check' = NoCheck

RegionInit ==
    /\ up = Nodes /\ flag = {}
    /\ synced = FALSE /\ status = Unknown /\ seenUp = {}
    /\ queue = Regions /\ toCheck = {} /\ check = NoCheck
    /\ stale = {} /\ faults = 0 /\ changes = 0
=============================================================================
