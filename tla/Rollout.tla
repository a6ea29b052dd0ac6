------------------------------ MODULE Rollout ------------------------------
(***************************************************************************)
(* The ExtendedDeployment controller rolling one deployment out over its   *)
(* regions, with the update strategies ReCreate (the default one),         *)
(* RollingUpdate and DeleteAllFirst.                                       *)
(*                                                                         *)
(* A subset (InplaceSet, ReplicaSet or Deployment) is identified by its    *)
(* region and the pod template it was created from: its name is the        *)
(* deployment's name, the region and the hash of the template.  The        *)
(* controller reads subsets and the deployment from informer caches that   *)
(* lag behind the API server, works on those copies, and writes to the API *)
(* server, where an update made from an outdated copy is refused.          *)
(*                                                                         *)
(* One reconcile is a sequence of steps, one per API write, so that pods,  *)
(* users, the cache and failures interleave with it.  pc says where it is; *)
(* snap and info are what it read, todo, cur, rest and left its loops.     *)
(***************************************************************************)
EXTENDS Integers, FiniteSets

CONSTANTS
    Regions,               \* spec.regions
    Templates,             \* the pod templates the user ever applies, 1..n
    Sizes,                 \* the replicas per region the user ever asks for
    UpdateStrategy,        \* spec.strategy.updateStrategy.type
    MaxSurge,              \* rollingUpdate.maxSurge, resolved to a number
    MaxUnavailable,        \* rollingUpdate.maxUnavailable, resolved to a number
    BatchSize,             \* spec.strategy.batchSize
    RolloutStrategy,       \* "Group" or "Beta"
    NeedWaitingForConfirm, \* spec.strategy.needWaitingForConfirm
    NeedFirstConfirm,      \* spec.strategy.needFirstConfirm
    HistoryLimit,          \* spec.historyLimit
    Installed,             \* TRUE: an upgrade of a running deployment; FALSE: a first install
    Rollbacks,             \* may the user go back to an earlier template?
    Lagging,               \* the informer caches that lag: of "subsets", of the "deployment"
    MaxEdits,              \* bound on the edits of the spec
    MaxFaults              \* bound on pod failures and aborted reconciles

VARIABLES
    template,  \* the template in the spec
    desired,   \* [Regions -> Nat], DesiredReplicas of each region
    lastRev,   \* the spec (template and sizes) in the newest ControllerRevision
    confirm,   \* the upgrade-confirm annotation: "none", "false" or "true"
    cond,      \* status of the Progressing condition: "none", "True", "False"
    term,      \* LastTermStartTime: "none", "running", or "expired" once SyncWaitTimeout has passed
    seen,      \* the deployment in the controller's informer cache
    sub,       \* [Regions -> [Templates -> Subset]]: the subsets in the API server
    cache,     \* the same in the informer cache
    pc, snap, info, todo, cur, rest, left,  \* the reconcile in progress
    granted,      \* history: may region r start a group (see UserConfirm)?
    edits, faults \* the bounds used up

userVars   == <<template, desired, lastRev, confirm, edits>>
statusVars == <<cond, term, seen>>
storeVars  == <<sub, cache, granted>>
loopVars   == <<snap, info, todo, cur, rest, left>>
vars == <<template, desired, lastRev, confirm, cond, term, seen, sub, cache, granted,
          pc, snap, info, todo, cur, rest, left, edits, faults>>

ASSUME RolloutAssumption ==
    /\ IsFiniteSet(Regions) /\ Regions # {}
    /\ Templates \subseteq Nat \ {0} /\ IsFiniteSet(Templates) /\ 1 \in Templates
    /\ Sizes \subseteq Nat /\ IsFiniteSet(Sizes) /\ Sizes # {}
    /\ UpdateStrategy \in {"ReCreate", "RollingUpdate", "DeleteAllFirst"}
    /\ MaxSurge \in Nat /\ MaxUnavailable \in Nat
    /\ BatchSize \in Nat \ {0}
    /\ RolloutStrategy \in {"Group", "Beta"}
    /\ NeedWaitingForConfirm \in BOOLEAN /\ NeedFirstConfirm \in BOOLEAN
    /\ HistoryLimit \in Nat
    /\ Installed \in BOOLEAN /\ Rollbacks \in BOOLEAN
    /\ Lagging \subseteq {"subsets", "deployment"}
    /\ MaxEdits \in Nat /\ MaxFaults \in Nat

-----------------------------------------------------------------------------
(* Subsets                                                                 *)

\* spec.replicas, status.availableReplicas and the revision annotation of a
\* subset; live is FALSE for one that does not exist.
Subset == [live : BOOLEAN, spec : Nat, avail : Nat, rev : Nat]
Absent == [live |-> FALSE, spec |-> 0, avail |-> 0, rev |-> 0]

WithSpec(s, n)  == [live |-> s.live, spec |-> n, avail |-> s.avail, rev |-> s.rev]
WithAvail(s, n) == [live |-> s.live, spec |-> s.spec, avail |-> n, rev |-> s.rev]
WithRev(s, n)   == [live |-> s.live, spec |-> s.spec, avail |-> s.avail, rev |-> n]
Deleted(s)      == [live |-> FALSE, spec |-> s.spec, avail |-> s.avail, rev |-> s.rev]

NoSubsets == [r \in Regions |-> [t \in Templates |-> Absent]]

Lesser(a, b) == IF a < b THEN a ELSE b

\* The replicas asked for by the subsets ts of one region: each is a pair of a
\* subset and an index, and their number is the sum of the sizes.
SpecReplicas(ss, ts) == Cardinality(UNION {{t} \X (1..ss[t].spec) : t \in ts})

\* The highest revision among the subsets ts (0 when there is none).
MaxRevision(ss, ts) == CHOOSE m \in {0} \cup {ss[t].rev : t \in ts} :
                           \A t \in ts : ss[t].rev <= m

\* groupSubset: every subset of a region that does not carry the deployment's
\* template is old.
Olds(ss, t) == {o \in Templates \ {t} : ss[o].live}

\* groupSubset: ReplicasDesired and AvailableDesired of the subset new (both
\* stay false while there is none).
ReplicasDesired(new, want) == new.live /\ new.spec = want

\* Mutant: a group counts as available with one pod missing.
NearlyAvailable(new, want) == new.live /\ (want < new.spec \/ new.avail + 1 >= new.spec)

AvailableDesired(new, want) == new.live /\ (want < new.spec \/ new.avail >= new.spec)

\* Mutant: checkSaturated does not ask for availability.
SaturatedInSize(new, want) == ReplicasDesired(new, want)

Saturated(new, want) == ReplicasDesired(new, want) /\ AvailableDesired(new, want)

\* Mutant: the last replica is never asked for.
StepSizeOneShort(want, replicas) ==
    IF want > replicas THEN Lesser(BatchSize, want - replicas - 1)
                       ELSE -Lesser(BatchSize, replicas - want)

\* calculateStepSize: how far one group moves a subset of `replicas` pods
\* towards `want`, negative when it must shrink.
CalculateStepSize(want, replicas) ==
    LET step == IF RolloutStrategy = "Beta" /\ replicas = 0 THEN 1 ELSE BatchSize
    IN  IF want >= replicas THEN Lesser(step, want - replicas)
                            ELSE -Lesser(step, replicas - want)

\* Mutant: the replicas of the new subset count as available.
CleanupCountBySpec(ss, t, want) == SpecReplicas(ss, Olds(ss, t)) + ss[t].spec - want

\* regionSyncOnce: the old replicas that the available new ones make superfluous.
MaxCleanupCount(ss, t, want) == SpecReplicas(ss, Olds(ss, t)) + ss[t].avail - want

\* Mutant: the surge pods are taken for unavailable ones.
MinAvailableLessSurge(want) == want - MaxUnavailable - MaxSurge

\* ResolveFenceposts: with no surge and nothing unavailable one pod may be.
MinAvailable(want) ==
    want - (IF want = 0 THEN 0 ELSE IF MaxSurge = 0 /\ MaxUnavailable = 0 THEN 1
                                                                         ELSE MaxUnavailable)

\* reconcileOldSubsets: the old pods that may go.
MaxScaleDown(ss, t, want) ==
    SpecReplicas(ss, Olds(ss, t)) + ss[t].spec - MinAvailable(want) - (ss[t].spec - ss[t].avail)

\* Mutant: the pods of the old subsets do not count.
SurgePerSubset(want, total, n) == n + Lesser(MaxSurge + 1, want - n)

\* NewRSNewReplicas: the size of a new subset of n replicas when the subsets of
\* its region ask for total replicas.
RollingReplicas(want, total, n) ==
    IF total >= want + MaxSurge THEN n
                                ELSE n + Lesser(want + MaxSurge - total, want - n)

\* Mutant: only old subsets with available pods are scaled down.
SizedIfAvailable(ss, olds) == {o \in olds : ss[o].avail # 0}

\* The old subsets that still ask for replicas.
Sized(ss, olds) == {o \in olds : ss[o].spec # 0}

\* Mutant: an old subset kept for the history counts as running.
OldSubsetsExist(ss, olds) == olds # {}

\* oldPodsRunning (pods that are not available are not modelled).
OldPodsRunning(ss, olds) == \E o \in olds : ss[o].avail > 0

\* checkIfTermReady returns at the first region of a map iteration that has no
\* new subset or whose group is not available: any such region may come first.
TermFlags(ss, t, want) ==
    LET init     == \E r \in Regions : ~ss[r][t].live
        notReady == \E r \in Regions : ss[r][t].live /\ ~AvailableDesired(ss[r][t], want[r])
    IN  {f \in {"init", "notReady", "ready"} :
            \/ f = "init" /\ init
            \/ f = "notReady" /\ notReady
            \/ f = "ready" /\ ~init /\ ~notReady}

-----------------------------------------------------------------------------
(* Writing to the API server, and ending a reconcile                       *)

\* The deployment as it is, and as the controller reads it.
Deployment == [template |-> template, desired |-> desired, confirm |-> confirm, cond |-> cond]
Seen == IF "deployment" \in Lagging THEN seen ELSE Deployment

\* An update of the deployment's annotations or status is accepted: its retries
\* end when the cache shows the current deployment.
Fresh == Seen = Deployment

\* The informer sees a write at once unless the cache may lag.
Published == cache' = IF "subsets" \in Lagging THEN cache ELSE sub'

\* An update starts from the cached object and is refused with a conflict
\* unless that is the current one; five immediate retries read the same cache.
CacheCurrent(r, t) == sub[r][t].live /\ cache[r][t] = sub[r][t]

\* ScaleSubset, when the update is accepted: the replicas are set to n, a value
\* computed from the reconcile's copy.  A write that makes a subset of the
\* current template larger starts a group in its region.
SetReplicas(r, t, n) ==
    /\ CacheCurrent(r, t)
    /\ sub' = [sub EXCEPT ![r][t] = WithSpec(@, n)]
    /\ Published
    /\ granted' = IF n > sub[r][t].spec THEN [granted EXCEPT ![r] = FALSE] ELSE granted

NoWrite == UNCHANGED storeVars

AnyRegion == CHOOSE r \in Regions : TRUE
NoSnap == [tmpl |-> 1, want |-> [r \in Regions |-> 0], confirm |-> "none", progressing |-> FALSE]

\* The reconcile ends: with success, with an error, or by the recovered panic.
Return == /\ pc' = "idle" /\ snap' = NoSnap /\ info' = NoSubsets
          /\ todo' = {} /\ cur' = AnyRegion /\ rest' = {} /\ left' = 0

-----------------------------------------------------------------------------
(* Reconcile: from reading the deployment to the decision what to do       *)

SpecChanged == lastRev # <<Seen.template, Seen.desired>>

\* syncRevisions, when the spec differs from the last revision: the confirm
\* annotation of the previous rollout is removed and the reconcile ends.
SyncRevisions ==
    /\ pc = "idle" /\ SpecChanged /\ Fresh
    /\ lastRev' = <<template, desired>> /\ confirm' = "none"
    /\ UNCHANGED <<template, desired, edits, statusVars, storeVars, pc, loopVars, faults>>

\* syncRevisions fails after it stored the revision and before it updated the
\* annotations: the next reconcile finds the revision in place and goes on
\* with the confirm annotation of the previous rollout.
SyncRevisionsFails ==
    /\ pc = "idle" /\ SpecChanged
    /\ lastRev' = <<Seen.template, Seen.desired>>
    /\ \/ ~Fresh /\ UNCHANGED faults
       \/ faults < MaxFaults /\ faults' = faults + 1
    /\ UNCHANGED <<template, desired, confirm, edits, statusVars, storeVars, pc, loopVars>>

\* Reconcile up to the branch on checkSaturated and checkIfTermReady.
ReconcileStart ==
    LET t    == Seen.template
        want == Seen.desired
    IN  /\ pc = "idle" /\ ~SpecChanged
        /\ snap' = [tmpl |-> t, want |-> want, confirm |-> Seen.confirm,
                    progressing |-> Seen.cond # "False"]
        /\ info' = cache
        /\ todo' = Regions
        /\ \/ /\ \A r \in Regions : Saturated(cache[r][t], want[r])
              /\ pc' = "saturated"
           \/ /\ \E r \in Regions : ~Saturated(cache[r][t], want[r])
              /\ \E flag \in TermFlags(cache, t, want) :
                    pc' = CASE flag = "init" -> "manage"
                            [] flag = "notReady" -> "wait"
                            [] flag = "ready" -> IF Seen.cond # "False" THEN "confirm" ELSE "manage"
        /\ UNCHANGED <<userVars, statusVars, storeVars, cur, rest, left, faults>>

\* Mutant: a confirmation is not used up.
KeptConfirm == confirm

\* The annotation after a confirmed group started: with needFirstConfirm the
\* confirmation of the first group serves for all.
UsedConfirm == IF NeedFirstConfirm THEN confirm ELSE "none"

\* checkUpgradeConfirm, on the annotations read when the reconcile started.
CheckUpgradeConfirm ==
    LET ask      == NeedWaitingForConfirm /\ snap.confirm = "none"
        wait     == NeedWaitingForConfirm /\ snap.confirm = "false"
        use      == NeedWaitingForConfirm /\ snap.confirm = "true"
        leftover == ~NeedWaitingForConfirm /\ snap.confirm # "none"
        writes   == ask \/ leftover \/ (use /\ ~NeedFirstConfirm)
    IN  /\ pc = "confirm"
        /\ \/ /\ writes => Fresh
              /\ confirm' = CASE ask -> "false"
                              [] use -> UsedConfirm
                              [] leftover -> "none"
                              [] OTHER -> confirm
              /\ pc' = IF ask \/ wait THEN "refresh" ELSE "manage"
              /\ UNCHANGED loopVars
           \/ writes /\ ~Fresh /\ UNCHANGED confirm /\ Return
        /\ UNCHANGED <<template, desired, lastRev, edits, statusVars, storeVars, faults>>

\* SyncStatusOnly(refreshTime = true), on its own after a wait for confirmation
\* or with UpdateProgressing at the end of ManageSubsets.
RefreshStatus ==
    /\ \/ pc = "refresh"
       \/ pc = "manage" /\ todo = {}
    /\ Fresh
    /\ term' = "running" /\ cond' = "True"
    /\ Return
    /\ UNCHANGED <<userVars, seen, storeVars, faults>>

\* SyncStatusOnly(refreshTime = false) while the group is not available:
\* SyncWaitTimeout turns Progressing to False.
WaitStatus ==
    /\ pc = "wait" /\ Fresh
    /\ term' = (IF term = "none" THEN "running" ELSE term)
    /\ cond' = (IF term = "expired" THEN "False" ELSE "True")
    /\ Return
    /\ UNCHANGED <<userVars, seen, storeVars, faults>>

\* The same updates when the cached deployment stays outdated.
StatusConflict ==
    /\ \/ pc \in {"refresh", "wait", "saturated"}
       \/ pc = "manage" /\ todo = {}
    /\ ~Fresh
    /\ Return
    /\ UNCHANGED <<userVars, statusVars, storeVars, faults>>

-----------------------------------------------------------------------------
(* ManageSubsets: one region after the other                               *)

\* The loop over the regions reaches r and finds no new subset: NewSubset
\* creates it.  It then logs ri.New.Name with ri.New still nil: the panic is
\* recovered and ends the reconcile.  A subset that exists though the cache did
\* not show it ends it with AlreadyExists.
NewSubset(r) ==
    LET t    == snap.tmpl
        want == snap.want[r]
        olds == Olds(info[r], t)
        size == CASE UpdateStrategy = "ReCreate" -> CalculateStepSize(want, 0)
                  [] UpdateStrategy = "RollingUpdate" ->
                        RollingReplicas(want, SpecReplicas(info[r], olds), 0)
                  [] UpdateStrategy = "DeleteAllFirst" -> want
    IN  /\ pc = "manage" /\ r \in todo /\ ~info[r][t].live
        /\ UpdateStrategy = "DeleteAllFirst" =>
              Sized(info[r], olds) = {} /\ ~OldPodsRunning(info[r], olds)
        /\ \/ sub[r][t].live /\ NoWrite
           \/ /\ ~sub[r][t].live
              /\ sub' = [sub EXCEPT ![r][t] = [live |-> TRUE, spec |-> size, avail |-> 0,
                                               rev |-> MaxRevision(info[r], olds) + 1]]
              /\ Published
              /\ granted' = [granted EXCEPT ![r] = FALSE]
        /\ Return
        /\ UNCHANGED <<userVars, statusVars, faults>>

\* NewSubset finds the new subset: a revision that is not above those of the
\* old subsets is raised.
RaiseRevision(r, rev) ==
    \/ /\ info[r][snap.tmpl].rev >= rev
       /\ NoWrite /\ UNCHANGED info
    \/ /\ info[r][snap.tmpl].rev < rev /\ CacheCurrent(r, snap.tmpl)
       /\ sub' = [sub EXCEPT ![r][snap.tmpl] = WithRev(@, rev)]
       /\ Published /\ UNCHANGED granted
       /\ info' = [info EXCEPT ![r][snap.tmpl] = WithRev(@, rev)]

RaiseRevisionFails(r, rev) ==
    /\ info[r][snap.tmpl].rev < rev /\ ~CacheCurrent(r, snap.tmpl)
    /\ NoWrite /\ Return

\* Strategy ReCreate, from NewSubset to the start of regionSyncOnce.
RecreateRegion(r) ==
    LET new  == info[r][snap.tmpl]
        olds == Olds(info[r], snap.tmpl)
        rev  == MaxRevision(info[r], olds) + 1
    IN  /\ UpdateStrategy = "ReCreate"
        /\ pc = "manage" /\ r \in todo /\ new.live
        /\ \/ /\ RaiseRevision(r, rev)
              /\ pc' = "cleanup" /\ cur' = r /\ rest' = olds /\ todo' = todo \ {r}
              /\ left' = MaxCleanupCount(info[r], snap.tmpl, snap.want[r])
              /\ UNCHANGED snap
           \/ RaiseRevisionFails(r, rev)
        /\ UNCHANGED <<userVars, statusVars, faults>>

\* One turn of the loop of cleanupUnhealthyReplicas, in any order of the old
\* subsets (the code sorts them by creation time, which ties within a second).
\* A subset with more available pods than replicas is one whose scale-down has
\* not reached its status yet: the code refuses to go on.  A deleted subset
\* keeps its replicas in the copy: the loop of RollOld meets it again.
CleanupUnhealthyReplicas(o) ==
    LET old   == info[cur][o]
        count == Lesser(old.spec - old.avail, left)
        Go    == /\ left' = left - count /\ rest' = rest \ {o}
                 /\ UNCHANGED <<pc, snap, todo, cur>>
        \* regionSyncOnce returns the error, reconcileOldSubsets drops it
        Fail  == \/ UpdateStrategy = "RollingUpdate" /\ pc' = "manage" /\ UNCHANGED loopVars
                 \/ UpdateStrategy = "ReCreate" /\ Return
    IN  /\ pc = "cleanup" /\ o \in rest /\ left > 0
        /\ \/ /\ old.avail = old.spec
              /\ NoWrite /\ UNCHANGED info /\ Go
           \/ /\ old.avail > old.spec
              /\ NoWrite /\ Fail
           \/ /\ old.avail < old.spec /\ count = old.spec /\ sub[cur][o].live
              /\ sub' = [sub EXCEPT ![cur][o] = Absent]
              /\ Published /\ UNCHANGED granted
              /\ info' = [info EXCEPT ![cur][o] = Deleted(@)] /\ Go
           \/ /\ old.avail < old.spec /\ count < old.spec
              /\ SetReplicas(cur, o, old.spec - count)
              /\ info' = [info EXCEPT ![cur][o] = WithSpec(@, old.spec - count)] /\ Go
           \/ /\ old.avail < old.spec
              /\ \/ count = old.spec /\ ~sub[cur][o].live
                 \/ count < old.spec /\ ~CacheCurrent(cur, o)
              /\ NoWrite /\ Fail
        /\ UNCHANGED <<userVars, statusVars, faults>>

\* cleanupUnhealthyReplicas is over; what is left of its budget is what
\* regionSyncOnce still has to take from the old subsets.
CleanupDone ==
    /\ UpdateStrategy = "ReCreate"
    /\ pc = "cleanup" /\ (rest = {} \/ left <= 0)
    /\ pc' = (IF left > 0 THEN "shrink" ELSE "grow")
    /\ rest' = Olds(info[cur], snap.tmpl)
    /\ UNCHANGED <<userVars, statusVars, storeVars, snap, info, todo, cur, left, faults>>

\* Mutant: the size of the subset is not compared with what must go.
ShrinkAnyOld(o) ==
    /\ pc = "shrink" /\ o \in rest /\ SetReplicas(cur, o, info[cur][o].spec - left)
    /\ pc' = "grow" /\ UNCHANGED <<loopVars, userVars, statusVars, faults>>

\* regionSyncOnce, the loop over the old subsets: one with more replicas than
\* must go is scaled down and ends the loop; a smaller one is left alone and
\* only counted.
ShrinkOld(o) ==
    LET old == info[cur][o]
    IN  /\ pc = "shrink" /\ o \in rest
        /\ \/ /\ old.spec > left /\ left > 0
              /\ SetReplicas(cur, o, old.spec - left)
              /\ pc' = "grow" /\ UNCHANGED loopVars
           \/ /\ old.spec > left /\ left > 0 /\ ~CacheCurrent(cur, o)
              /\ NoWrite /\ Return
           \/ /\ old.spec > left /\ left = 0
              /\ NoWrite /\ pc' = "grow" /\ UNCHANGED loopVars
           \/ /\ old.spec <= left
              /\ left' = left - old.spec /\ rest' = rest \ {o}
              /\ NoWrite /\ UNCHANGED <<pc, snap, info, todo, cur>>
        /\ UNCHANGED <<userVars, statusVars, faults>>

ShrinkDone ==
    /\ pc = "shrink" /\ rest = {}
    /\ pc' = "grow"
    /\ UNCHANGED <<userVars, statusVars, storeVars, loopVars, faults>>

\* The new subset moves by one step (regionSyncOnce) or to its full size
\* (rolloutDeleteAllFirst).
GrowNew ==
    LET t   == snap.tmpl
        new == info[cur][t]
        n   == IF UpdateStrategy = "DeleteAllFirst" THEN snap.want[cur]
               ELSE new.spec + CalculateStepSize(snap.want[cur], new.spec)
        Go  == pc' = "manage" /\ UNCHANGED loopVars
    IN  /\ pc = "grow"
        /\ \/ n = new.spec /\ NoWrite /\ Go
           \/ n # new.spec /\ SetReplicas(cur, t, n) /\ Go
           \/ n # new.spec /\ ~CacheCurrent(cur, t) /\ NoWrite /\ Return
        /\ UNCHANGED <<userVars, statusVars, faults>>

\* Strategy RollingUpdate: reconcileNewSubset, and reconcileOldSubsets up to
\* its call of cleanupUnhealthyReplicas, both on the replicas first read.
RollingRegion(r) ==
    LET new   == info[r][snap.tmpl]
        want  == snap.want[r]
        olds  == Olds(info[r], snap.tmpl)
        total == SpecReplicas(info[r], olds) + new.spec
        n     == IF new.spec >= want THEN want ELSE RollingReplicas(want, total, new.spec)
        room  == MaxScaleDown(info[r], snap.tmpl, want)
    IN  /\ UpdateStrategy = "RollingUpdate"
        /\ pc = "manage" /\ r \in todo /\ new.live
        /\ \/ /\ IF n = new.spec THEN NoWrite ELSE SetReplicas(r, snap.tmpl, n)
              /\ pc' = (IF total = new.spec \/ room <= 0 THEN "manage" ELSE "cleanup")
              /\ cur' = r /\ rest' = olds /\ left' = room /\ todo' = todo \ {r}
              /\ UNCHANGED <<snap, info>>
           \/ n # new.spec /\ ~CacheCurrent(r, snap.tmpl) /\ NoWrite /\ Return
        /\ UNCHANGED <<userVars, statusVars, faults>>

\* scaleDownOldSubsetsForRollingUpdate starts: it takes the replicas asked for
\* as the available ones, and walks the old subsets of before the cleanup.
RollOlds ==
    LET olds  == Olds(info[cur], snap.tmpl)
        extra == SpecReplicas(info[cur], olds) + info[cur][snap.tmpl].spec
                   - MinAvailable(snap.want[cur])
    IN  /\ UpdateStrategy = "RollingUpdate"
        /\ pc = "cleanup" /\ (rest = {} \/ left <= 0)
        /\ pc' = "rollOld" /\ left' = extra
        /\ rest' = {o \in Templates \ {snap.tmpl} : info[cur][o].spec > 0}
        /\ UNCHANGED <<userVars, statusVars, storeVars, snap, info, todo, cur, faults>>

\* One turn of its loop; an error ends the loop and is dropped.
RollOld(o) ==
    LET old   == info[cur][o]
        count == Lesser(old.spec, left)
    IN  /\ pc = "rollOld" /\ o \in rest /\ left > 0
        /\ \/ /\ SetReplicas(cur, o, old.spec - count)
              /\ left' = left - count /\ rest' = rest \ {o}
              /\ UNCHANGED <<pc, snap, info, todo, cur>>
           \/ /\ ~CacheCurrent(cur, o)
              /\ NoWrite /\ pc' = "manage" /\ UNCHANGED loopVars
        /\ UNCHANGED <<userVars, statusVars, faults>>

RollOldDone ==
    /\ pc = "rollOld" /\ (rest = {} \/ left <= 0)
    /\ pc' = "manage"
    /\ UNCHANGED <<userVars, statusVars, storeVars, loopVars, faults>>

\* Strategy DeleteAllFirst: rolloutDeleteAllFirst for whichever region the
\* iteration gives first; ManageSubsets returns without visiting the others.
DeleteAllFirstRegion(r) ==
    LET olds  == Olds(info[r], snap.tmpl)
        sized == Sized(info[r], olds)
        rev   == MaxRevision(info[r], olds) + 1
        running == OldPodsRunning(info[r], olds)
    IN  /\ UpdateStrategy = "DeleteAllFirst"
        /\ pc = "manage" /\ r \in todo
        /\ \/ /\ sized # {}
              /\ pc' = "deleteAll" /\ cur' = r /\ rest' = sized /\ todo' = {}
              /\ NoWrite /\ UNCHANGED <<snap, info, left>>
           \/ /\ sized = {} /\ running
              /\ pc' = "refresh" /\ NoWrite /\ UNCHANGED loopVars
           \/ /\ sized = {} /\ ~running /\ info[r][snap.tmpl].live
              /\ \/ /\ RaiseRevision(r, rev)
                    /\ pc' = "grow" /\ cur' = r /\ todo' = {} /\ UNCHANGED <<snap, rest, left>>
                 \/ RaiseRevisionFails(r, rev)
        /\ UNCHANGED <<userVars, statusVars, faults>>

DeleteAllDone ==
    /\ pc = "deleteAll" /\ rest = {}
    /\ pc' = "manage"
    /\ UNCHANGED <<userVars, statusVars, storeVars, loopVars, faults>>

-----------------------------------------------------------------------------
(* cleanAfterSaturated                                                     *)

\* The rollout's annotation is removed, or else the status says it is over.  (It
\* is written even when it says so already: SyncStatusOnly compares the pointer
\* to the new status with the old one, which are never equal.)
SaturatedStatus ==
    /\ pc = "saturated" /\ Fresh
    /\ IF snap.confirm # "none"
         THEN confirm' = "none" /\ UNCHANGED <<cond, term, granted>>
         ELSE /\ term' = "none" /\ cond' = "False" /\ UNCHANGED confirm
              /\ granted' = [r \in Regions |-> TRUE]
    /\ pc' = "clean"
    /\ UNCHANGED <<template, desired, lastRev, edits, seen, sub, cache, loopVars, faults>>

CleanRegion(r) ==
    /\ pc = "clean" /\ r \in todo
    /\ pc' = "sweep" /\ cur' = r /\ todo' = todo \ {r}
    /\ rest' = Sized(info[r], Olds(info[r], snap.tmpl))
    /\ UNCHANGED <<userVars, statusVars, storeVars, snap, info, left, faults>>

\* Every old subset that still has replicas is scaled to zero (here and in
\* scaleDownOldReplicaSetsForDeleteAllFirst).
SweepOld(o) ==
    /\ pc \in {"sweep", "deleteAll"} /\ o \in rest
    /\ \/ /\ SetReplicas(cur, o, 0)
          /\ rest' = rest \ {o} /\ UNCHANGED <<pc, snap, info, todo, cur, left>>
       \/ ~CacheCurrent(cur, o) /\ NoWrite /\ Return
    /\ UNCHANGED <<userVars, statusVars, faults>>

\* cleanOldSubsets: of the old subsets beyond the history limit, those of the
\* lowest revisions, the empty ones are to be deleted,
CleanOldSubsets ==
    LET olds   == Olds(info[cur], snap.tmpl)
        excess == Cardinality(olds) - HistoryLimit
        Oldest(vs) == /\ Cardinality(vs) = (IF excess > 0 THEN excess ELSE 0)
                      /\ \A v \in vs, o \in olds \ vs : info[cur][v].rev <= info[cur][o].rev
    IN  /\ pc = "sweep" /\ rest = {}
        /\ \E vs \in SUBSET olds :
              /\ Oldest(vs)
              /\ rest' = {v \in vs : info[cur][v].spec = 0 /\ info[cur][v].avail = 0}
        /\ pc' = "delete"
        /\ UNCHANGED <<userVars, statusVars, storeVars, snap, info, todo, cur, left, faults>>

\* one by one.  One that is gone already is an error: the others are still deleted,
\* but no further region is visited.
DeleteSubset(o) ==
    /\ pc = "delete" /\ o \in rest
    /\ sub' = [sub EXCEPT ![cur][o] = Absent] /\ Published
    /\ rest' = rest \ {o} /\ todo' = IF sub[cur][o].live THEN todo ELSE {}
    /\ UNCHANGED <<userVars, statusVars, granted, pc, snap, info, cur, left, faults>>

CleanOldDone ==
    /\ pc = "delete" /\ rest = {}
    /\ pc' = "clean"
    /\ UNCHANGED <<userVars, statusVars, storeVars, loopVars, faults>>

CleanDone ==
    /\ pc = "clean" /\ todo = {}
    /\ Return
    /\ UNCHANGED <<userVars, statusVars, storeVars, faults>>

\* Any call to the API server fails, or the controller restarts.
Abort ==
    /\ pc # "idle" /\ faults < MaxFaults
    /\ faults' = faults + 1
    /\ Return
    /\ UNCHANGED <<userVars, statusVars, storeVars>>

-----------------------------------------------------------------------------
(* The environment                                                         *)

\* The user applies another template, or asks for other sizes.
UserApply(t) ==
    /\ edits < MaxEdits /\ t # template /\ (Rollbacks \/ t > template)
    /\ template' = t /\ edits' = edits + 1
    /\ granted' = [r \in Regions |-> TRUE]
    /\ UNCHANGED <<desired, lastRev, confirm, statusVars, sub, cache, pc, loopVars, faults>>

UserScale(r, n) ==
    /\ edits < MaxEdits /\ n # desired[r]
    /\ desired' = [desired EXCEPT ![r] = n] /\ edits' = edits + 1
    /\ granted' = [x \in Regions |-> TRUE]
    /\ UNCHANGED <<template, lastRev, confirm, statusVars, sub, cache, pc, loopVars, faults>>

\* The user confirms the group that waits for it.
UserConfirm ==
    /\ confirm = "false"
    /\ confirm' = "true" /\ granted' = [r \in Regions |-> TRUE]
    /\ UNCHANGED <<template, desired, lastRev, edits, statusVars, sub, cache, pc, loopVars, faults>>

\* SyncWaitTimeout passes.
Timeout ==
    /\ term = "running"
    /\ term' = "expired"
    /\ UNCHANGED <<userVars, cond, seen, storeVars, pc, loopVars, faults>>

\* The subset's own controller: a pod becomes available; surplus pods are
\* removed, unavailable ones first; a pod fails.
SetAvailable(r, t, n) ==
    /\ sub' = [sub EXCEPT ![r][t] = WithAvail(@, n)]
    /\ Published
    /\ UNCHANGED <<userVars, statusVars, granted, pc, loopVars>>

PodAvailable(r, t) ==
    /\ sub[r][t].avail < sub[r][t].spec
    /\ SetAvailable(r, t, sub[r][t].avail + 1) /\ UNCHANGED faults

PodsRemoved(r, t) ==
    /\ sub[r][t].avail > sub[r][t].spec
    /\ SetAvailable(r, t, sub[r][t].spec) /\ UNCHANGED faults

PodFails(r, t) ==
    /\ faults < MaxFaults /\ sub[r][t].avail > 0
    /\ faults' = faults + 1
    /\ SetAvailable(r, t, sub[r][t].avail - 1)

\* The informer delivers the latest version of one subset.
CacheSync(r, t) ==
    /\ cache[r][t] # sub[r][t]
    /\ cache' = [cache EXCEPT ![r][t] = sub[r][t]]
    /\ UNCHANGED <<userVars, statusVars, sub, granted, pc, loopVars, faults>>

\* The informer delivers the latest version of the deployment.
DeploymentSync ==
    /\ ~Fresh
    /\ seen' = Deployment
    /\ UNCHANGED <<userVars, cond, term, storeVars, pc, loopVars, faults>>

-----------------------------------------------------------------------------

Running(n) == [live |-> TRUE, spec |-> n, avail |-> n, rev |-> 1]

Init ==
    /\ template = 1
    /\ desired \in [Regions -> Sizes]
    /\ sub = IF Installed
               THEN [r \in Regions |-> [t \in Templates |->
                        IF t = 1 THEN Running(desired[r]) ELSE Absent]]
               ELSE NoSubsets
    /\ cache = sub
    /\ lastRev = IF Installed THEN <<template, desired>> ELSE <<0, desired>>
    /\ confirm = "none"
    /\ cond = (IF Installed THEN "False" ELSE "none")
    /\ term = "none" /\ seen = Deployment
    /\ granted = [r \in Regions |-> TRUE]
    /\ pc = "idle" /\ snap = NoSnap /\ info = NoSubsets
    /\ todo = {} /\ cur = AnyRegion /\ rest = {} /\ left = 0
    /\ edits = 0 /\ faults = 0

Controller ==
    \/ SyncRevisions \/ ReconcileStart \/ CheckUpgradeConfirm
    \/ RefreshStatus \/ WaitStatus \/ SaturatedStatus \/ StatusConflict
    \/ CleanupDone \/ ShrinkDone \/ GrowNew \/ RollOlds \/ RollOldDone \/ DeleteAllDone
    \/ CleanOldSubsets \/ CleanOldDone \/ CleanDone
    \/ \E r \in Regions : \/ NewSubset(r) \/ RecreateRegion(r) \/ RollingRegion(r)
                          \/ DeleteAllFirstRegion(r) \/ CleanRegion(r)
    \/ \E o \in Templates : \/ CleanupUnhealthyReplicas(o) \/ ShrinkOld(o) \/ RollOld(o)
                            \/ SweepOld(o) \/ DeleteSubset(o)

Next ==
    \/ Controller
    \/ SyncRevisionsFails
    \/ Abort
    \/ \E t \in Templates : UserApply(t)
    \/ \E r \in Regions, n \in Sizes : UserScale(r, n)
    \/ UserConfirm
    \/ Timeout
    \/ DeploymentSync
    \/ \E r \in Regions, t \in Templates :
          \/ PodAvailable(r, t) \/ PodsRemoved(r, t) \/ PodFails(r, t)
          \/ CacheSync(r, t)

Spec == Init /\ [][Next]_vars

\* Owned objects, requeues and resyncs keep waking the controller; subset
\* controllers start and remove pods, informers deliver, and a user who is
\* asked to confirm does.
Fairness ==
    /\ WF_vars(Controller)
    /\ \A r \in Regions, t \in Templates :
          WF_vars(PodAvailable(r, t)) /\ WF_vars(PodsRemoved(r, t)) /\ WF_vars(CacheSync(r, t))
    /\ WF_vars(DeploymentSync) /\ WF_vars(UserConfirm)

FairSpec == Spec /\ Fairness

-----------------------------------------------------------------------------
(* Properties                                                              *)

UserOK ==
    /\ template \in Templates /\ desired \in [Regions -> Sizes]
    /\ lastRev \in (Templates \cup {0}) \X [Regions -> Sizes]
    /\ confirm \in {"none", "false", "true"} /\ edits \in 0..MaxEdits

StatusOK ==
    /\ cond \in {"none", "True", "False"} /\ term \in {"none", "running", "expired"}
    /\ seen \in [template : Templates, desired : [Regions -> Sizes],
                 confirm : {"none", "false", "true"}, cond : {"none", "True", "False"}]

StoreOK ==
    /\ sub \in [Regions -> [Templates -> Subset]]
    /\ cache \in [Regions -> [Templates -> Subset]]
    /\ granted \in [Regions -> BOOLEAN]

LoopOK ==
    /\ snap \in [tmpl : Templates, want : [Regions -> Nat],
                 confirm : {"none", "false", "true"}, progressing : BOOLEAN]
    /\ info \in [Regions -> [Templates -> Subset]]
    /\ todo \subseteq Regions /\ cur \in Regions /\ rest \subseteq Templates /\ left \in Int

Steps == {"idle", "confirm", "refresh", "wait", "manage", "cleanup", "shrink", "grow",
          "rollOld", "deleteAll", "saturated", "clean", "sweep", "delete"}

\* Every variable has its type; in particular no computation of replicas, with
\* copies however outdated, ever asks for a negative number of them.
TypeOK == UserOK /\ StatusOK /\ StoreOK /\ LoopOK /\ pc \in Steps /\ faults \in 0..MaxFaults

\* The pods of a region that are available and that nobody has asked to remove.
ServingPods(r) ==
    Cardinality(UNION {{t} \X (1..Lesser(sub[r][t].spec, sub[r][t].avail)) : t \in Templates})

\* What a rollout may take away: nothing with ReCreate, MaxUnavailable with
\* RollingUpdate, everything with DeleteAllFirst.
Floor(n) == CASE UpdateStrategy = "ReCreate" -> n
              [] UpdateStrategy = "RollingUpdate" ->
                    n - (IF MaxSurge + MaxUnavailable = 0 THEN 1 ELSE MaxUnavailable)
              [] UpdateStrategy = "DeleteAllFirst" -> 0

\* regionSyncOnce, reconcileOldSubsets and cleanAfterSaturated take old pods
\* away only as far as available new ones replace them: while no pod fails, an
\* upgrade of a running deployment never leaves a region with fewer serving
\* pods than the floor of the smallest size asked for, whatever the
\* interleaving of reconciles, template edits, pods and the informer.
ZeroDowntime ==
    Installed => \A r \in Regions : \E n \in Sizes : ServingPods(r) >= Floor(n)

\* NewRSNewReplicas: a rolling update never asks for more replicas in a region
\* than the largest size plus maxSurge.
SurgeBound ==
    UpdateStrategy = "RollingUpdate" =>
        \A r \in Regions : \E n \in Sizes : SpecReplicas(sub[r], Templates) <= n + MaxSurge

\* rolloutDeleteAllFirst, which "kill[s] all existing pods before creating new
\* ones" (api/v1beta1/extendeddeployment_types.go:51): while a subset of a region
\* asks for replicas, no other one asks for any or has a pod left.
DeletedFirst ==
    UpdateStrategy = "DeleteAllFirst" =>
        \A r \in Regions, s, t \in Templates :
            s # t /\ sub[r][s].spec > 0 => sub[r][t].spec = 0 /\ sub[r][t].avail = 0

\* checkIfTermReady with calculateStepSize: at most one group of pods of any
\* template is being started in a region at any time.
OneGroupInFlight ==
    \A r \in Regions, t \in Templates : sub[r][t].spec <= sub[r][t].avail + BatchSize

\* checkUpgradeConfirm: with manual confirmation on, "each group needs manual
\* confirmation before the next group starts" (README.md:12): a subset that
\* exists is made larger only if the user confirmed since the last group of
\* its region, or for the first group after an edit or after saturation.
StartsGroup(r) ==
    \E t \in Templates : sub[r][t].live /\ sub'[r][t].spec > sub[r][t].spec

GroupsConfirmed ==
    [][NeedWaitingForConfirm => \A r \in Regions : StartsGroup(r) => granted[r]]_vars

\* The part of it that checkUpgradeConfirm does keep, whatever edits, pods and
\* confirmations come between reading the annotation and acting on it: a
\* reconcile that read Progressing as not False and a new subset in every
\* region starts a group only on a confirmation no earlier group has used.
ConfirmGate ==
    [][NeedWaitingForConfirm /\ ~NeedFirstConfirm
         /\ snap.progressing /\ (\A r \in Regions : info[r][snap.tmpl].live)
       => \A r \in Regions : StartsGroup(r) => granted[r]]_vars

\* Once edits and faults end, every region runs exactly the replicas asked for,
\* all of the deployment's template and all available, the old subsets are
\* empty, and the status says the rollout is over.
RolledOut ==
    /\ \A r \in Regions, t \in Templates :
          LET n == IF t = template THEN desired[r] ELSE 0
          IN  sub[r][t].spec = n /\ sub[r][t].avail = n
    /\ cond = "False"

Converges == <>[]RolledOut
=============================================================================
