----------------------------- MODULE Revisions ------------------------------
(***************************************************************************)
(* The ControllerRevisions of an ExtendedDeployment and the rollback-to    *)
(* annotation (checkRollback and syncRevisions, the first steps of a       *)
(* reconcile).                                                             *)
(*                                                                         *)
(* The library keeps one revision per spec: creating one that exists       *)
(* returns it.  A reconcile works from the list of revisions its cache     *)
(* holds, and writes the annotations it read at its start back over        *)
(* whatever they are by then.                                              *)
(***************************************************************************)
EXTENDS Integers, FiniteSets

CONSTANTS
    Specs,        \* the specs, as numbers above zero
    HistoryLimit, \* spec.historyLimit
    MaxEdits,     \* bound on edits and rollbacks of the user
    MaxFaults     \* bound on failed calls, restarts and stale lists

VARIABLES
    spec, rollback, annotated, \* the ExtendedDeployment and two of its annotations
    revs,    \* [Specs -> [num, born]], the ControllerRevisions
    created, \* how many were ever created: their creation times
    list,    \* those the cache of the last reconcile held
    pc, read, number, \* the reconcile: where it is, the spec it read, the number it gave
    fresh,   \* nobody wrote to the ExtendedDeployment since it was read
    issued,  \* every <<number, spec>> ever given, to state properties
    edits, faults

deployVars == <<spec, rollback, annotated>>
vars == <<deployVars, revs, created, list, pc, read, number, fresh, issued, edits, faults>>

ASSUME RevisionsAssumption ==
    /\ Specs \subseteq Nat \ {0} /\ IsFiniteSet(Specs) /\ Specs # {}
    /\ HistoryLimit \in Nat /\ MaxEdits \in Nat /\ MaxFaults \in Nat

\* The values of the rollback-to annotation that are not numbers of revisions.
None     == -2
Invalid  == -1
Previous == 0

NoSpec == 0
NoRev  == [num |-> 0, born |-> 0]

\* SortControllerRevisions: by number, then by age.
Stored(rs)   == {s \in Specs : rs[s].num > 0}
Older(x, y)  == x.num < y.num \/ (x.num = y.num /\ x.born < y.born)
Rank(rs, s)  == Cardinality({t \in Stored(rs) : Older(rs[t], rs[s])}) + 1
Nth(rs, n)   == {s \in Stored(rs) : Rank(rs, s) = n}
Newest(rs)   == IF Stored(rs) = {} THEN NoSpec
                ELSE CHOOSE s \in Stored(rs) : Rank(rs, s) = Cardinality(Stored(rs))

\* Mutant: the number of revisions instead of the highest number.
CountPlusOne(rs) == Cardinality(Stored(rs)) + 1

\* nextRevision
NextRevision(rs) == IF Stored(rs) = {} THEN 1 ELSE rs[Newest(rs)].num + 1

\* Mutant: the newest instead of the oldest.
ExcessAtTheEnd(rs) ==
    {s \in Stored(rs) : Rank(rs, s) > HistoryLimit + 1}

\* Mutant: one more may stay.
ExcessButOne(rs) ==
    {s \in Stored(rs) : Rank(rs, s) < Cardinality(Stored(rs)) - HistoryLimit - 1}

\* truncateHistory deletes the oldest but keeps one more than historyLimit.
Excess(rs) ==
    {s \in Stored(rs) : Rank(rs, s) <= Cardinality(Stored(rs)) - HistoryLimit - 1}

Numbered(rs, n) == {s \in Stored(rs) : rs[s].num = n}

\* Mutant: a revision that is not found is taken for an empty one.
TargetOrEmpty ==
    LET found == CASE rollback = Previous -> Nth(list, Cardinality(Stored(list)) - 1)
                   [] OTHER               -> Numbered(list, rollback)
    IN  IF found = {} THEN {NoSpec} ELSE found

\* rollbackTo: the spec of the revision the annotation asks for, if there is one.
\* Of several with the same number it is the youngest.
Target ==
    CASE rollback = Previous -> Nth(list, Cardinality(Stored(list)) - 1)
      [] OTHER -> {s \in Numbered(list, rollback) :
                      \A t \in Numbered(list, rollback) : list[t].born <= list[s].born}

-----------------------------------------------------------------------------
(* The reconcile                                                           *)

Stop == pc' = "idle" /\ read' = NoSpec /\ number' = 0

\* Reads the ExtendedDeployment and lists the revisions: checkRollback if there
\* is a rollback-to annotation, else syncRevisions if the spec is not that of
\* the newest revision.  (Else the rollout goes on, see Rollout.)
Start(rs) ==
    /\ pc = "idle"
    /\ rollback # None \/ Newest(rs) # spec
    /\ list' = rs /\ read' = spec /\ fresh' = TRUE
    /\ pc' = IF rollback # None THEN "rollback" ELSE "revise"
    /\ UNCHANGED <<deployVars, revs, created, number, issued, edits>>

Reconcile == Start(revs) /\ UNCHANGED faults

\* The same from a list that lags behind: the one of the previous reconcile.
ReconcileStale ==
    /\ faults < MaxFaults /\ list # revs
    /\ Start(list) /\ faults' = faults + 1

\* rollbackTo, rollbackToRevision: the spec becomes that of the revision and the
\* annotation goes; if there is no such revision, only the annotation goes.
RollbackTo ==
    /\ pc = "rollback" /\ fresh
    /\ IF Target = {} THEN UNCHANGED spec ELSE \E s \in Target \ {spec} : spec' = s
    /\ rollback' = None /\ fresh' = FALSE
    /\ Stop
    /\ UNCHANGED <<annotated, revs, created, list, issued, edits, faults>>

\* If the revision has the spec the deployment has, nothing happens, and the
\* annotation stays.
RollbackUnchanged ==
    /\ pc = "rollback" /\ Target = {spec} /\ fresh
    /\ Stop
    /\ UNCHANGED <<deployVars, revs, created, list, fresh, issued, edits, faults>>

\* Mutant: an older revision with the spec is left as it is.
UpdateRevisionSkipped ==
    /\ pc = "revise" /\ list[read].num > 0 /\ revs[read].num > 0
    /\ UNCHANGED <<revs, issued>>
    /\ number' = NextRevision(list) /\ pc' = "annotate"
    /\ UNCHANGED <<deployVars, created, list, read, fresh, edits, faults>>

\* syncRevisions: an older revision has the spec and gets the next number,
UpdateControllerRevision ==
    /\ pc = "revise" /\ list[read].num > 0 /\ revs[read].num > 0
    /\ revs' = [revs EXCEPT ![read].num = NextRevision(list)]
    /\ issued' = issued \cup {<<NextRevision(list), read>>}
    /\ number' = NextRevision(list) /\ pc' = "annotate"
    /\ UNCHANGED <<deployVars, created, list, read, fresh, edits, faults>>

\* or a new one is created, or found to exist.
CreateControllerRevision ==
    /\ pc = "revise" /\ list[read].num = 0
    /\ IF revs[read].num > 0
       THEN UNCHANGED <<revs, created, issued>> /\ number' = revs[read].num
       ELSE /\ created' = created + 1
            /\ revs' = [revs EXCEPT ![read] = [num |-> NextRevision(list), born |-> created']]
            /\ issued' = issued \cup {<<NextRevision(list), read>>}
            /\ number' = NextRevision(list)
    /\ pc' = "annotateNew"
    /\ UNCHANGED <<deployVars, list, read, fresh, edits, faults>>

\* Mutant: an older revision that is reused is not annotated.
AnnotateNewOnly ==
    /\ pc \in {"annotate", "annotateNew"}
    /\ annotated' = IF pc = "annotate" THEN annotated ELSE number
    /\ rollback' = None /\ fresh' = FALSE
    /\ IF pc = "annotate" THEN Stop
       ELSE pc' = "truncate" /\ UNCHANGED <<read, number>>
    /\ UNCHANGED <<spec, revs, created, list, issued, edits, faults>>

\* updateAnnotations: all annotations become what they were when they were read
\* (so a rollback-to annotation set since is lost), with the number of the
\* revision and without a confirmation.  (An update refused because the cache has
\* not caught up with the reconcile's own writes is a fault of ReconcileFails.)
UpdateAnnotations ==
    /\ pc \in {"annotate", "annotateNew"}
    /\ annotated' = number /\ rollback' = None /\ fresh' = FALSE
    /\ IF pc = "annotate" THEN Stop
       ELSE pc' = "truncate" /\ UNCHANGED <<read, number>>
    /\ UNCHANGED <<spec, revs, created, list, issued, edits, faults>>

\* The list with the new revision in it, and the revisions that a truncation
\* which gets no further than errs deletes, the oldest first.
Listed == [list EXCEPT ![read] = revs[read]]
Truncated(errs) ==
    {s \in Excess(Listed) : \A v \in errs : Older(Listed[s], Listed[v])}

\* truncateHistory: ends early at a revision that is gone already.
Gone == {s \in Excess(Listed) : revs[s].num = 0}
Truncate(errs) ==
    /\ pc = "truncate"
    /\ revs' = [s \in Specs |-> IF s \in Truncated(errs) THEN NoRev ELSE revs[s]]
    /\ Stop
    /\ UNCHANGED <<deployVars, created, list, fresh, issued, edits>>

TruncateHistory == Truncate(Gone) /\ UNCHANGED faults

\* The same when one cannot be deleted.
TruncateFails ==
    /\ pc = "truncate" /\ faults < MaxFaults /\ faults' = faults + 1
    /\ \E v \in Excess(Listed) : Truncate(Gone \cup {v})

\* A call fails, because the revision or the ExtendedDeployment is not what was
\* read any more, or for another reason, or the process restarts.
ReconcileFails ==
    /\ pc # "idle"
    /\ \/ /\ \/ pc = "rollback" /\ ~fresh
             \/ pc = "revise" /\ list[read].num > 0 /\ revs[read] # list[read]
          /\ UNCHANGED faults
       \/ faults < MaxFaults /\ faults' = faults + 1
    /\ Stop
    /\ UNCHANGED <<deployVars, revs, created, list, fresh, issued, edits>>

Sync == \/ Reconcile \/ RollbackTo \/ RollbackUnchanged \/ UpdateControllerRevision
        \/ CreateControllerRevision \/ UpdateAnnotations \/ TruncateHistory \/ ReconcileFails

-----------------------------------------------------------------------------
(* The user                                                                *)

UserApply(s) ==
    /\ edits < MaxEdits /\ s # spec
    /\ spec' = s /\ fresh' = FALSE /\ edits' = edits + 1
    /\ UNCHANGED <<rollback, annotated, revs, created, list, pc, read, number, issued, faults>>

UserRollback(v) ==
    /\ edits < MaxEdits /\ v # rollback
    /\ rollback' = v /\ fresh' = FALSE /\ edits' = edits + 1
    /\ UNCHANGED <<spec, annotated, revs, created, list, pc, read, number, issued, faults>>

Init ==
    /\ spec \in Specs /\ rollback = None /\ annotated = 0
    /\ revs = [s \in Specs |-> NoRev] /\ created = 0 /\ list = revs
    /\ pc = "idle" /\ read = NoSpec /\ number = 0 /\ fresh = TRUE
    /\ issued = {} /\ edits = 0 /\ faults = 0

Next ==
    \/ Sync \/ ReconcileStale \/ TruncateFails
    \/ \E s \in Specs : UserApply(s)
    \/ \E v \in {Invalid, Previous} \cup {p[1] : p \in issued} : UserRollback(v)

Spec == Init /\ [][Next]_vars

\* The user's writes and the controller's own wake it again.
FairSpec == Spec /\ WF_vars(Sync)

-----------------------------------------------------------------------------
(* Properties                                                              *)

Rev == [num : Nat, born : Nat]

\* Every variable keeps to its type; above all only specs of the user are stored.
TypeOK ==
    /\ spec \in Specs /\ rollback \in Int /\ annotated \in Nat
    /\ revs \in [Specs -> Rev] /\ list \in [Specs -> Rev] /\ created \in Nat
    /\ pc \in {"idle", "rollback", "revise", "annotate", "annotateNew", "truncate"}
    /\ read \in Specs \cup {NoSpec} /\ number \in Nat /\ fresh \in BOOLEAN
    /\ issued \subseteq Nat \X Specs
    /\ edits \in 0..MaxEdits /\ faults \in 0..MaxFaults

\* Without stale lists a number is never given twice, not even after the
\* revision it was given to is deleted: a rollback to it cannot go astray.
NumbersNotReused ==
    faults = 0 => \A p, q \in issued : p[1] = q[1] => p[2] = q[2]

\* Without failures the revision annotation names the newest revision whenever
\* no reconcile is under way, through edits, rollbacks and truncations.  (A
\* failure between the revision and the annotation leaves the old number for good.)
AnnotatedNewest ==
    faults = 0 /\ pc = "idle" /\ Stored(revs) # {} => annotated = revs[Newest(revs)].num

\* Between reconciles the history holds at most one revision more than
\* historyLimit, and one more for every failure.
HistoryBounded ==
    pc = "idle" => Cardinality(Stored(revs)) <= HistoryLimit + 1 + faults

\* The revision history implements LastRevision, which Rollout assumes: stale
\* lists, truncation and failures never make another revision the newest.
LastRev == INSTANCE LastRevision
              WITH newest <- Newest(revs), read <- IF pc = "revise" THEN read ELSE NoSpec
ImplementsLastRevision == LastRev!Spec

\* After the last edit the newest revision is that of the spec, unless a
\* rollback-to annotation stands in the way (RollbackUnchanged).
Recorded == <>[](Newest(revs) = spec \/ rollback # None)
=============================================================================
