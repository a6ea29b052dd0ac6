---------------------------- MODULE LastRevision ----------------------------
(***************************************************************************)
(* What the rollout relies on of the revision history: the newest revision *)
(* changes only to a spec that a reconcile read.                           *)
(* Rollout keeps exactly this of the history (its variable lastRev).       *)
(***************************************************************************)
CONSTANTS Specs, NoSpec

VARIABLES spec,   \* the spec of the ExtendedDeployment
          read,   \* the spec a reconcile is about to record, or NoSpec
          newest  \* the spec of the newest revision, or NoSpec

vars == <<spec, read, newest>>

Init == spec \in Specs /\ read = NoSpec /\ newest = NoSpec

\* The user or a rollback.
Change == spec' \in Specs /\ UNCHANGED newest /\ read' \in {read, NoSpec}

\* syncRevisions: reads the spec, and makes it that of the newest revision or
\* gives up.  (It only records one that differs from the newest; the rollout needs
\* less.)
Read   == read = NoSpec /\ read' = spec /\ UNCHANGED <<spec, newest>>
Record == read # NoSpec /\ newest' = read /\ read' = NoSpec /\ UNCHANGED spec
GiveUp == read' = NoSpec /\ UNCHANGED <<spec, newest>>

Next == Change \/ Read \/ Record \/ GiveUp
Spec == Init /\ [][Next]_vars
=============================================================================
