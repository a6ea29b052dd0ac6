------------------------------ MODULE Replicas ------------------------------
(***************************************************************************)
(* The replicas of an ExtendedDeployment: what the webhook admits as       *)
(* spec.replicas and spec.regions[].replicas, and what the controllers     *)
(* make of it.                                                             *)
(***************************************************************************)
EXTENDS Integers, FiniteSets, FiniteSetsExt

CONSTANT Regions \* the DeployRegions, all of them in spec.regions

ASSUME RegionsAssumption == IsFiniteSet(Regions) /\ Regions # {}

\* intstr.IntOrString: an integer, a percentage, or a string that is neither.
Quantity == [kind : {"int", "percent", "other"}, val : Int]

\* The fields of the spec that matter here; total is 0 when it is not given.
SpecType == [total : Nat, want : [Regions -> Quantity], autoReschedule : BOOLEAN]

SumOver(f, S) == MapThenSumSet(LAMBDA x : f[x], S)
Total(f) == SumOver(f, Regions)
AtLeastZero(n) == IF n < 0 THEN 0 ELSE n

\* isRegionReplicasTypeConsistent
TypeConsistent(spec) == \A r, q \in Regions : spec.want[r].kind = spec.want[q].kind

\* Mutant: percentages may add up to anything.
AnyPercentages(spec) ==
    IF spec.total > 0 THEN TypeConsistent(spec)
    ELSE \A r \in Regions : spec.want[r].kind = "int"

\* compareReplicas of the webhook.  Integers are not looked at, so a negative one
\* is admitted.
CompareReplicas(spec) ==
    IF spec.total > 0
    THEN IF \E r \in Regions : spec.want[r].kind = "int"
         THEN TypeConsistent(spec)
         ELSE /\ \A r \in Regions : spec.want[r].kind = "percent" /\ spec.want[r].val \in 0..100
              /\ Total([r \in Regions |-> spec.want[r].val]) = 100
    ELSE \A r \in Regions : spec.want[r].kind = "int"

Error == -1

\* ParseRegionReplicas and round: the share is rounded half up, region by region.
ParseRegionReplicas(total, q) ==
    CASE q.kind = "int" /\ q.val >= 0          -> q.val
      [] q.kind = "percent" /\ q.val \in 0..100 -> (2 * total * q.val + 100) \div 200
      [] OTHER                                  -> Error

Config(spec) == [r \in Regions |-> ParseRegionReplicas(spec.total, spec.want[r])]
Parses(spec) == \A r \in Regions : ParseRegionReplicas(spec.total, spec.want[r]) # Error
=============================================================================
