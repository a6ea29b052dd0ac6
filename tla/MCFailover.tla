----------------------------- MODULE MCFailover -----------------------------
(***************************************************************************)
(* Root module of the runs of Failover: three regions, the first with two  *)
(* nodes, one of them without memory, the third full.                      *)
(***************************************************************************)
EXTENDS Failover

MCRegions    == {"east", "west", "north"}
MCNodes      == {"e1", "e2", "w1", "n1"}
MCNodeRegion == [n \in MCNodes |-> IF n = "w1" THEN "west" ELSE IF n = "n1" THEN "north" ELSE "east"]

\* Room for four replicas on e1 and w1, two on n1, none on e2;
\* GetRegionAllocatablePodNum finds one less on each.
Has(cpu, memory, pods) == [d \in {"cpu", "memory", "storage", "pods"} |->
    CASE d = "cpu" -> cpu [] d = "memory" -> memory [] d = "pods" -> pods [] OTHER -> 1]
MCNodeResource == [n \in MCNodes |-> CASE n = "w1" -> Has(9, 9, 4)
                                       [] n = "n1" -> Has(5, 6, 3)
                                       [] n = "e2" -> Has(6, 0, 9)
                                       [] OTHER    -> Has(10, 9, 9)]
MCRequest      == [Has(2, 2, 0) EXCEPT !["storage"] = 0]
MCUsed       == [r \in MCRegions |-> IF r = "north" THEN 2 ELSE 0]

Percent(e, w, n) == [r \in MCRegions |-> [kind |-> "percent", val |-> CASE r = "east" -> e [] r = "west" -> w [] OTHER -> n]]
Count(e, w, n)   == [r \in MCRegions |-> [kind |-> "int", val |-> CASE r = "east" -> e [] r = "west" -> w [] OTHER -> n]]
MCFirstSpec == [total |-> 2, want |-> Percent(33, 33, 34), autoReschedule |-> TRUE]
MCSpecs ==
    {MCFirstSpec,
     [total |-> 0, want |-> Count(2, 1, 1), autoReschedule |-> TRUE],
     [total |-> 0, want |-> Count(2, 1, 0), autoReschedule |-> FALSE],
     [total |-> 4, want |-> Percent(90, 90, 90), autoReschedule |-> TRUE]}
=============================================================================
