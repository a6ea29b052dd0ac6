SPECIFICATION FairSpec
CONSTANTS
    Pods = {p1, p2, p3, p4}
    Templates = {1, 2}
    BurstReplicas = 2
    ReadinessGate = TRUE
    GracePeriod = TRUE
    MaxFaults = 1
    Sizes = {2, 3}
    BatchSize = 2
    Interrupt = FALSE
    MaxEdits = 1
INVARIANTS
    TypeOK
    OneGroupUpdating
    UpdatedAtTheEnd
    NeverAllOut
PROPERTIES
    OutOfServiceWhenPatched
    Converges
