SPECIFICATION FairSpec
CONSTANTS
    Regions <- MCRegions
    Nodes <- MCNodes
    NodeRegion <- MCNodeRegion
    NodeResource <- MCNodeResource
    Request <- MCRequest
    Used <- MCUsed
    Specs <- MCSpecs
    FirstSpec <- MCFirstSpec
    MaxFaults = 1
    MaxNodeChanges = 2
    MaxEdits = 1
INVARIANTS
    TypeOK
    RoundedTotal
    PlanForSpec
PROPERTIES
    FlaggedGetNothing
    NothingLost
    FlaggedEmptied
    EditTakesEffect
CHECK_DEADLOCK FALSE
