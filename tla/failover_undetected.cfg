SPECIFICATION FairSpec
CONSTANTS
    Regions <- MCRegions
    Nodes <- MCNodes
    NodeRegion <- MCNodeRegion
    NodeResource <- MCNodeResource
    Request <- MCRequest
    Used <- MCUsed
    Specs <- MCSpecs
    FirstSpec <- MCFirstSpec
    MaxFaults = 0
    MaxNodeChanges = 2
    MaxEdits = 0
PROPERTIES
    FailureDetected
CHECK_DEADLOCK FALSE
