SPECIFICATION FairSpec
CONSTANTS
    Specs = {1, 2, 3, 4}
    HistoryLimit = 1
    MaxEdits = 5
    MaxFaults = 1
INVARIANTS
    TypeOK
    NumbersNotReused
    AnnotatedNewest
    HistoryBounded
PROPERTIES
    ImplementsLastRevision
    Recorded
CHECK_DEADLOCK FALSE
