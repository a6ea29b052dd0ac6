SPECIFICATION FairSpec
CONSTANTS
    Regions = {r1}
    Templates = {1, 2, 3}
    Sizes = {2, 4}
    UpdateStrategy = "ReCreate"
    MaxSurge = 0
    MaxUnavailable = 0
    BatchSize = 2
    RolloutStrategy = "Group"
    NeedWaitingForConfirm = FALSE
    NeedFirstConfirm = FALSE
    HistoryLimit = 1
    Installed = TRUE
    Rollbacks = TRUE
    Lagging = {}
    MaxEdits = 2
    MaxFaults = 1
INVARIANTS TypeOK
PROPERTIES Converges
