SPECIFICATION Spec
CONSTANTS
    Regions = {r1, r2}
    Templates = {1, 2}
    Sizes = {2}
    UpdateStrategy = "ReCreate"
    MaxSurge = 0
    MaxUnavailable = 0
    BatchSize = 1
    RolloutStrategy = "Group"
    NeedWaitingForConfirm = FALSE
    NeedFirstConfirm = FALSE
    HistoryLimit = 1
    Installed = TRUE
    Rollbacks = FALSE
    Lagging = {}
    MaxEdits = 1
    MaxFaults = 0
INVARIANTS OneGroupInFlight
