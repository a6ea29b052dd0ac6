SPECIFICATION FairSpec
CONSTANTS
    Regions = {r1}
    Templates = {1, 2, 3}
    Sizes = {2}
    UpdateStrategy = "DeleteAllFirst"
    MaxSurge = 0
    MaxUnavailable = 0
    BatchSize = 1
    RolloutStrategy = "Group"
    NeedWaitingForConfirm = FALSE
    NeedFirstConfirm = FALSE
    HistoryLimit = 1
    Installed = FALSE
    Rollbacks = TRUE
    Lagging = {}
    MaxEdits = 2
    MaxFaults = 1
INVARIANTS DeletedFirst
PROPERTIES Converges
