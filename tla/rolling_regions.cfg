SPECIFICATION Spec
CONSTANTS
    Regions = {r1, r2}
    Templates = {1, 2}
    Sizes = {3}
    UpdateStrategy = "RollingUpdate"
    MaxSurge = 1
    MaxUnavailable = 1
    BatchSize = 1
    RolloutStrategy = "Group"
    NeedWaitingForConfirm = FALSE
    NeedFirstConfirm = FALSE
    HistoryLimit = 1
    Installed = TRUE
    Rollbacks = FALSE
    Lagging = {}
    MaxEdits = 1
    MaxFaults = 0
INVARIANTS ZeroDowntime
