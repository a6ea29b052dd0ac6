SPECIFICATION Spec
CONSTANTS
    Regions = {r1}
    Templates = {1, 2, 3}
    Sizes = {2, 3}
    UpdateStrategy = "RollingUpdate"
    MaxSurge = 1
    MaxUnavailable = 1
    BatchSize = 1
    RolloutStrategy = "Group"
    NeedWaitingForConfirm = FALSE
    NeedFirstConfirm = FALSE
    HistoryLimit = 1
    Installed = TRUE
    Rollbacks = TRUE
    Lagging = {}
    MaxEdits = 2
    MaxFaults = 0
INVARIANTS ZeroDowntime SurgeBound
