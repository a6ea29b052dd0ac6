SPECIFICATION Spec
CONSTANTS
    Regions = {r1, r2}
    Templates = {1, 2, 3}
    Sizes = {3}
    UpdateStrategy = "ReCreate"
    MaxSurge = 0
    MaxUnavailable = 0
    BatchSize = 1
    RolloutStrategy = "Group"
    NeedWaitingForConfirm = TRUE
    NeedFirstConfirm = FALSE
    HistoryLimit = 0
    Installed = TRUE
    Rollbacks = FALSE
    Lagging = {}
    MaxEdits = 2
    MaxFaults = 0
INVARIANTS ZeroDowntime
PROPERTIES ConfirmGate
