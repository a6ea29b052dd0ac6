SPECIFICATION FairSpec
CONSTANTS
    Regions = {r1}
    Templates = {1, 2}
    Sizes = {3}
    UpdateStrategy = "ReCreate"
    MaxSurge = 0
    MaxUnavailable = 0
    BatchSize = 1
    RolloutStrategy = "Beta"
    NeedWaitingForConfirm = TRUE
    NeedFirstConfirm = TRUE
    HistoryLimit = 1
    Installed = TRUE
    Rollbacks = FALSE
    Lagging = {"subsets", "deployment"}
    MaxEdits = 1
    MaxFaults = 0
INVARIANTS ZeroDowntime OneGroupInFlight
PROPERTIES Converges
