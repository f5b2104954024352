CONSTANTS
    PodIds = {"web", "db"}
    Pids = {"p1", "p2"}
    MAX_BATCH = 2
    MaxPackets = 3
    Limits <- MCLimits
SPECIFICATION Spec
INVARIANTS ResourcesAreSound CompleteWriteFilters OnlyFaultsStrand
PROPERTY PacketsAnswered
CHECK_DEADLOCK FALSE
