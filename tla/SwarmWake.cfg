\* Liveness: what a driver that keeps stepping guarantees.
SPECIFICATION FairSpec
CONSTANTS
    MaxInstances = 2
    SpawnRate = 1
    MaxPending = 1
    MaxId = 3
    CapNames = {"lifecycle"}
    Lifecycle = "lifecycle"
    MaxBudget = 0
    RootCaps = {"lifecycle"}
    Requests <- ResidencyRequests
    UnsafeStdlib = FALSE
    AllowHibernation = TRUE
PROPERTIES PendingWoken
