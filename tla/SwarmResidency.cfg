\* Residency: three slots and five handles, so that a tree of three levels
\* dies whole, its slots are used again and a held request meets the spawn
\* rate again; hibernation on.
SPECIFICATION Spec
CONSTANTS
    MaxInstances = 3
    SpawnRate = 1
    MaxPending = 1
    MaxId = 5
    CapNames = {"lifecycle"}
    Lifecycle = "lifecycle"
    MaxBudget = 0
    RootCaps = {"lifecycle"}
    Requests <- ResidencyRequests
    UnsafeStdlib = FALSE
    AllowHibernation = TRUE
INVARIANTS TypeOK TableExact NoOrphans OneForm HostMirrors
PROPERTIES StopReported ReachesOnlyBelow DeferredKept
