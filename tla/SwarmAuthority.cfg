\* Authority: two capabilities, two stated bounds and an unstated one, the unsafe
\* stdlib on at the root; hibernation off.
SPECIFICATION Spec
CONSTANTS
    MaxInstances = 3
    SpawnRate = 1
    MaxPending = 1
    MaxId = 3
    CapNames = {"lifecycle", "tool"}
    Lifecycle = "lifecycle"
    MaxBudget = 2
    RootCaps = {"lifecycle", "tool"}
    Requests <- AuthorityRequests
    UnsafeStdlib = TRUE
    AllowHibernation = FALSE
INVARIANTS Attenuated
PROPERTIES TreePromised
