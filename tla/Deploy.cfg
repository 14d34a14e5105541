\* Two instances that ask to be woken and a budget of one.
SPECIFICATION DeployFair
CONSTANTS
    Node = {1, 2, 3}
    Root = 1
    Order <- Slots
    Waking = {2, 3}
    Residency = TRUE
    MaxResident = 1
    Callers = {2}
    Waits <- Deadlines
    ReplyCap = 1
    DropOldest = {}
    MaxCalls = 1
INVARIANTS BudgetHeld WokenIsDriven ParksExact
PROPERTIES DeadlineHeard
