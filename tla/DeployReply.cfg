\* A program that waits for its reply, under the residency policy.
SPECIFICATION DeployFair
CONSTANTS
    Node = {1, 2, 3}
    Root = 1
    Order <- Slots
    Waking = {2, 3}
    Residency = TRUE
    MaxResident = 1
    Callers = {2}
    Waits <- Replies
    ReplyCap = 1
    DropOldest = {}
    MaxCalls = 1
PROPERTIES AnswerLands
