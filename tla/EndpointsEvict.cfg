\* An inbox that evicts its oldest message when it is full.
SPECIFICATION Spec
CONSTANTS
    Inst = {1, 2}
    Order <- Slots
    Link <- Single
    Foreign = {}
    Waking = {2}
    DropOldest = {2}
    EndpointCap = 1
    InboxCap = 1
    MaxPending = 1
    MaxMsg = 3
INVARIANTS HeldWasRefused
