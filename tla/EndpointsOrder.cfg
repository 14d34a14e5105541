\* One live link and one stale one, messages enough to fill every queue on
\* the way; a far end that reads gets what is held for it.
SPECIFICATION FairSpec
CONSTANTS
    Inst = {1, 2}
    Order <- Slots
    Link <- Mixed
    Foreign <- Stale
    Waking = {2}
    DropOldest = {}
    EndpointCap = 2
    InboxCap = 2
    MaxPending = 2
    MaxMsg = 4
INVARIANTS InOrder OneHeld
PROPERTIES KeptWhileResident HeldLands
