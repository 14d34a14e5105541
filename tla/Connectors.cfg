\* Two owners and three handles on each of the connectors, every queue and buffer of one or two.
SPECIFICATION Spec
CONSTANTS
    Inst = {a, b}
    MaxHandle = 3
    Wired = {"socket", "net", "ws"}
    MaxUnread = 1
    MaxListeners = 1
    ACCEPT_SWEEP = 1
    RECV_BACKLOG = 1
    ACCEPT_BACKLOG = 1
    MaxData = 2
    Early = 1
    MaxOpens = 1
    MaxConns = 2
    MaxEvents = 2
    MaxPushes = 1
    INBOX_MAX = 2
    OUTBOX_MAX = 1
    MaxFrames = 3
    MaxTasks = 1
SYMMETRY Symmetric
INVARIANTS OffersTrue NothingOfTheDead ToldTrue InOrder
PROPERTIES VitalEnds
CHECK_DEADLOCK FALSE
