\* Two connections on each runtime, a backlog and a queue of one.
SPECIFICATION FairSpec
CONSTANTS
    Conn = {1, 2}
    STREAM_BACKLOG = 1
    Runtimes <- SmallRuntimes
    QueueCap = 1
    MaxOwed = 2
INVARIANTS OneResponse NoticeTrue
PROPERTIES InOrder HeldSettles
CHECK_DEADLOCK FALSE
