\* A leg, a stream, a pairing and a count of reports come to an end, and then there is no next step.
\* The one other peer of the pairing host, c1, calls or comes directly.
SPECIFICATION Spec
CONSTANTS
    Legs = {1, 2}
    Callers = {3}
    CHANNEL = 1
    Streams = {1}
    WISP_BUFFER = 2
    max_streams = 1
    ROOM = 1
    MaxData = 3
    MaxUnheard = 1
    Calls = {"c1"}
    Pairs = {"p1", "p2"}
    Names = {"n1", "n2"}
    Allowed <- Rule
    Direct = {"c1"}
    max_sessions = 2
    LAG = 1
    Kinds = {"wireguard", "webrtc", "turn", "bridge", "stun", "netcheck"}
    HELD_MAX = 2
    MaxMade = 4
    QueueCap = 1
INVARIANTS
    AdmittedAndTold
    ArrivesInOrder
PROPERTIES
    EndsAndArrives
CHECK_DEADLOCK FALSE
