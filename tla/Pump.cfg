\* Two instances, three requests each, a reply queue of one.
SPECIFICATION Spec
CONSTANTS
    Node = {a, b}
    ReplyCap = 1
    DropOldest = {b}
    MaxCalls = 3
INVARIANTS EachOnce AnswersInOrder OwedToTheLiving
CHECK_DEADLOCK FALSE
