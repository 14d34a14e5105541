\* Each part's calls come to an end, and then it stops.
SPECIFICATION Spec
INVARIANTS
    AuthorityHeld
    AnswersTrue
    StoredTrue
    NothingLeftBehind
    NetworkTold
PROPERTIES
    StepsEarned
CHECK_DEADLOCK FALSE
