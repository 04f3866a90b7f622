SPECIFICATION Spec
CONSTANT NoOne = NoOne
PROPERTIES
    CommitDecided
    HeadIsDecided
    DeposedMasterStops
    RequestsEnd
    AttemptSettles
    CleanupSettles
CHECK_DEADLOCK FALSE
