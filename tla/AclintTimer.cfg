CONSTANTS
    Workers = {w1, w2}
    Values = {0, 2}
    Never = 99
    Cap = 1
    MaxTime = 2
SPECIFICATION Spec
INVARIANT OneWorker
INVARIANT NoOrphanDeadline
INVARIANT LineHonest
INVARIANT WfiDeadlineInTime
PROPERTY DeadlineServed
CHECK_DEADLOCK FALSE
