SPECIFICATION Spec
CONSTANTS
    Instants = {1, 2, 3}
    MaxTime = 3
    NoDeadline = NoDeadline
INVARIANTS
    NoLostWakeup
    SleepsOnCurrentDeadline
PROPERTIES
    WaitEnds
