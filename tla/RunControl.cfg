CONSTANTS
    Clients = {c1, c2}
    NoClient = NoClient
    Kicks = TRUE
    Reasons = {"reset", "pass"}
SPECIFICATION Spec
INVARIANT PausedIffParked
INVARIANT StopSleepsOnOpenRequest
INVARIANT MonitorWakeForgotten
INVARIANT NoSleepThroughIrq
INVARIANT QuitLowersRunFlag
SYMMETRY ClientSymmetry
CHECK_DEADLOCK FALSE
