CONSTANTS
    Workers = {w1, w2}
    Values = {1}
    Never = 99
    Cap = 1
    MaxTime = 2
SPECIFICATION Spec
PROPERTY TimerFires
CHECK_DEADLOCK FALSE
