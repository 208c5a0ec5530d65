SPECIFICATION Spec
CHECK_DEADLOCK FALSE
INVARIANT QueuesInOrder
INVARIANT DeviceLinesTrue
INVARIANT TimeKept
