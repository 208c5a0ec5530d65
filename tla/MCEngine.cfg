SPECIFICATION Spec
CHECK_DEADLOCK FALSE
INVARIANT SameProgram
INVARIANT OperandsInPlace
