CONSTANT MaxSet = 3
SPECIFICATION Spec
INVARIANT FailsClosed
INVARIANT AllReported
CHECK_DEADLOCK FALSE
