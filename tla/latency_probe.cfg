CONSTANTS
    w1 = w1
    w2 = w2
    quick = quick
    slow = slow
    broken = broken
    refused = refused
    Worker <- MCWorker
    Sample <- MCSample
    Took <- MCTook
    Failed <- MCFailed
    Requests = 3
    Warmup = 1
SPECIFICATION Spec
INVARIANT ReportComplete
INVARIANT ZeroMeansClean
INVARIANT NearestRank
PROPERTY Terminates
CHECK_DEADLOCK FALSE
