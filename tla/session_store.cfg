CONSTANTS
    s1 = s1
    s2 = s2
    s3 = s3
    t1 = t1
    t2 = t2
    alice = alice
    Nobody = Nobody
    SessionId <- MCSessionId
    Thread <- MCThread
    Account <- MCAccount
    TTL = 4
    IdleTTL = 2
    MaxStall = 1
    MaxTime = 8
SPECIFICATION Spec
INVARIANT TypeOK
INVARIANT GarbageBound
PROPERTY ImplementsAbstractSessions
PROPERTY OnlyTimeOrDeleteEnds
