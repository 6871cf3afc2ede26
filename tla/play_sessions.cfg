CONSTANTS
    s1 = s1
    s2 = s2
    t1 = t1
    k1 = k1
    k2 = k2
    alice = alice
    Nobody = Nobody
    SessionId <- MCSessionId
    Thread <- MCThread
    Account <- MCAccount
    Socket <- MCSocket
    TTL = 9
    IdleTTL = 7
    MaxStall = 7
    JavaTimeout = 1
    PingInterval = 3
    PingTimeout = 1
    MaxLag = 1
    MaxTime = 17
SPECIFICATION SocketSpec
INVARIANT KeptAlive
INVARIANT NoOverstay
SYMMETRY MCSymmetry
CHECK_DEADLOCK FALSE
