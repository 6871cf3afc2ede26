CONSTANTS
    Field <- MCField
    Value = {v1, v2}
    Nonce = {n1, n2}
    Secret = {k1, k2, short}
    Weak = {short}
    Gateway = gateway
    MaxTime = 1
    MaxLines = 3
SPECIFICATION Spec
INVARIANT Authentic
INVARIANT Verifiable
CHECK_DEADLOCK FALSE
