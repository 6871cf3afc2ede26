CONSTANTS
    ka = ka
    kb = kb
    Key <- MCKey
    Limit = 2
    Window = 3
    MaxTime = 8
SPECIFICATION Spec
INVARIANT SlidingBound
INVARIANT BucketBound
PROPERTY DenialsJustified
PROPERTY KeysIsolated
