CONSTANTS
    login = login
    b1 = b1
    b2 = b2
    d1 = d1
    Proxy = Proxy
    Action <- MCAction
    Proxied <- MCProxied
    Direct <- MCDirect
    Key <- MCKey
    SetUps <- MCSetUps
    Limit = 1
    Window = 2
    MaxTime = 4
SPECIFICATION PerimeterSpec
INVARIANT AllowancePerClient
INVARIANT NoRedirectLoop
PROPERTY DenialIsOwn
SYMMETRY MCSymmetry
