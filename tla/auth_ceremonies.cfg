CONSTANTS
    h1 = h1
    h2 = h2
    id1 = id1
    id2 = id2
    ann = ann
    new = new
    annKey = annKey
    key1 = key1
    key2 = key2
    tok = tok
    Nobody = Nobody
    Handler <- MCOneHandler
    CeremonyId <- MCCeremonyId
    Account <- MCCeremonyAccount
    Cred <- MCCeremonyCred
    OwnerOf <- MCCeremonyOwner
    Token <- MCEmpty
    TokenAccount <- MCNoTokenAccount
    Refusals = {"refused", "unknown"}
    TTL = 2
    MaxTime = 3
    MaxCrashes = 1
    AllowLocalAccountPairing = TRUE
SPECIFICATION LiveSpec
INVARIANT TypeOK
INVARIANT PendingGarbageBound
PROPERTY ImplementsAbstractCeremonies
PROPERTY HandlerReturns
