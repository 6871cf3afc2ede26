CONSTANTS
    h1 = h1
    h2 = h2
    id1 = id1
    id2 = id2
    ann = ann
    new = new
    annKey = annKey
    key1 = key1
    key2 = key2
    tok = tok
    Nobody = Nobody
    Handler <- MCHandler
    CeremonyId <- MCCeremonyId
    Account <- MCEnrolAccount
    Cred <- MCEnrolCred
    OwnerOf <- MCEnrolOwner
    Token <- MCEnrolToken
    TokenAccount <- MCEnrolTokenAccount
    Refusals = {"refused"}
    TTL = 1
    MaxTime = 2
    MaxCrashes = 0
    AllowLocalAccountPairing = FALSE
SPECIFICATION Spec
SYMMETRY EnrolSymmetry
INVARIANT SessionOnlyFromLoginOrSignup
