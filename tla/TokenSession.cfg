\* Two requests that share the tokens, two sign-ins, one restart.
CONSTANTS
    Requests = {r1, r2}
    MaxAccess = 4
    MaxSession = 2
    MaxSignOut = 1
    MaxRestart = 1
    Nobody = Nobody

SPECIFICATION Spec
SYMMETRY Symmetry

INVARIANTS
    TypeOK
    OnlyLastSession
    MemoryIsOnDisk
    ReplayInSameSession
    RefreshIsOfCurrentToken

PROPERTIES
    ReauthenticationIsNeeded
