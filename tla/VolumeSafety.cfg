SPECIFICATION FairSpec
CONSTANTS
    TTL = 2
    Recreates = TRUE
    Events = {"upgrade", "scale", "restart", "fail"}
    MaxClaims = 3
    MaxRequests = 3
    MaxFaults = 1
INVARIANTS
    TypeOK
    MountedIsKept
PROPERTIES
    DeletesExpiredOnly
    DataIsKept
    UnusedGoes
CHECK_DEADLOCK FALSE
