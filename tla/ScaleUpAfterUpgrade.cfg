SPECIFICATION Spec
CONSTANTS
    TTL = 2
    Recreates = TRUE
    Events = {"upgrade", "scale"}
    MaxClaims = 3
    MaxRequests = 3
    MaxFaults = 0
INVARIANTS
    FormatsApart
CHECK_DEADLOCK FALSE
