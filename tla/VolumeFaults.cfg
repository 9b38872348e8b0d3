SPECIFICATION Spec
CONSTANTS
    TTL = 1
    Recreates = TRUE
    Events = {"upgrade", "scale", "restart", "fail", "vanish", "abort", "slow", "lag"}
    MaxClaims = 3
    MaxRequests = 2
    MaxFaults = 2
INVARIANTS
    LeaksBounded
CHECK_DEADLOCK FALSE
