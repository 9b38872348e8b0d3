SPECIFICATION FairSpec
CONSTANTS
    MaxNodes = 3
    ReplicationFactor = 2
    Configs = {"c1", "c2"}
    Bypass = FALSE
    Calm = TRUE
    Prompt = TRUE
    MaxEdits = 1
    MaxFaults = 1
    MaxLosses = 1
INVARIANTS
    TypeOK
PROPERTIES
    DataStaysAvailable
    StatusIsEarned
    Converges
