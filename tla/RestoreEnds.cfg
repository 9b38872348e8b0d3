SPECIFICATION FairSpec
CONSTANTS
    Kinds = {"restore"}
    MaxUids = 1
    Buckets = {"b1"}
    OldObjects = {"b1"}
    BackoffLimit = 1
    Losses = {"pod", "dies"}
    Unset = Unset
    Gone = Gone
    Specs <- MCSpecs
    BackupSpecs <- MCBackupSpecs
    Deletable = {"restore"}
    TempSecrets = {"restore"}
    MaxResources = 1
    MaxSecrets = 2
    MaxEdits = 1
    MaxFaults = 1
INVARIANTS
    SecretIsMounted
PROPERTIES
    OneJobPerRequest
    EveryRequestEnds
    SecretsGo
CHECK_DEADLOCK FALSE
