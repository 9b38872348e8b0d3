SPECIFICATION FairSpec
CONSTANTS
    Kinds = {"backup"}
    MaxUids = 1
    Buckets = {"b1"}
    OldObjects = {}
    BackoffLimit = 1
    Losses = {"dies"}
    Unset = Unset
    Gone = Gone
    Specs <- MCSpecs
    BackupSpecs <- MCBackupSpecs
    Deletable = {}
    TempSecrets = {}
    MaxResources = 1
    MaxSecrets = 0
    MaxEdits = 1
    MaxFaults = 1
INVARIANTS
    TypeOK
    FinishedIsUploaded
    StartedIsKept
PROPERTIES
    ExpiredGoes
    DataGoesWithBackup
CHECK_DEADLOCK FALSE
