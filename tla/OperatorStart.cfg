SPECIFICATION FairSpec
CONSTANTS
    Replicas = {r1, r2}
    NumCRDs = 2
    Copies = {a}
    Failures = {"listen"}
    MaxFaults = 1
    MaxWrites = 1
INVARIANTS
    TypeOK
    StoredVersionsTell
    CertificatesMatch
    ConvertedFirst
PROPERTIES
    ControllersRun
    WebhookServes
CHECK_DEADLOCK FALSE
