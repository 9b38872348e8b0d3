SPECIFICATION Spec
CONSTANTS
    Clusters = {c1}
    MaxVersion = 3
    Names = {"ns1", "ns2"}
    SharedNames = FALSE
    Nodes = 2
    MaxFaults = 2
    Patience = "settled"
    FreshReads = TRUE
    PodsDisturbed = TRUE
    BrokenVersions = {3}
    NoVersion = NoVersion
    Versions <- MCVersions
    Upgradable <- MCUpgradable
    Namespaces <- MCNamespaces
    NamespacesOf <- MCNamespacesOf
INVARIANTS
    TypeOK
    BackupInv
    BackupBeforeUpgrade
    StatusTellsVersion
    FailureIsReported

    
CHECK_DEADLOCK FALSE
