SPECIFICATION Spec
CONSTANTS
    Clusters = {c1}
    MaxVersion = 3
    Names = {"ns"}
    SharedNames = FALSE
    Nodes = 1
    MaxFaults = 1
    Patience = "status"
    FreshReads = TRUE
    PodsDisturbed = FALSE
    BrokenVersions = {}
    NoVersion = NoVersion
    Versions <- MCVersions
    Upgradable <- MCUpgradable
    Namespaces <- MCNamespaces
    NamespacesOf <- MCNamespacesOf
INVARIANTS
    BackupBeforeUpgrade
CHECK_DEADLOCK FALSE
