SPECIFICATION FairSpec
CONSTANTS
    Clusters = {c1}
    MaxVersion = 3
    Names = {"ns"}
    SharedNames = FALSE
    Nodes = 3
    MaxFaults = 0
    Patience = "status"
    FreshReads = TRUE
    PodsDisturbed = FALSE
    BrokenVersions = {}
    NoVersion = NoVersion
    Versions <- MCVersions
    Upgradable <- MCUpgradable
    Namespaces <- MCNamespaces
    NamespacesOf <- MCNamespacesOf
PROPERTIES
    UpgradeEnds
CHECK_DEADLOCK FALSE
