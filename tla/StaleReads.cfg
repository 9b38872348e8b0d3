SPECIFICATION Spec
CONSTANTS
    Clusters = {c1}
    MaxVersion = 3
    Names = {"ns"}
    SharedNames = FALSE
    Nodes = 3
    MaxFaults = 0
    Patience = "none"
    FreshReads = FALSE
    PodsDisturbed = FALSE
    BrokenVersions = {3}
    NoVersion = NoVersion
    Versions <- MCVersions
    Upgradable <- MCUpgradable
    Namespaces <- MCNamespaces
    NamespacesOf <- MCNamespacesOf
INVARIANTS
    OneNodeAtATime
CHECK_DEADLOCK FALSE
