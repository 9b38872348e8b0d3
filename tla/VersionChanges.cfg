SPECIFICATION Spec
CONSTANTS
    SupportedVersions <- MCSupportedVersions
    OtherVersions <- MCOtherVersions
    MaxUpgrades = 4
INVARIANTS
    TypeOK
    NamesAreUnique
PROPERTIES
    NeverBackwards
    RecreatesAcross42
CHECK_DEADLOCK FALSE
