SPECIFICATION Spec
CONSTANTS
    Worlds <- MCWorlds
INVARIANTS
    OneAuthor
    HoldoutOnce
    ServedIsApproved
PROPERTIES
    ManifestIsTrue
CHECK_DEADLOCK FALSE
