CONSTANTS
    MaxFiles = 2
    MaxDay = 2
    MaxLine = 3
SPECIFICATION Spec
INVARIANTS
    NothingLost
    ArchivesInOrder
PROPERTY
    RotationEnds
CHECK_DEADLOCK FALSE
