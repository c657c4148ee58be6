SPECIFICATION Spec
CONSTANTS
    N = 2
    BlockShape <- MCBlockShape
    Corners <- MCCorners
INVARIANTS
    TypeOK
    EnumerationExact
    VisitsPartition
    ReadAligned
PROPERTY
    Termination
CHECK_DEADLOCK FALSE
