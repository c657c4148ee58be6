SPECIFICATION Spec
CONSTANTS
    N = 2
    BlockShape <- Uneven
    Extent <- Row
    Value = {0}
    TypeLowest = 0
    TypeMin = 0
    TypeMax = 255
    CompressedLen <- RunLength
    Payload <- Constants
    WriteAsZero = {1}
    Relabelings = {}
    Marks <- Either
    Switches = {}
INVARIANTS
    DirtyVoxelwise
    MarkedIsReported
PROPERTY
    OverwrittenIsClean
CHECK_DEADLOCK FALSE
