SPECIFICATION Spec
CONSTANTS
    N = 1
    BlockShape <- Length2
    Extent <- Length2
    Value <- Ternary
    TypeLowest = 0
    TypeMin = 0
    TypeMax = 255
    CompressedLen <- RunLength
    Payload <- Patterns
    WriteAsZero <- Erasing
    Relabelings <- SwapOrErase
    Marks = {}
    Switches <- Either
INVARIANT
    IteratorsValid
CHECK_DEADLOCK FALSE
