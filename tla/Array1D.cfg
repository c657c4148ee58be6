SPECIFICATION PersistSpec
CONSTANTS
    N = 1
    BlockShape <- Length2
    Extent <- Length2
    Value <- Ternary
    TypeLowest = 0
    TypeMin = 1
    TypeMax = 255
    CompressedLen <- RunLength
    Payload <- Patterns
    WriteAsZero <- Erasing
    Relabelings <- SwapOrErase
    Marks = {FALSE}
    Switches <- Either
INVARIANTS
    TypeOK
    ReadsBack
    TablesCoherent
    CompressionHonoured
    NonzeroExact
    
PROPERTIES
    RoundTrip
    ImplementsSparseStore
CHECK_DEADLOCK FALSE
