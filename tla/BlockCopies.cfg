SPECIFICATION Spec
CONSTANTS
    N = 1
    BlockShape <- Length2
    Value <- Binary
    CompressedLen <- RunLength
    Obj = {a, b}
INVARIANTS
    TypeOK
    BufferAgrees
    NeverThrows
    ReadsBack
    SlicesExact
