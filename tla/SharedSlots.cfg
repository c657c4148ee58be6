SPECIFICATION Spec
CONSTANTS
    N = 2
    BlockShape <- Square
    Value <- Binary
    CompressedLen <- RunLength
    Obj = {a}
PROPERTY
    BlockStaysDirty
