SPECIFICATION Spec
CONSTANTS
    N = 2
    BlockShape <- MCBlockShape
    Shapes <- MCShapes
    Value = {0, 1}
INVARIANTS
    TypeOK
    TilingExact
    UnionsSound
    BlocksAgree
    ComponentsExact
CHECK_DEADLOCK FALSE
