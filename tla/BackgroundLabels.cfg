SPECIFICATION Spec
CONSTANTS
    N = 2
    BlockShape <- MCBlockShape
    Shapes <- MCShapes
    Value = {0, 1}
INVARIANT
    BackgroundIsZero
CHECK_DEADLOCK FALSE
