SPECIFICATION CacheSpec
CONSTANTS
    N = 1
    BlockShape <- Length2
    Extent <- Length2
    Value = {0, 1, 2, 3}
    TypeLowest = 0
    TypeMin = 0
    TypeMax = 255
    CompressedLen <- RunLength
    Payload <- NoPayload
    WriteAsZero = {}
    Relabelings = {}
    Marks = {}
    Switches = {}
    Shape <- Length3
    Threads = {t1, t2}
    Wanted <- All
    Changes <- Both
    Given <- Across
    MaxChanges = 2
    MaxCalls = 3
    Free = Free
    Setup = Setup
INVARIANTS
    CacheTypeOK
    LockHeld
    CleanIsCurrent
    NoOlderThanTold
PROPERTIES
    RequestsEnd
    ChangesPassedOn
CHECK_DEADLOCK FALSE
