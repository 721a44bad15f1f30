SPECIFICATION Spec
CONSTANTS
    c1 = c1
    c2 = c2
    c3 = c3
    c4 = c4
    Calls = {c1, c2, c3, c4}
    BufferCalls = {c3, c4}
    Src <- MCSrc
    NoCall = NoCall
    Push = Push
    Empty = Empty
    InOrder = FALSE
    Sequential = FALSE
    PushBodies = {Push, Empty}
    MaxPush = 1
    MayClose = TRUE
INVARIANTS
    TypeOK
    OwnResponse
    CallbackAlive
PROPERTIES
    ImplementsRpc
CHECK_DEADLOCK FALSE
