SPECIFICATION FairSpec
CONSTANTS
    c1 = c1
    c2 = c2
    c3 = c3
    c4 = c4
    Calls = {c1, c2, c3, c4}
    BufferCalls = {c4}
    Src <- MCSrc
    NoCall = NoCall
    Push = Push
    Empty = Empty
    InOrder = TRUE
    Sequential = FALSE
    PushBodies = {}
    MaxPush = 0
    MayClose = FALSE
INVARIANTS
    NoLostWakeup
PROPERTIES
    EveryCallReturns
CHECK_DEADLOCK FALSE
