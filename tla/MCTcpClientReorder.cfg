SPECIFICATION FairSpec
CONSTANTS
    c1 = c1
    c2 = c2
    c3 = c3
    c4 = c4
    Calls = {c1, c2}
    BufferCalls = {}
    Src <- MCSrc
    NoCall = NoCall
    Push = Push
    Empty = Empty
    InOrder = FALSE
    Sequential = FALSE
    PushBodies = {}
    MaxPush = 0
    MayClose = FALSE
PROPERTIES
    EveryCallReturns
CHECK_DEADLOCK FALSE
