SPECIFICATION FairSpec
CONSTANTS
    login = login
    database = database
    c1 = c1
    c2 = c2
    Gateway = gateway
    None = None
    MaxLives = 2
    Slow <- MCSlow
    Asks <- MCAsks
    Backends <- MCBackends
    Group <- MCGroup
    TopicsOf <- MCTopicsOf
    Mortal <- MCMortal
    Calls <- MCCalls
INVARIANTS
    InvokeDefined
    Routed
    GatewayKnows
PROPERTIES
    Implements
    
    
CHECK_DEADLOCK FALSE
