SPECIFICATION FairSpec
CONSTANTS
    srvd_client = srvd_client
    srv_regist = srv_regist
    other = other
    PoolSize = 2
    Modules = {srvd_client, srv_regist, other}
    Priority <- MCPriority
    MayFail = {other}
    Uses <- MCUses
    Requested = {srv_regist, srvd_client}
    EarlyRequests = FALSE
    MaxAccepts = 4
    MayStop = TRUE
    None = None
INVARIANTS
    
    
    PriorityOrder
    CallsReachModules
PROPERTIES
    EveryModuleRuns
    StopReturns
CHECK_DEADLOCK FALSE
