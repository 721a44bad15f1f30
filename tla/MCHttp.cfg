SPECIFICATION FairSpec
CONSTANTS
    None = None
    AnswerSize = 4
    Scripts <- MCScripts
    Contexts <- MCContexts
    Result <- MCResult
    AllowOrigin = {"site"}
    AllowMethods = {"POST", "GET", "PUT"}
    AllowHeaders = {"type"}
INVARIANTS
    OwnBody
    AnswersWhole
    
PROPERTIES
    NoBodyLost
    
CHECK_DEADLOCK FALSE
