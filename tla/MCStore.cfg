SPECIFICATION FairSpec
CONSTANTS
    c1 = c1
    c2 = c2
    c3 = c3
    None = None
    Callers <- MCCallers
    Plans <- MCPlans
    Names <- MCNames
    Accounts <- MCAccounts
    People <- MCPeople
    Rows <- MCRows
    AccColumn = TRUE
    MaxRestarts = 1
INVARIANTS
    LoginHasRow
    AllOrReported
    StatementMeant
PROPERTIES
    ChangeAlone
    
CHECK_DEADLOCK FALSE
