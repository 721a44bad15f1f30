SPECIFICATION FairSpec
CONSTANTS
    Letters <- MCLetters
    Digits <- MCDigits
    Sources <- MCSources
    Other <- MCOther
    Commands <- MCCommands
    FaultyCommands <- MCFaultyCommands
INVARIANTS
    
    MistakesShow
    
    OthersBehind
PROPERTIES
    Terminates
CHECK_DEADLOCK FALSE
