SPECIFICATION Spec
CONSTANTS
    Group = 2
    Short = 3
    Word = 4
    Long = 6
    Texts <- MCTexts
    Lists <- MCLists
    TextLists <- MCTextLists
    Maps <- MCMaps
    FixedSize = 2
    Samples <- MCSamples
    Kinds = {"uint", "uint32", "bool", "short", "long", "string", "strings", "repeated", "map", "fixed"}
    Topics <- AllTopics
    Spell <- MCSpell
    Pick <- MCPick
    Results <- MCResults
    Headers <- MCHeaders
    Ways = {0, 1, 2, 3}
    MaxMessages = 2
INVARIANTS
    RoundTrip
    CutNoticed
    
CHECK_DEADLOCK FALSE
