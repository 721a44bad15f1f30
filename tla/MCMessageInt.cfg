SPECIFICATION Spec
CONSTANTS
    Group = 2
    Short = 3
    Word = 4
    Long = 6
    Texts <- MCTexts
    Lists <- MCLists
    TextLists <- MCTextLists
    Maps <- MCMaps
    FixedSize = 2
    Samples <- MCSamples
    Kinds = {"int"}
    Topics = {"7001"}
    Spell <- MCSpell
    Pick <- MCPick
    Results <- AnyResult
    Headers <- MCHeaders
    Ways = {0}
    MaxMessages = 1
INVARIANTS
    RoundTrip
CHECK_DEADLOCK FALSE
