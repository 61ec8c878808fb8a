SPECIFICATION FairActorSpec
CONSTANTS
    Parent <- MethodInClass
    NoParent = "none"
    Sited = {"calls"}
    Values = {1}
    Queriers = {q}
    Syncer = s
    Indexer = i
    Capacity = 1
    MaxCalls = 2
    MaxMishaps = 1
CHECK_DEADLOCK FALSE
PROPERTIES ImplementsStore ProcessEnds
