SPECIFICATION Spec
CONSTANTS
    Serve = {s1}
    Daemon = {d1, d2}
    Stop = {t1}
    None = None
    MaxCrashes = 1
    DbMayFail = TRUE
    ConnectMayTimeOut = TRUE
INVARIANTS
    OneDaemon
    RemovesOnlyItsOwn
SYMMETRY Symmetry
PROPERTIES
    ImplementsSlot
    
