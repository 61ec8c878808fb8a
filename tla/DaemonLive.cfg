SPECIFICATION FairSpec
CONSTANTS
    Serve = {s1}
    Daemon = {d1}
    Stop = {t1}
    None = None
    MaxCrashes = 1
    DbMayFail = TRUE
    ConnectMayTimeOut = FALSE
PROPERTIES
    ClientsSettle
    StopIsHonoured
