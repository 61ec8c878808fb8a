SPECIFICATION FairSpec
CONSTANTS
    None = None
    QueueLen = 1
    PipeLen = 1
    MaxTasks = 2
CHECK_DEADLOCK FALSE
INVARIANTS ServerFollowsDocs AsksAboutWhatItSent ShutdownEndsTheServer
PROPERTY RequestsSettle
