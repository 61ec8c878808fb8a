SPECIFICATION FairSpec
CONSTANTS
    Calls = {c1, c2}
    MaxLinks = 2
    QueueSize = 1
    None = None
CHECK_DEADLOCK FALSE
INVARIANTS
    EveryWaiterIsOwed
    AnswersFindTheirCall
    OneLiveLink
PROPERTIES
    NeverTwiceOnALink
    EveryCallReturns
