SPECIFICATION Spec
CONSTANTS
    Uris <- MCUris
    Texts <- MCTexts
    Nothing = Nothing
    Calls <- MCCalls
    MaxDrift = 3
    Reindexing = FALSE
    MaxId = 6
    MaxCalls = 1
INVARIANTS
    GraphMatchesText
    ContainmentAgrees
PROPERTIES
    DeletedOnSecondStrike
    ChangesOutdateCalls
    NamesStayWithTheirRows
    ReconcilingAgainChangesNothing
CHECK_DEADLOCK FALSE
