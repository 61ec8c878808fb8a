SPECIFICATION FairSpec
CONSTANTS
    Files = {f1}
    Texts = {text, blank}
    Blank = blank
    Missing = missing
    None = none
    MaxRetries = 2
    StartsCold = TRUE
    MaxEdits = 2
    MaxStarts = 2
    MaxChanges = 3
    MaxMishaps = 1
INVARIANTS
    HashIsNotAhead
PROPERTIES
    DriftNeverErases
    
CHECK_DEADLOCK FALSE
