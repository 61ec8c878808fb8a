SPECIFICATION PagesSpec
CONSTANTS
    Last = 4
    Lines = {1, 2}
    Sites = {1, 2}
    Limits = {0, 2, 5}
    MaxPageLimit = 3
    Nothing = Nothing
    MaxChanges = 2
CHECK_DEADLOCK FALSE
INVARIANT EachRowOnce
