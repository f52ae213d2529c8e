\* Six places, one of another user's row, and pages of one to three rows.
CONSTANTS
    Keys = {1, 2, 3, 4, 5, 6}
    Foreign = {4}
    RawLimits = {0, 2, 9}
    MaxPage = 3
SPECIFICATION FairSpec
INVARIANTS
    WalkIsComplete
    NothingIsShownTwice
PROPERTIES
    WalksEnd
CHECK_DEADLOCK FALSE
