SPECIFICATION Spec
CONSTANTS
    Chars <- OneLetter
    Keys <- HistoryKeys
    RevSearch = "UP_ARROW"
    Paced = FALSE
    Stale <- OneLetter
    MaxKillers = 2
    Listings <- TwoFiles
    Loaded <- OneLine
    Drawn = FALSE
    MaxText = 2
    MaxHist = 2
INVARIANTS TypeOK RecallInBounds
PROPERTIES EditsText
CHECK_DEADLOCK FALSE
