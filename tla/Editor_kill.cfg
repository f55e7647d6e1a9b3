SPECIFICATION Spec
CONSTANTS
    Chars <- OneLetter
    Keys <- KillKeys
    RevSearch = "unset"
    Paced = FALSE
    Stale <- OneLetter
    MaxKillers = 1
    Listings = {}
    Loaded <- NoHistory
    Drawn = FALSE
    MaxText = 2
    MaxHist = 2
PROPERTIES KilledIsGone
CHECK_DEADLOCK FALSE
