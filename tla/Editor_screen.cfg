SPECIFICATION Spec
CONSTANTS
    Chars <- Letters
    Keys <- TextKeys
    RevSearch = "other"
    Paced = TRUE
    Stale <- OneLetter
    MaxKillers = 1
    Listings <- TwoFiles
    Loaded <- SomeHistory
    Drawn = TRUE
    MaxText = 3
    MaxHist = 2
INVARIANTS ScreenFaithful
CHECK_DEADLOCK FALSE
PROPERTIES EditsText
