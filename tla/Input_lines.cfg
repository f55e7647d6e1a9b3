SPECIFICATION LiveSpec
CONSTANTS
    Files <- SomeFiles
    Typed <- TypedLines
    Scripts <- SomeScripts
    RcFiles <- Startups
    Terminals = {TRUE, FALSE}
    Faults = {"write"}
    Block = 2
    MaxTyped = 3
    MaxOther = 1
INVARIANTS TypeOK FilesRunInOrder TypedLineIsRun HistoryFileKeeps EndsOnPurpose
PROPERTIES TypedReachesParser
CHECK_DEADLOCK FALSE
