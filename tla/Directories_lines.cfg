SPECIFICATION Spec
CONSTANTS
    Tree <- SmallTree
    Files <- OneFile
    Order <- Sorted
    Start <- Root
    Home <- HomeDir
    Words <- TypedWords
    MaxStack = 3
INVARIANTS TypeOK BackWherePushed
PROPERTIES RelativeFromHere PopGoesThere
CHECK_DEADLOCK FALSE
