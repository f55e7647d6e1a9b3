SPECIFICATION LiveSpec
CONSTANTS
    Texts <- SomeTexts
    Greeting <- OneWord
    Capacity = 2
    BufferSize = 4
    MaxFd = 9
    MaxSubst = 5
INVARIANTS TypeOK WholeOutput Restored
PROPERTIES Returns
CHECK_DEADLOCK FALSE
