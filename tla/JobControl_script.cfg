SPECIFICATION LiveSpec
CONSTANTS
    Child = {c1, c2, c3}
    Shell = sh
    NoPid = nopid
    Interactive = FALSE
    MaxLen = 2
    MaxJobs = 2
PROPERTIES CommandReturns
CHECK_DEADLOCK FALSE
