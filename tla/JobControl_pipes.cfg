SPECIFICATION Spec
CONSTANTS
    Child = {c1, c2, c3}
    Shell = sh
    NoPid = nopid
    Interactive = TRUE
    MaxLen = 2
    MaxJobs = 2
SYMMETRY Pids
INVARIANTS TypeOK BackgroundKeepsOffTerminal JobsAreDistinct
CHECK_DEADLOCK FALSE
