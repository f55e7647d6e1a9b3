SPECIFICATION Spec
CONSTANTS
    Child = {c1, c2, c3}
    Shell = sh
    NoPid = nopid
    Interactive = TRUE
    MaxLen = 1
    MaxJobs = 2
SYMMETRY Pids
INVARIANTS PromptOwnsTerminal StoppedIsListed
CHECK_DEADLOCK FALSE
