SPECIFICATION Spec
CONSTANTS
    MaxFd = 12
    MaxLen = 3
    Kinds <- Mixed
    Redirections <- AllRedirections
    Faults <- CallFaults
INVARIANTS StdIntact Wired ErrWired
