SPECIFICATION LiveSpec
CONSTANTS
    MaxFd = 12
    MaxLen = 3
    Kinds <- Mixed
    Redirections <- InOut
    Faults <- NoFaults
INVARIANTS TypeOK TableRestored  OnlyWriterHolds
PROPERTIES LineReturns
