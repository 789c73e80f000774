SPECIFICATION FairSpec
CONSTANTS
    K = 2
    Forms <- Calls
    Cap = 1
    Closed = Closed
    None = None
INVARIANTS TypeOK ResultComplete OrderKept OnlyRealErrors
PROPERTIES Terminates
