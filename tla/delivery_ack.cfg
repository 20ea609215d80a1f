\* A duplicate acknowledged while the first copy is still being handed over.
CONSTANTS
    N = 2
    ChanCap = 1
    MaxSeen = 2
    MaxOutbox = 1
    Mailbox = FALSE
    Readerless = FALSE
    Refusals = FALSE
    MaxTries = 2
    MaxCopies = 0
    MaxSends = 2
    MaxFaults = 0
SPECIFICATION MCSpec
INVARIANT AckedIsNotLost
