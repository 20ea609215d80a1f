\* A letter acknowledged while its message waits for the reader.
CONSTANTS
    N = 1
    ChanCap = 1
    MaxSeen = 1
    MaxOutbox = 1
    Mailbox = TRUE
    Readerless = FALSE
    Refusals = FALSE
    MaxTries = 0
    MaxCopies = 1
    MaxSends = 1
    MaxFaults = 1
SPECIFICATION MCSpec
INVARIANT StopLosesNoLetter
