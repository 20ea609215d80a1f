\* Two messages, every race of streams, letters, passes and the reader, with a
\* duplicate filter that holds one mark; no faults.
CONSTANTS
    N = 2
    ChanCap = 1
    MaxSeen = 1
    MaxOutbox = 1
    Mailbox = TRUE
    Readerless = FALSE
    Refusals = FALSE
    MaxTries = 1
    MaxCopies = 1
    MaxSends = 2
    MaxFaults = 0
SPECIFICATION MCSpec
INVARIANTS TypeOK NoSilentLoss NoDuplicates
