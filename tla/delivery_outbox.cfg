\* Two messages that are never reached directly: the outbox and its passes.
CONSTANTS
    N = 2
    ChanCap = 1
    MaxSeen = 2
    MaxOutbox = 2
    Mailbox = TRUE
    Readerless = FALSE
    Refusals = FALSE
    MaxTries = 0
    MaxCopies = 1
    MaxSends = 1
    MaxFaults = 0
SPECIFICATION MCFairSpec
INVARIANT OldestFirst
PROPERTY QueuedSettles
