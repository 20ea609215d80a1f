\* One message; stops and restarts of both ends, expired marks, lost acks, refusals,
\* a removed mailbox, a change of device, letters that grow too old.
CONSTANTS
    N = 1
    ChanCap = 1
    MaxSeen = 1
    MaxOutbox = 1
    Mailbox = TRUE
    Readerless = TRUE
    Refusals = TRUE
    MaxTries = 2
    MaxCopies = 2
    MaxSends = 3
    MaxFaults = 2
SPECIFICATION MCFairSpec
INVARIANTS NoSilentLoss NoDuplicates
PROPERTIES LetterDeletedOnceTaken PromiseKept MailedArrives
