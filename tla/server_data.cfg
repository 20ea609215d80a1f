\* Two requests of any kind on one name, by two devices and with two passwords,
\* a sender of two letters, and one failed save, stop or deletion request.
CONSTANTS
    Name = {n1}
    Key = {k1, k2}
    Pass = {p1, p2}
    Code = {c1}
    None = None
    InviteOnly = TRUE
    Slots = 2
    MaxOps = 2
    MaxLegacy = 1
    MaxFaults = 1
    Sender = {s1}
    MaxItems = 2
    MaxBytes = 3
    PerPeer = 1
    MaxPuts = 2
SPECIFICATION MCFairSpec
INVARIANTS MailboxesTypeOK InviteInOnePlace PasswordInForce ConfirmedIsOnDisk NoLetterWithoutBox
PROPERTIES RegistryKept LettersGoRightly LettersLeave
