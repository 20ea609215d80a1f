\* Two connections of one user and two edits; what goroutines must get done.
CONSTANTS
    Name = {n1}
    Key = {k1}
    Conn = {c1, c2}
    None = None
    MaxEdits = 2
SPECIFICATION FairSpec
PROPERTIES PresenceEnds DeletionDone
