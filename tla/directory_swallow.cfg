\* A ban list refreshed by something other than the background loop.
CONSTANTS
    Name = {n1}
    Key = {k1}
    Conn = {c1}
    None = None
    MaxEdits = 1
SPECIFICATION FairSpec
PROPERTY BannedLeaves
