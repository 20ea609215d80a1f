\* A connection that ends while its login is being worked off.
CONSTANTS
    Name = {n1}
    Key = {k1}
    Conn = {c1, c2}
    None = None
    MaxEdits = 0
SPECIFICATION Spec
SYMMETRY Symmetry
INVARIANT OnlineIsConnected
