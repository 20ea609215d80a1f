\* A deletion during a login of the same name.
CONSTANTS
    Name = {n1}
    Key = {k1}
    Conn = {c1, c2}
    None = None
    MaxEdits = 1
SPECIFICATION Spec
SYMMETRY Symmetry
INVARIANT OnlineHasAccount
