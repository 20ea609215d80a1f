\* Two users, two devices, two connections and one edit by the operator, or a
\* restart: every order of logins, ends, deletions and bans.
CONSTANTS
    Name = {n1, n2}
    Key = {k1, k2}
    Conn = {c1, c2}
    None = None
    MaxEdits = 1
SPECIFICATION Spec
SYMMETRY Symmetry
INVARIANTS TypeOK NoOrphan
PROPERTIES StaysOnline BanHolds
