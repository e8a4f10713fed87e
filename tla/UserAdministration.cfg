SPECIFICATION Spec
CONSTANTS
    Users = {u1, u2}
    OtherRoles = {ADMIN}
    Connections = {c1, c2}
    None = None
SYMMETRY Symmetry
INVARIANT TypeOK
PROPERTY CleanCallsKeepASuperAdmin
CHECK_DEADLOCK FALSE
