SPECIFICATION Spec
CONSTANTS
    Users = {u1}
    Nobody = Nobody
    Runs = {r1, r2}
    MaxBuild = 2
SYMMETRY Symmetry
INVARIANT FailedUpdateLeavesADatabase
