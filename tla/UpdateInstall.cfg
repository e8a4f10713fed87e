SPECIFICATION FairSpec
CONSTANTS
    Users = {u1, u2}
    Nobody = Nobody
    Runs = {r1, r2}
    MaxBuild = 2
INVARIANTS
    OutageIsExcused
PROPERTIES
    InstallOverStoppedServer
    RestoreKeepsItsServer
    OutagesEnd
