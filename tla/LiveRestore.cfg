SPECIFICATION Spec
CONSTANTS
    e1 = e1
    e2 = e2
    f1 = f1
    Entries = {e1, e2, f1}
    InFlight = {f1}
    MaxSchema = 2
    Dirs = 2
    KeepAutomatic = 1
    KeepPreRestore = 1
    DumpQualities = {"torn", "sound"}
    MaxStamp = 3
SYMMETRY Symmetry
INVARIANTS
    TypeOK
    NeverReplacesUnprotected
    OutcomeIsTrue
    SuccessIsTheBackup
    DataSurvives
    FilesSurvive
