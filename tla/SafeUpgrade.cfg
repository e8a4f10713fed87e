SPECIFICATION Spec
CONSTANTS
    Entries = {e1, e2}
    MaxSchema = 3
    RetentionCount = 1
    MaxBackups = 3
    DumpQualities = {"torn", "sound"}
SYMMETRY Symmetry
INVARIANTS
    TypeOK
    NeverChangedUnprotected
    OutcomeIsTrue
    ReportedBackupExists
    DataSurvives
