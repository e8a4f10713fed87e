SPECIFICATION Spec
CONSTANTS
    f1 = f1
    f2 = f2
    None = None
    Tills = {t1, t2}
    Backends = {b1, b2}
    Sessions = {s1, s2}
    Requests = {r1, r2}
    Forms = {f1, f2}
    Content <- Carts
    Variants = {1, 2}
    ReceiptLine <- Crossed
    OpeningStock <- TwoOfEach
    UnitsReceived = 1
    MaxJournals = 1
SYMMETRY Symmetry
INVARIANTS
    OncePerRequest
    AnswersAreTrue
    CountsAreComplete
    DeadlocksNeedAReturn
CHECK_DEADLOCK FALSE
