SPECIFICATION FairSpec
CONSTANTS
    f1 = f1
    f2 = f2
    None = None
    Tills = {t1}
    Backends = {b1, b2}
    Sessions = {s1}
    Requests = {r1, r2}
    Forms = {f1, f2}
    Content <- CartAndReturn
    Variants = {1, 2}
    ReceiptLine <- Crossed
    OpeningStock <- TwoAndOne
    UnitsReceived = 1
    MaxJournals = 1
INVARIANTS
    TypeOK
    StockIsWhatWasMoved
    NumbersHaveNoGaps
PROPERTIES
    CallsAreAnswered
    ImplementsBooks
CHECK_DEADLOCK FALSE
