CONSTANTS
    None = None
    Customers = {c1, c2}
    Invoices = {i1}
    Payments = {p1, p2}
    Authorizations = {a1, a2}
    Tokens = {}
    Calls = {k1, k2}
    Totals = {2}
    Amounts = {1, 2}
    Limit = 1
    Mapped = c2
    Balance = 1
    Cutover = 1
    Policies = {"credit", "inactive"}
    MaxDay = 1
SPECIFICATION Spec
INVARIANTS
    TypeOK
    InvoicesAreNotOverpaid
    RefundedOnce
    DeadlocksNeedACancellation
PROPERTIES
    ImplementsAccount
SYMMETRY Symmetry
CHECK_DEADLOCK FALSE
