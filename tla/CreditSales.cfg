CONSTANTS
    None = None
    Customers = {c1}
    Invoices = {i1, i2}
    Payments = {p1}
    Authorizations = {a1}
    Tokens = {t1}
    Calls = {k1, k2}
    Totals = {1}
    Amounts = {1}
    Limit = 1
    Mapped = c1
    Balance = 1
    Cutover = 1
    Policies = {"credit", "cash"}
    MaxDay = 2
SPECIFICATION Spec
INVARIANTS
    CacheReconciles
PROPERTIES
    OverdueSalesSpendAnOverride
SYMMETRY Symmetry
CHECK_DEADLOCK FALSE
