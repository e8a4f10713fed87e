CONSTANTS
    l1 = l1
    l2 = l2
    l3 = l3
    a = a
    b = b
    Kinds = {"receipt", "adjustment", "sale", "purchase", "delivery", "return", "movement"}
    Lines <- MCLines
    Contents <- MCContents
    ContentOf <- MCContentOf
    Calls = {k1, k2, k3}
    None = None
SPECIFICATION Spec
INVARIANTS
    TypeOK
    RecordedOnce
PROPERTIES
    NothingIsLost
SYMMETRY Symmetry
CHECK_DEADLOCK FALSE
