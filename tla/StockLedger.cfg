SPECIFICATION Spec
CONSTANTS
    Variants = {v1, v2}
    RateScale = 2
    ValuePerCent = 2
    Quantities = {1, 3}
    PackFactors = {1, 2}
    Costs = {1}
    MaxLines = 2
    MaxDocuments = 3
SYMMETRY Symmetry
INVARIANTS
    TypeOK
    PositionsAreMovements
    ValueTracksAverage
    AccountTracksStock
