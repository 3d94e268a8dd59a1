SPECIFICATION MCSpec
CONSTANTS
    Products = {1, 2, 3}
    Variants = {v1, v2}
    Slugs = {a, b, c}
    Horizon = 1
    MaxVersion = 11
    None = None
    Limit = 1
    a = a
    b = b
    c = c
INVARIANT PageIsWhole
INVARIANT CartsTellTheTruth
INVARIANT ListIsComplete
CHECK_DEADLOCK FALSE
SYMMETRY Symmetry
