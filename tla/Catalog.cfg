SPECIFICATION Spec
CONSTANTS
    Products = {p1}
    Variants = {v1, v2}
    Slugs = {a, b}
    Horizon = 2
    MaxVersion = 7
    None = None
INVARIANT CatalogInv
INVARIANT VariantsFollowProduct
INVARIANT PublishedIsComplete
INVARIANT EventsTellTheProduct
INVARIANT LinksStay
CHECK_DEADLOCK FALSE
SYMMETRY Symmetry
