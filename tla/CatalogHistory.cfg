SPECIFICATION Spec
CONSTANTS
    Products = {p1}
    Variants = {v1}
    Slugs = {a}
    Horizon = 3
    MaxVersion = 4
    None = None
PROPERTY PastPricesStand
CHECK_DEADLOCK FALSE
