SPECIFICATION Spec
CONSTANTS
    Slots = {s1, s2}
    Customers = {ann}
    AddressIds = {a1, a2, a3}
    Bodies <- MCBodies
    MaxLive = 2
    MaxVersion = 3
    None = None
SYMMETRY Symmetry
INVARIANT AddressInv
INVARIANT BookInOrder
PROPERTY EditsReplaceWhatWasSeen
