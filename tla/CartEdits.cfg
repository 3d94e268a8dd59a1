SPECIFICATION EditsSpec
CONSTANTS
    guest = guest
    ann = ann
    bob = bob
    pen = pen
    ink = ink
    fog = fog
    None = None
    Slots = {s1, s2}
    Keys = {"add", "edit"}
    Digests <- EditInputs
    Successes <- MCSuccesses
    Refusals <- MCRefusals
    Customers = {}
    Guests = {guest}
    CartIds = {1}
    Variants = {pen, ink}
    Unknown = {fog}
    Visitors = {}
    KeyOwner <- MCOwner
    KeyOperations <- MCOperations
    Capability <- MCCapability
    AgeingKeys = {}
    Facts <- AnyFacts
    MaxQuantity = 1
    MaxLines = 1
    Lifetime = 1
    Horizon = 1
    MaxVersion = 4
SYMMETRY SlotSymmetry
INVARIANT CartInv
INVARIANT CartIsItsHistory
