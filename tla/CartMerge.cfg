SPECIFICATION MergingSpec
CONSTANTS
    guest = guest
    ann = ann
    bob = bob
    pen = pen
    ink = ink
    fog = fog
    None = None
    Slots = {s1, s2}
    Keys = {"merge", "add", "fill", "claim"}
    Digests <- MergingInputs
    Successes <- MCSuccesses
    Refusals <- MCRefusals
    Customers = {ann, bob}
    Guests = {guest}
    CartIds = {1, 2, 3}
    Variants = {pen}
    Unknown = {}
    Visitors = {w1, w2}
    KeyOwner <- MCOwner
    KeyOperations <- MCOperations
    Capability <- MCCapability
    AgeingKeys = {}
    Facts <- AnyLimit
    MaxQuantity = 3
    MaxLines = 1
    Lifetime = 1
    Horizon = 1
    MaxVersion = 4
SYMMETRY MergeSymmetry
INVARIANT OneActiveCart
PROPERTY MergeMovesEveryLine
PROPERTY TerminalCartsStay
INVARIANT NoLockCycle
