SPECIFICATION MCSpec
CONSTANTS
    k1 = k1
    k2 = k2
    k3 = k3
    ann = ann
    bob = bob
    p1 = p1
    shut = shut
    nowhere = nowhere
    o1 = o1
    o2 = o2
    None = None
    Slots = {s1, s2}
    Keys = {k1, k2, k3}
    Digests <- Inputs
    Successes <- AllCreated
    Refusals <- AllRefusals
    Staff = {ann, bob}
    Positions = {p1, shut}
    Closed = {shut}
    OperationKeys = {o1, o2}
    KeyStaff <- MCKeyStaff
    Openings = {k3}
    AgeingKeys = {k1, k3}
    MaxQuantity = 3
    MaxVersion = 4
SYMMETRY SlotSymmetry
INVARIANT StockInv
INVARIANT LedgerExplainsStock
INVARIANT OneMovementPerOperation
INVARIANT ReceiptsAreInTheLedger
INVARIANT EvidenceMatchesVersions
PROPERTY RevokedStaffMoveNothing
PROPERTY BookSpec
