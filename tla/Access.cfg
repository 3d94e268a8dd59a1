SPECIFICATION Spec
CONSTANTS
    None = None
    Slots = {s1, s2}
    Staff = {ann, bob}
    Roles = {admin}
    ManagerRoles = {admin}
    Horizon = 1
    MaxVersion = 3
SYMMETRY SlotSymmetry
INVARIANT AccessInv
INVARIANT PermanentManagerRemains
INVARIANT AuditTrailComplete
PROPERTY OfficeSpec
