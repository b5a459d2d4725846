SPECIFICATION Spec
CONSTANTS
    Admins = {a1, a2}
    SigningKeys <- MCSigningKeys
    ValidKeys = {"A1"}
    Users <- MCUsers
    RevokeAll = "*"
    Tiers <- MCTiers
    BlankTier = ""
    Exports <- MCExports
    Overlapping <- MCOverlapping
    Wildcards = {"q.>"}
    Optional = {"imports"}
    Imports = {"imports"}
    Always = {"authorization"}
    Data <- MCData
    Unsound = {"unsound"}
    Limits <- MCLimits
    Times <- MCTimes
    Foreign <- MCForeign
    MaxEdits = 2
    Absent = Absent
    NoDoc = NoDoc
SYMMETRY Symmetry
INVARIANTS
    TypeOK
    IInv
    AlwaysResignable
PROPERTIES
    PublishedRevocationsLast
    ImplementsPolicy
