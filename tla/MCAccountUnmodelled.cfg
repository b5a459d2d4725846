SPECIFICATION Spec
CONSTANTS
    Admins = {a1}
    SigningKeys <- MCSigningKeys
    ValidKeys = {"A1"}
    Users <- MCUsers
    RevokeAll = "*"
    Tiers <- MCTiers
    BlankTier = ""
    Exports <- MCExports
    Overlapping <- MCOverlapping
    Wildcards = {"q.>"}
    Optional = {"imports"}
    Imports = {"imports"}
    Always = {"authorization"}
    Data <- MCData
    Unsound = {"unsound"}
    Limits <- MCLimits
    Times <- MCTimes
    Foreign <- MCForeign
    MaxEdits = 1
    Absent = Absent
    NoDoc = NoDoc
PROPERTY UnmodelledSurvives
