SPECIFICATION Spec
CONSTANTS
    Names <- MCNames
    KindOf <- MCKindOf
    Empty = "nobody"
    Signable <- MCSignable
INVARIANT
    OnlyJwtErrors
