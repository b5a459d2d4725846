SPECIFICATION Spec
CONSTANTS
    Names <- MCNames
    KindOf <- MCKindOf
    Empty = "nobody"
    Signable <- MCSignable
INVARIANTS
    TypeOK
    DecodedIsSigned
    HeaderDecidesNothing
    DispatchIsFaithful
    TypedVerify
