SPECIFICATION Spec
CONSTANTS
    Names <- MCNames
    KindOf <- MCKindOf
    Empty = "nobody"
    Prefix <- MCPrefix
    Jwts <- MCJwts
    Wire <- MCWire
    MaxInt <- MCMaxInt
    Settings <- MCSettings
    MaxChain = 3
    MaxTime = 2
INVARIANTS
    TypeOK
    IInv
    AcceptedDescends
    AcceptedInTime
    AcceptedIsSigned
    RightfulIsNotRefused
PROPERTIES
    ImplementsTrust
