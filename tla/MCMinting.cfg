SPECIFICATION Spec
CONSTANTS
    Names <- MCNames
    KindOf <- MCKindOf
    Empty = "nobody"
    Callers = {"thread"}
    Objects = {"claims"}
    Genesis <- MCGenesis
    MayUse <- OneThread
    GenericData <- MCGenericData
    MaxDepth = 2
    MaxTime = 1
    MaxMinted = 1
INVARIANTS
    TypeOK
    SignerAskedInOrder
    IInv
    MintedDecodes
    IssNeverDisagrees
PROPERTIES
    ImplementsIssuance
