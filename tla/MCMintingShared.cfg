SPECIFICATION Spec
CONSTANTS
    Names <- MCNames
    KindOf <- MCKindOf
    Empty = "nobody"
    Callers = {"thread1", "thread2"}
    Objects = {"claims"}
    Genesis <- MCGenesis
    MayUse <- TwoThreads
    GenericData <- MCGenericData
    MaxDepth = 1
    MaxTime = 1
    MaxMinted = 1
INVARIANT
    IssNeverDisagrees
