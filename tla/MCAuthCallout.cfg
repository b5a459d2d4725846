SPECIFICATION FairSpec
CONSTANTS
    Names <- MCNames
    KindOf <- MCKindOf
    Empty = "nobody"
    Connections <- MCConnections
    Question <- MCQuestion
    Account = "acc"
    SigningKey = "sign"
    ServiceXKey = "svcx"
    OtherXKey = "othx"
    Nothing = Nothing
INVARIANTS
    TypeOK
    IInv
    SealedForItsServer
    ReadableIsAnswerable
    FittingAnswersAgree
PROPERTIES
    ImplementsAdmission
    ListensAgain
