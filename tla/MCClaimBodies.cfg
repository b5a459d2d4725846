SPECIFICATION Spec
CONSTANTS
    sound = sound
    unsound = unsound
    Data = {sound, unsound}
    Unsound = {unsound}
    Blank = Blank
    Bounds <- MCBounds
    Moments <- MCMoments
    Foreign <- MCForeign
    MaxEdits = 2
    Absent = Absent
    Unreadable = Unreadable
    NoToken = NoToken
INVARIANTS
    TypeOK
    IInv
    EncodedIsReencodable
PROPERTIES
    ScopedStaysScoped
    ImplementsResigning
