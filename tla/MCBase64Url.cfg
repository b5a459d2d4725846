SPECIFICATION Spec
CONSTANTS
    InputBytes <- MCBytes
    InputChars <- MCChars
    MaxBytes = 4
    MaxChanges = 2
INVARIANTS
    TypeOK
    DecodeInvertsEncode
    ReadAsSent
