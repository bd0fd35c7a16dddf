\* Bounds: words of 8 bits in groups of 3, the shift counts to 16, amounts of
\* 3 digits of which 2 are fraction; an address gets at most 45 bytes.
CONSTANTS
    WordBits = 8
    GroupBits = 3
    ShiftSize = 16
    MAX_INT_DIGITS = 3
    DECIMAL_DIGITS = 2
    MaxBytes = 45
SPECIFICATION Spec
INVARIANTS
    FieldsAreRead
    ShownReadsBack
