CONSTANTS
    Failed = Failed
    Numeral <- MCNumeral
    Nested = {"a"}
    Records <- MCRecords
    FieldTypes <- MCFieldTypes
    MaxWrites = 3
SPECIFICATION Spec
INVARIANTS
    DocReadBack
    KeyReadBack
    LeavesWalked
    RefusedOnlyControl
PROPERTY
    Settles
CHECK_DEADLOCK FALSE
