CONSTANTS
    Failed = Failed
    Numeral <- MCNumeral
    Nested = {"a", "]"}
    Records <- MCRecords
    FieldTypes <- MCFieldTypes
    MaxWrites = 3
SPECIFICATION Spec
INVARIANT
    StringsSkipped
CHECK_DEADLOCK FALSE
