CONSTANTS
    NULL = NULL
    Failed = Failed
    Nothing = Nothing
    Callers = {g1, g2}
    Programs <- MCPrograms
    Rows <- MCRows
    Settings <- MCSettings
    DefaultLimit = 4
SPECIFICATION Spec
SYMMETRY Goroutines
INVARIANTS
    FindSelects
    RefusedOnly
    WriteSelects
    SlicesKept
CHECK_DEADLOCK FALSE
