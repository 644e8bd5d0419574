CONSTANTS
    id = id
    name = name
    email = email
    serial = serial
    NoTable = NoTable
    NoKey = NoKey
    PkName = id
    Migrators <- MCMigrators
    Entity <- MCReplaced
    Unsafe <- MCCleaners
    Tables <- MCAnyTable
    Contents <- MCContents
    MaxStarts = 3
    MaxDrops = 1
    MaxWrites = 1
    MaxFaults = 1
SPECIFICATION Spec
INVARIANTS
    SafeKeepsColumns
PROPERTIES
    FailureExplained
    SuccessFits
    UnsafeIsExact
CHECK_DEADLOCK FALSE
