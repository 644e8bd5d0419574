CONSTANTS
    Handles <- MCHandles
    PoolSize = 2
    MaxRows = 1
    Dumpers <- MCDumpers
    Tables <- MCTables
    Stored <- MCStored
    Connections <- MCConnections
    MaxDumps <- MCMaxDumps
SPECIFICATION DumpSpec
INVARIANTS
    EndedMeansReleased
PROPERTIES
    QueriesServed
    DumpsEnd
    DumpRestores
CHECK_DEADLOCK FALSE
