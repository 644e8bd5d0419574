CONSTANTS
    m1 = m1
    m2 = m2
    u = u
    c1 = c1
    c2 = c2
    NoConn = NoConn
    Managed <- MCOneManaged
    Manual <- MCManual
    Conns <- MCOneConn
    MaxStmts = 1
SPECIFICATION LibrarySpec
PROPERTIES
    ImplementsAtomicTx
    ConnectionReturned
    RunReturns
CHECK_DEADLOCK FALSE
