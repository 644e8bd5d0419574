CONSTANTS
    m1 = m1
    m2 = m2
    u = u
    c1 = c1
    c2 = c2
    NoConn = NoConn
    Managed <- MCTwoManaged
    Manual <- MCNobody
    Conns <- MCConns
    MaxStmts = 2
SPECIFICATION Spec
SYMMETRY Sym
INVARIANTS
    TypeOK
    ConnectionsConserved
    OneFinisher
    NilMeansCommitted
    RefusalMeansNothing
    ReturnsFinished
CHECK_DEADLOCK FALSE
