CONSTANTS
    u1 = u1
    u2 = u2
    u3 = u3
    a = a
    b = b
    ub = ub
    Primary = Primary
    Unnamed = Unnamed
    Users <- MCUsers
    Jobs <- MCJobs
    Catalogues <- MCCatalogues
    MaxFaults = 1
SPECIFICATION Spec
SYMMETRY Sym
INVARIANTS
    SomebodySucceeds
PROPERTIES
    NilMeansThere
    RefusedOnlyRaced
    PrimaryStays
CHECK_DEADLOCK FALSE
