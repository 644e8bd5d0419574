CONSTANTS
    NSort = 1
    Desc <- MCFirst
    PKs <- MCFour
    Vals <- MCTwoVals
    Absent = Absent
    NoValues = NoValues
    Counts <- MCCounts
    DefaultCount = 3
    MaxChanges = 2
    MaxFaults = 1
SPECIFICATION FairSpec
INVARIANTS
    StableRowsSeen
    SeenInOrder
PROPERTIES
    PagesAreWindows
    TraversalEnds
CHECK_DEADLOCK FALSE
