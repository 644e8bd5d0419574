CONSTANTS
    NSort = 2
    Desc <- MCNone
    PKs <- MCThree
    Vals <- MCTwoVals
    Absent = Absent
    NoValues = NoValues
    Counts <- MCCounts
    DefaultCount = 3
    MaxChanges = 0
    MaxFaults = 0
SPECIFICATION Spec
PROPERTY
    PagesAreWindows
CHECK_DEADLOCK FALSE
