CONSTANTS
    c1 = c1
    c2 = c2
    c3 = c3
    empty = empty
    edited = edited
    NoNote = NoNote
    Absent = Absent
    Nobody = Nobody
    Nothing = Nothing
    DefaultNote = empty
    Clients <- MCClients
    Keys <- MCKeys
    Jobs <- MCJobs
    Notes <- MCNotes
    MaxFaults = 2
SPECIFICATION FairSpec
PROPERTIES
    SerialWhenLocked
    EverybodyEnds
CHECK_DEADLOCK FALSE
