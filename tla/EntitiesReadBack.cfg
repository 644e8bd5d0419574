CONSTANTS
    Refused = Refused
    Structs <- MCStructs
    Lower <- MCLower
    Bits <- MCBits
    DefaultSize = 5
    Second = 9
    Day = 27
    Epoch = 40
    Now = 70
    Exponent = 20
    Precise = 16
    Beyond <- MCBeyond
    Mistaken <- MCMistaken
    Programs <- MCPrograms
    Calls <- MCCalls
    Key <- MCKey
    MaxInserts = 2
SPECIFICATION Spec
INVARIANTS
    ReadBack
    RefusedOnly
    ProtocolsAgree
    NoSilentChange
CHECK_DEADLOCK FALSE
