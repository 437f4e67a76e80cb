CONSTANTS
    Word = 2
    Buf = 4
    Page = 4
    NumPages = 1
    Stride = 2
    Span = 2
    FirmwareSize = 4
    Zeros = {6, 7}
    Positions = {0, 3}
    MaxSessions = 1
    MaxFaults = 1
SPECIFICATION FairSpec
CHECK_DEADLOCK FALSE
INVARIANTS
    CompletedIsWhole
    DamagedAppHasImage
PROPERTIES
    ReceptionEnds
    
