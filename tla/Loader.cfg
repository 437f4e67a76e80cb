CONSTANTS
    Word = 2
    Buf = 4
    Page = 2
    NumPages = 2
    Stride = 1
    Span = 2
    FirmwareSize = 4
    Zeros = {2}
    Positions = {0}
    MaxSessions = 2
    MaxFaults = 0
SPECIFICATION Spec
CHECK_DEADLOCK FALSE
PROPERTY ImplementsUpdate
INVARIANTS
    TypeOK
    DataCanEnd
    CommandFits
    CleanSessionAgrees
    
    LoaderIntact
