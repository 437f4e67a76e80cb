CONSTANTS
    Capacity = 3
    MaxBytes = 8
SPECIFICATION FairSpec
INVARIANTS
    TypeOK
    InOrder
    ParkedIsYoungest
PROPERTIES
    FramerNeverGoesBack
    LossOnlyOnOverflow
    MainIsDrained
    ImplementsChannel
