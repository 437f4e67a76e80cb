CONSTANTS
    Scripts <- MCScripts
    Half = 16
SPECIFICATION FairSpec
INVARIANTS
    TypeOK
    DeliveredInOrder
    AnswerWithinBuffer
    NoPacketKept
    GetWordFindsWords
PROPERTIES
    EverythingDelivered
    BinaryModeEnds
