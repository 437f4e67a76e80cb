CONSTANTS
    MaxRx = 2
    MaxOwed = 2
    MaxMisread = 0
    MaxRequests = 2
    Attempts = 3
    HomeVersion = TRUE
SPECIFICATION Spec
INVARIANTS
    TypeOK
    NoNestedAppend
    ConnectedIsReal
    SubscriptionPending
    ExhaustedMeansRestart
    DialogStartsClean
