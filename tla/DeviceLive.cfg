CONSTANTS
    MaxRx = 1
    MaxOwed = 1
    MaxMisread = 1
    MaxRequests = 2
    Attempts = 2
    HomeVersion = FALSE
SPECIFICATION FairSpec
INVARIANTS
    RunningHasRequest
    SessionOwned
PROPERTIES
    RequestSettles
    AppendReturns
    LossNoticed
    NeverStuck
