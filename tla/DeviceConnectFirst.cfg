CONSTANTS
    MaxRx = 1
    MaxOwed = 1
    MaxMisread = 0
    MaxRequests = 2
    Attempts = 2
    HomeVersion = TRUE
SPECIFICATION Spec
INVARIANT FirstPacketIsConnect
