\* Liveness of the client: a service that answers, two requests at a time.
SPECIFICATION FairSpec
CONSTANTS
    MaxPendingRequests = 2
    MaxRequestIds = 3
    MaxConnections = 1
    MaxInFlight = 2
PROPERTIES
    RequestsEnd
    ClosingEnds
CHECK_DEADLOCK FALSE
