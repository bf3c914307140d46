\* Safety of the client: two connections, a table of two, four request IDs.
SPECIFICATION Spec
CONSTANTS
    MaxPendingRequests = 2
    MaxRequestIds = 4
    MaxConnections = 2
    MaxInFlight = 2
INVARIANTS
    TypeOK
    PendingBound
    NothingLost
    PendingIsCurrent
    AuthenticatedFirst
    AnsweredOnce
    FailsOnce
PROPERTIES
    ConversationSpec
CHECK_DEADLOCK FALSE
