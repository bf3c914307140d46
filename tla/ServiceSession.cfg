\* The controller with its real client: two requests to start or restart,
\* for each client a table of one, two request IDs, two frames unread.
SPECIFICATION FairSpec
CONSTANTS
    MaximumAutomaticRestarts = 0
    MaxRequests = 2
    MaxPendingRequests = 1
    MaxRequestIds = 2
    MaxInFlight = 2
PROPERTIES
    ControllerSpec
    RequestsDieWithService
CHECK_DEADLOCK FALSE
