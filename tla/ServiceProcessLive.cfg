\* Liveness of the lifecycle controller: two requests, one automatic restart.
SPECIFICATION FairSpec
CONSTANTS
    MaximumAutomaticRestarts = 1
    MaxRequests = 2
PROPERTIES
    LaunchSettles
    StopSettles
    RestartHonoured
    LossNoticed
CHECK_DEADLOCK FALSE
