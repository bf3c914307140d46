\* Safety of the lifecycle controller: three requests, two automatic restarts.
SPECIFICATION Spec
CONSTANTS
    MaximumAutomaticRestarts = 2
    MaxRequests = 3
INVARIANTS
    TypeOK
    NoOrphan
    Supervised
    SessionBinding
    LaunchBudget
    BudgetBeforeFailure
    CredentialHygiene
PROPERTIES
    StopIsRespected
    SupervisionSpec
CHECK_DEADLOCK FALSE
