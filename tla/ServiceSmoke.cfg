\* The smoke journey, with the restart budget it configures.
SPECIFICATION SmokeSpec
CONSTANTS
    MaximumAutomaticRestarts = 0
    MaxRequests = 1
INVARIANTS
    SuccessIsEarned
PROPERTIES
    FailureIsReported
    SmokeReturns
CHECK_DEADLOCK FALSE
