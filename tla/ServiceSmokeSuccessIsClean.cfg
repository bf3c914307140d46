\* A claim of the documentation the command does not keep.
SPECIFICATION SmokeSpec
CONSTANTS
    MaximumAutomaticRestarts = 0
    MaxRequests = 1
INVARIANT
    SuccessIsClean
CHECK_DEADLOCK FALSE
