\* A claim of the tests the controller does not keep.
SPECIFICATION Spec
CONSTANTS
    MaximumAutomaticRestarts = 0
    MaxRequests = 1
INVARIANT
    FailureReportedOnce
CHECK_DEADLOCK FALSE
