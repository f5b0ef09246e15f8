SPECIFICATION Spec
CONSTANTS
    MaxRequests = 5
    Guarded <- MCGuarded
INVARIANTS ZeroMeansNoFailure
CHECK_DEADLOCK FALSE
