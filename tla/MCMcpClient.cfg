SPECIFICATION FairSpec
CONSTANTS
    MaxRequests = 5
    Guarded <- MCGuarded
INVARIANTS ClientInv NoReplyLost NeverWaitsForTheDead NoOrphans
PROPERTIES RequestsEnd CallsEndInOrder
CHECK_DEADLOCK FALSE
