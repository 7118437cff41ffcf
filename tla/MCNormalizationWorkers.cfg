CONSTANTS
    Runs = {r1}
    Workers = {w1, w2}
    MaxRetries = 1
    MaxAttempts = 2
    Lease = 1
    BatchLimit = 2
    MaxCrashes = 1
    None = None
SPECIFICATION FairSpec
PROPERTIES
    LegalTransitions
    PublishedUnderLease
    ActiveRunSettles
CHECK_DEADLOCK FALSE
