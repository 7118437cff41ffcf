CONSTANTS
    Jobs = {b1}
    Workers = {w1, w2}
    MaxAttempts = 3
    Lease = 2
    BatchLimit = 1
    MaxCrashes = 2
    None = None
SPECIFICATION FairSpec
INVARIANTS
    BatchMatchesJob
    SoleCommitter
    AllAttemptsMade
PROPERTIES
    ImplementsQueue
    MissedBeatEndsAttempt
    QueuedBatchSettles
