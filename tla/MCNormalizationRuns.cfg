CONSTANTS
    Runs = {r1, r2}
    Workers = {w1}
    MaxRetries = 1
    MaxAttempts = 2
    Lease = 1
    BatchLimit = 2
    MaxCrashes = 1
    None = None
SPECIFICATION Spec
INVARIANTS
    BatchReflectsRuns
    CurrentRunIsTheOnlySuccess
    ActiveRunHasLiveJob
CHECK_DEADLOCK FALSE
