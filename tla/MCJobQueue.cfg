CONSTANTS
    Jobs = {j1, j2, j3}
    MaxAttempts = 2
    Lease = 2
    BatchLimit = 2
SYMMETRY Symmetry
SPECIFICATION Spec
INVARIANTS
    OutcomeMatchesRow
    OpenCompletionOwnsRow
PROPERTIES
    FencedPublication
    ImplementsContract
CHECK_DEADLOCK FALSE
