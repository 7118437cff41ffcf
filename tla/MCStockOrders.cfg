CONSTANTS
    p1 = p1
    p2 = p2
    w1 = w1
    w2 = w2
    Positions = {p1, p2}
    Orders = {w1, w2}
    Requests = {r1, r2, r3, r4}
    Required <- MCRequired
    Planned <- MCPlanned
    Finished <- MCFinished
    Opening <- MCOpening
    Quantities = {1, 2}
    Operations = {"ADJUSTMENT", "RELEASE", "CANCEL", "ISSUE_MATERIALS", "RETURN_MATERIALS", "COMPLETE", "REVERSE_COMPLETION", "REVERSAL"}
    None = None
SYMMETRY Symmetry
SPECIFICATION Spec
INVARIANTS
    NeverOvercommitted
    ReservedIsOwed
    CompletionsAddUp
CHECK_DEADLOCK FALSE
