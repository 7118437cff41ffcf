CONSTANTS
    p1 = p1
    p2 = p2
    w1 = w1
    w2 = w2
    Positions = {p1, p2}
    Orders = {}
    Requests = {r1, r2, r3}
    Required <- MCNothingRequired
    Planned <- MCNothingPlanned
    Finished <- MCFinished
    Opening <- MCSomeStock
    Quantities = {1, 2}
    Operations = {"RECEIPT", "IQC_RECEIPT", "ISSUE", "FREEZE", "UNFREEZE", "ADJUSTMENT", "REVERSAL"}
    None = None
SYMMETRY Symmetry
SPECIFICATION Spec
INVARIANTS
    LedgerChain
    AppliedOnce
    ReversalsNetOut
CHECK_DEADLOCK FALSE
