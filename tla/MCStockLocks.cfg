CONSTANTS
    p1 = p1
    p2 = p2
    w1 = w1
    Positions = {p1, p2}
    Orders = {w1}
    Requests = {r1, r2, r3}
    Sessions = {s1, s2}
    ByKey <- MCByKey
    ById <- MCById
    ByLine <- MCById
    Required <- MCRequired
    Planned <- MCPlanned
    Finished <- MCFinished
    Opening <- MCOneOpening
    Quantities = {1}
    Operations = {"RECEIPT", "REVERSAL", "RELEASE", "CANCEL", "ISSUE_MATERIALS"}
    None = None
SYMMETRY Symmetry
SPECIFICATION TransactionSpec
INVARIANTS
    ReadStaysTrue
    PostingsWaitInOrder
PROPERTIES
    ImplementsLedger
CHECK_DEADLOCK FALSE
