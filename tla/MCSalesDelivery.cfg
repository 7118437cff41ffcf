CONSTANTS
    c1 = c1
    c2 = c2
    Ordered = 2
    Completions = {c1, c2}
    Completed <- MCCompleted
    Lots = {c2}
    Inspections = {1, 2, 3}
    Instructions = {d1, d2}
    Shipments = {s1, s2, s3}
    Settlements = {p1, p2}
    None = None
SYMMETRY Symmetry
SPECIFICATION Spec
INVARIANTS
    ReservationsFit
    ShippedWasReleased
    BooksAddUp
    ReceivableStands
CHECK_DEADLOCK FALSE
