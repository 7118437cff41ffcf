CONSTANTS
    b1 = b1
    s1 = s1
    q1 = q1
    a1 = a1
    m1 = m1
    c1 = c1
    r1 = r1
    i1 = i1
    x1 = x1
    f1 = f1
    k1 = k1
    p1 = p1
    q2 = q2
    c2 = c2
    b2 = b2
    Ops = {b1, s1, q1, a1, m1, c1, r1, i1, x1, f1, k1, p1, q2, c2, b2}
    Ordinal <- MCOrdinal
    Generation <- MCGeneration
    MaxRecoveries = 1
    None = None
    Unset = Unset
SPECIFICATION Spec
INVARIANTS
    JournalIsOneLine
    ReceiptsAreBacked
PROPERTIES
    QuarantineHolds
    CheckpointsInOrder
CHECK_DEADLOCK FALSE
