CONSTANTS
    b1 = b1
    b2 = b2
    b3 = b3
    good = good
    other = other
    Batches = {b1, b2, b3}
    Webs = {u1}
    Reconcilers = {k1}
    Contents = {good}
    Safe = {good}
    Declared <- MCDeclared
    Parent <- MCParent
    MaxFaults = 0
    None = None
SPECIFICATION Spec
INVARIANTS
    OneFilePerContent
CHECK_DEADLOCK FALSE
