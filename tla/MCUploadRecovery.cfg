CONSTANTS
    b1 = b1
    b2 = b2
    b3 = b3
    good = good
    other = other
    Batches = {b1}
    Webs = {u1}
    Reconcilers = {k1}
    Contents = {good, other}
    Safe = {good}
    Declared <- MCDeclared
    Parent <- MCParent
    MaxFaults = 2
    None = None
SPECIFICATION FairSpec
INVARIANTS
    ReadyFileIsThere
PROPERTIES
    FinalFileStands
    UploadSettles
CHECK_DEADLOCK FALSE
