CONSTANTS
    Instances = {i1, i2, i3}
    Lease = 2
    MaxVersion = 6
    None = None
SYMMETRY Symmetry
SPECIFICATION Spec
INVARIANTS
    HolderKnowsTheRow
    GenerationsFence
PROPERTIES
    LiveLeaseIsSafe
CHECK_DEADLOCK FALSE
