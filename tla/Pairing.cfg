SPECIFICATION Spec
CONSTANTS
    Dirs = {d1, d2}
    OldDirs = {d1}
    Nodes = {n1, n2}
    Keys = {k1, k2, k3}
    None = None
    Torn = Torn
    Methods <- MCMethods
    Requested <- MCRequested
SYMMETRY MCSymmetry
INVARIANTS PairingTypeOK SeedKept CredsMatchSeed RuneFitsDevice PairedAsApproved DerivedGrantsLess
CHECK_DEADLOCK FALSE
