SPECIFICATION Spec
CONSTANTS
    Node = {n1, n2, n3, n4}
    LReg = 3
    MReg = 2
    RSample = 1
    MaxTime = 6
    MaxNotes = 6
SYMMETRY NodeSymmetry
INVARIANTS Bounded SampleIsFresh RemembersRecent
CHECK_DEADLOCK FALSE
