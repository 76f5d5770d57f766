\* A platform that does not check key usages: what the code means to do.
CONSTANTS
    User = {ann, bob}
    EnforcesUsages = FALSE
    MaxPairs = 2
    MaxOpens = 4
SYMMETRY Symmetry
SPECIFICATION Spec
INVARIANTS TypeOK FingerprintIsOfKeyInUse KeyIsKept SealsWithPublished
CHECK_DEADLOCK FALSE
