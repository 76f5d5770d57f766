CONSTANTS
    User = {ann, bob}
    EnforcesUsages = TRUE
    MaxPairs = 2
    MaxOpens = 4
SPECIFICATION Spec
INVARIANT MessagesAreEncrypted
CHECK_DEADLOCK FALSE
