CONSTANTS
    RoomMsg = {room1}
    DM = {dm1}
    Status = {delivered, read}
    NoStatus = NoStatus
    MaxMemory = 4
    MaxID = 4
    Graceful = FALSE
    MaxCrashes = 1
    MaxErrors = 0
SPECIFICATION Spec
INVARIANT RewriteIsAtomic
CHECK_DEADLOCK FALSE
