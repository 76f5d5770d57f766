CONSTANTS
    RoomMsg = {room1}
    DM = {dm1}
    Status = {delivered, read}
    NoStatus = NoStatus
    MaxMemory = 2
    MaxID = 4
    Graceful = TRUE
    MaxCrashes = 1
    MaxErrors = 1
SPECIFICATION Spec
INVARIANTS TypeOK IdsIncrease IdsAgree MemoryOnDisk RewriteIsPrefix
CHECK_DEADLOCK FALSE
