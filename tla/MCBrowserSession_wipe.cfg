\* One login, and a network that keeps connections.
CONSTANTS
    Name = {ann}
    ValidName = {ann}
    NoName = NoName
    Room = {general, den}
    General = general
    NoView = NoView
    MaxReconnects = 2
    MaxSockets = 4
    MaxSubmits = 1
    MaxLosses = 0
    MaxEvents = 2
SPECIFICATION Spec
INVARIANT WipeIsFinal
CHECK_DEADLOCK FALSE
