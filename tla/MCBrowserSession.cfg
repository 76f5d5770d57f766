\* Two logins of a page, one of which may be under a name the hub refuses.
CONSTANTS
    Name = {ann, bad}
    ValidName = {ann}
    NoName = NoName
    Room = {general, den}
    General = general
    NoView = NoView
    MaxReconnects = 2
    MaxSockets = 4
    MaxSubmits = 2
    MaxLosses = 1
    MaxEvents = 2
SPECIFICATION FairSpec
INVARIANTS TypeOK NeverStranded ConnectionsConserved RoomShownIsJoined
PROPERTIES JoinsAgain
CHECK_DEADLOCK FALSE
