CONSTANTS
    Conn = {c1, c2}
    User = {ann, bob}
    Room = {general, side}
    General = general
    NoConn = NoConn
    NoUser = NoUser
    Slow = {}
    Rejoin = FALSE
SPECIFICATION Spec
INVARIANT ConnectedIsOnline
CHECK_DEADLOCK FALSE
