CONSTANTS
    Conn = {c1, c2}
    User = {ann, bob}
    Room = {general, side}
    General = general
    NoConn = NoConn
    NoUser = NoUser
    Slow = {}
    Rejoin = FALSE
SPECIFICATION FairSpec
PROPERTIES DeadSocketFreesName KickedIsTornDown
CHECK_DEADLOCK FALSE
