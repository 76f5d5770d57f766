CONSTANTS
    a = a
    b = b
    c = c
    d = d
    e = e
    Node = {a, b, c}
    Link <- DoubleLink
    Ends <- DoubleEnds
    Chat = {m}
    Signal = {}
    Announce = {}
    MaxTTL = 3
    Cap = 2
    MaxFails = 0
    NoNode = NoNode
    NoCopy = NoCopy
SPECIFICATION Spec
INVARIANT NotReturned
CHECK_DEADLOCK FALSE
