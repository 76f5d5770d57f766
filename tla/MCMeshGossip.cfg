CONSTANTS
    a = a
    b = b
    c = c
    d = d
    e = e
    Node = {a, b, c}
    Link <- DoubleLink
    Ends <- DoubleEnds
    Chat = {m}
    Signal = {}
    Announce = {n}
    MaxTTL = 3
    Cap = 1
    MaxFails = 2
    NoNode = NoNode
    NoCopy = NoCopy
SPECIFICATION Spec
INVARIANTS TypeOK DeliveredOnce
CHECK_DEADLOCK FALSE
