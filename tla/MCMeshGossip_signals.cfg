CONSTANTS
    a = a
    b = b
    c = c
    d = d
    e = e
    Node = {a, b, c, d}
    Link <- ChainLink
    Ends <- ChainEnds
    Chat = {}
    Signal = {s}
    Announce = {}
    MaxTTL = 3
    Cap = 2
    MaxFails = 0
    NoNode = NoNode
    NoCopy = NoCopy
SPECIFICATION Spec
INVARIANT SignalsReached
CHECK_DEADLOCK FALSE
