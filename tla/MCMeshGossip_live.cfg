CONSTANTS
    a = a
    b = b
    c = c
    d = d
    e = e
    Node = {a, b, c, d, e}
    Link <- LassoLink
    Ends <- LassoEnds
    Chat = {m}
    Signal = {}
    Announce = {}
    MaxTTL = 2
    Cap = 2
    MaxFails = 2
    NoNode = NoNode
    NoCopy = NoCopy
SPECIFICATION FairSpec
INVARIANT WithinTTL
PROPERTIES GossipEnds ChatsArrive
CHECK_DEADLOCK FALSE
