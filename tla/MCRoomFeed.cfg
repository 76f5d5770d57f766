CONSTANTS
    b1 = b1
    b2 = b2
    m1 = m1
    p1 = p1
    p2 = p2
    p3 = p3
    Browser = {b1, b2}
    Peer = {m1}
    Post = {p1, p2, p3}
    Author <- LocalTwice
    NoView = NoView
    Limit = 2
    Cap = 2
    MaxRequests <- Joins
SPECIFICATION Spec
INVARIANTS TypeOK NoGap AuthorOrder
CHECK_DEADLOCK FALSE
