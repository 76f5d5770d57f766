CONSTANTS
    ann = ann
    bob = bob
    cat = cat
    s1 = s1
    s2 = s2
    d1 = d1
    d2 = d2
    User = {ann, bob, cat}
    Server = {s1, s2}
    Home <- MCHome
    DM = {d1, d2}
    From <- MCFrom
    To <- MCTo
    Direct <- MCDirect
    NoUser = NoUser
    Cap = 2
    MaxSwitches = 4
SPECIFICATION Spec
INVARIANTS TypeOK ReadIsTrue DeliveredIsTrue NoneStuck
CHECK_DEADLOCK FALSE
