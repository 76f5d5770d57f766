\* Three connections for two names: takeover of a takeover.
CONSTANTS
    Conn = {c1, c2, c3}
    User = {ann, bob}
    Room = {general, side}
    General = general
    NoConn = NoConn
    NoUser = NoUser
    Slow = {c1, c2, c3}
    Rejoin = FALSE
SPECIFICATION Spec
SYMMETRY Symmetry
INVARIANTS TypeOK OwnerIsOpen RosterHasNoGhosts MembersMayPost AnnouncedIsHeld
PROPERTIES NameFreedByItsOwner ImplementsRegistry
CHECK_DEADLOCK FALSE
