----------------------------- MODULE HubProofs -----------------------------
(***************************************************************************)
(* Theorems about Hub, for any sets of connections, names and rooms.       *)
(***************************************************************************)
EXTENDS Hub, TLAPS

USE ConnAssumption, UserAssumption, RoomAssumption

(***************************************************************************)
(* Type correctness, with or without clients that join twice.              *)
(***************************************************************************)

\* What a list leaves behind, dropped or not.
LEMMA ListTypes ==
    ASSUME TypeOK, NEW cl, NEW own, NEW nm, NEW cls, UserListSent(cl, own, nm, cls)
    PROVE  roster' \in [Conn -> SUBSET User] /\ missed' \subseteq Conn
BY SlowAssumption DEF TypeOK, UserListSent

\* Every action keeps the types of the hub's maps: the base of what follows.
LEMMA TypeStep == TypeOK /\ [Next]_vars => TypeOK'
<1> SUFFICES ASSUME TypeOK, [Next]_vars PROVE TypeOK'
  OBVIOUS
<1> USE DEF TypeOK, Phase, Select, hubVars, clientVars
<1>1. ASSUME NEW c \in Conn, Accept(c) PROVE TypeOK'
  BY <1>1 DEF Accept
<1>2. ASSUME NEW c \in Conn, DropSocket(c) PROVE TypeOK'
  BY <1>2 DEF DropSocket
<1>3. ASSUME NEW c \in Conn, WritePumpStops(c) PROVE TypeOK'
  BY <1>3 DEF WritePumpStops
<1>4. ASSUME NEW c \in Conn, ReadPumpStops(c) PROVE TypeOK'
  BY <1>4 DEF ReadPumpStops
<1>5. ASSUME NEW c \in Conn, Leave(c) PROVE TypeOK'
  BY <1>5 DEF Leave
<1>6. ASSUME NEW c \in Conn, RunRegister(c) PROVE TypeOK'
  BY <1>6 DEF RunRegister
<1>7. ASSUME NEW c \in Conn, RunUnregister(c) PROVE TypeOK'
  <2>1. CASE c \in clients /\ IsCurrentOwner(c)
    <3>1. username[c] \in User
      BY <2>1 DEF IsCurrentOwner
    <3>2. /\ owner' = [owner EXCEPT ![username[c]] = NoConn]
          /\ announced' \subseteq User
      BY <1>7, <2>1, <3>1 DEF RunUnregister, ReleaseName, LeaveAnnounced
    <3>3. roster' \in [Conn -> SUBSET User] /\ missed' \subseteq Conn
      BY <1>7, <2>1, ListTypes DEF RunUnregister, ReleaseName
    <3> QED
      BY <1>7, <2>1, <3>1, <3>2, <3>3 DEF RunUnregister
  <2>2. CASE c \in clients /\ ~IsCurrentOwner(c)
    BY <1>7, <2>2 DEF RunUnregister, KeepNames
  <2>3. CASE c \notin clients
    BY <1>7, <2>3 DEF RunUnregister, KeepNames
  <2> QED
    BY <2>1, <2>2, <2>3
<1>8. ASSUME NEW c \in Conn, NEW u \in User, HandleJoin(c, u) PROVE TypeOK'
  <2>1. Kicked(u) \subseteq Conn
    BY DEF Kicked
  <2>2. roster' \in [Conn -> SUBSET User] /\ missed' \subseteq Conn
    BY <1>8, ListTypes DEF HandleJoin
  <2>3. announced' \subseteq User
    BY <1>8 DEF HandleJoin
  <2> QED
    BY <1>8, <2>1, <2>2, <2>3 DEF HandleJoin
<1>9. ASSUME NEW c \in Conn, NEW r \in Room, HandleCreateRoom(c, r) PROVE TypeOK'
  BY <1>9 DEF HandleCreateRoom, roomless
<1>10. ASSUME NEW c \in Conn, NEW r \in Room, HandleJoinRoom(c, r) PROVE TypeOK'
  BY <1>10 DEF HandleJoinRoom, roomless
<1>11. ASSUME NEW c \in Conn, NEW r \in Room, HandleLeaveRoom(c, r) PROVE TypeOK'
  BY <1>11 DEF HandleLeaveRoom, roomless
<1>12. ASSUME NEW u \in User, CooldownExpires(u) PROVE TypeOK'
  BY <1>12 DEF CooldownExpires
<1>13. CASE UNCHANGED vars
  BY <1>13 DEF vars
<1> QED
  BY <1>1, <1>2, <1>3, <1>4, <1>5, <1>6, <1>7, <1>8, <1>9, <1>10, <1>11,
     <1>12, <1>13 DEF Next, Pump, Run, Handle

\* The hub's maps keep their types in every behaviour of the server.
THEOREM TypeCorrect == Spec => []TypeOK
<1>1. Init => TypeOK
  BY DEF Init, TypeOK, Phase, Select
<1> QED
  BY <1>1, TypeStep, PTL DEF Spec

(***************************************************************************)
(* Names.  The argument: a connection enters UserClients while its request *)
(* loop is running, so Run has it or will have it in Clients; it leaves    *)
(* UserClients together with Clients, by a kick or by its own Unregister;  *)
(* and since it took one name only, the comparison of pointers in Run      *)
(* finds the one entry that can point to it.                               *)
(***************************************************************************)

\* The registered or kicked connection differs from one that has no name yet.
LEMMA KickedHasName ==
    ASSUME TypeOK, OwnerIsOpen, NEW u \in User, NEW c \in Kicked(u)
    PROVE  c \in Conn /\ username[c] = u /\ owner[u] = c
BY DEF Kicked, TypeOK, OwnerIsOpen

\* One step of the hub keeps the inductive invariant of names.
LEMMA NameStep ==
    ASSUME Rejoin = FALSE, NameInv, [Next]_vars
    PROVE  NameInv'
<1> USE DEF NameInv
<1>0. TypeOK'
  BY TypeStep
<1> USE DEF TypeOK, Select, hubVars, clientVars, GeneralExists, ClosedHasJoined, RunIsTracked,
            ClientsAreTracked, PumpsAreTracked, OwnersAreTracked, OwnerIsOpen, OwnerInGeneral,
            AnnouncedIsHeld, Online
<1>1. ASSUME NEW c \in Conn, Accept(c) PROVE NameInv'
  BY <1>0, <1>1 DEF Accept
<1>2. ASSUME NEW c \in Conn, DropSocket(c) PROVE NameInv'
  BY <1>0, <1>2 DEF DropSocket
<1>3. ASSUME NEW c \in Conn, WritePumpStops(c) PROVE NameInv'
  BY <1>0, <1>3 DEF WritePumpStops
<1>4. ASSUME NEW c \in Conn, ReadPumpStops(c) PROVE NameInv'
  BY <1>0, <1>4 DEF ReadPumpStops
<1>5. ASSUME NEW c \in Conn, Leave(c) PROVE NameInv'
  BY <1>0, <1>5 DEF Leave
<1>6. ASSUME NEW c \in Conn, RunRegister(c) PROVE NameInv'
  BY <1>0, <1>6 DEF RunRegister
<1>7. ASSUME NEW c \in Conn, RunUnregister(c) PROVE NameInv'
  <2>1. CASE c \in clients /\ IsCurrentOwner(c)
    <3> DEFINE w == username[c]
    <3>1. w \in User /\ owner[w] = c /\ c \in members[General]
      BY <2>1 DEF IsCurrentOwner
    <3>2. /\ owner' = [owner EXCEPT ![w] = NoConn]
          /\ announced' = announced \ {w}
          /\ clients' = clients \ {c} /\ closed' = closed \cup {c}
          /\ members' = [r \in Room |-> members[r] \ {c}]
          /\ hubRun' = Select /\ UNCHANGED <<phase, username>>
      BY <1>7, <2>1, <3>1 DEF RunUnregister, ReleaseName, LeaveAnnounced
    <3>3. \A u \in User \ {w} : owner[u] # c
      BY <3>1
    <3>4. (GeneralExists /\ ClosedHasJoined /\ RunIsTracked /\ ClientsAreTracked /\ PumpsAreTracked)'
      BY <1>7, <3>2 DEF RunUnregister
    <3>5. (OwnersAreTracked /\ OwnerIsOpen /\ OwnerInGeneral)'
      BY <1>7, <3>1, <3>2, <3>3 DEF RunUnregister
    <3>6. AnnouncedIsHeld'
      BY <3>1, <3>2
    <3> QED
      BY <1>0, <3>4, <3>5, <3>6
  <2>2. CASE c \in clients /\ ~IsCurrentOwner(c)
    <3>1. \A u \in User : owner[u] # c
      BY <2>2 DEF IsCurrentOwner
    <3> QED
      BY <1>0, <1>7, <2>2, <3>1 DEF RunUnregister, KeepNames
  <2>3. CASE c \notin clients
    <3>1. \A u \in User : owner[u] # c
      BY <1>7, <2>3 DEF RunUnregister
    <3> QED
      BY <1>0, <1>7, <2>3, <3>1 DEF RunUnregister, KeepNames
  <2> QED
    BY <2>1, <2>2, <2>3
<1>8. ASSUME NEW c \in Conn, NEW u \in User, HandleJoin(c, u) PROVE NameInv'
  <2>1. /\ phase[c] = "reading" /\ username[c] = NoUser /\ c \notin closed
        /\ clients' = clients \ Kicked(u) /\ closed' = closed \cup Kicked(u)
        /\ username' = [username EXCEPT ![c] = u]
        /\ owner' = [owner EXCEPT ![u] = c]
        /\ members'[General] = (members[General] \ Kicked(u)) \cup {c}
        /\ UNCHANGED <<phase, hubRun>>
    BY <1>8 DEF HandleJoin
  <2>2. \A d \in Kicked(u) : d \in Conn /\ d # c /\ username[d] = u /\ owner[u] = d
    BY <2>1, KickedHasName
  <2>3. \A v \in User \ {u} : owner[v] # NoConn => owner[v] \notin Kicked(u)
    BY <2>2
  <2>4. (GeneralExists /\ ClosedHasJoined /\ RunIsTracked /\ ClientsAreTracked /\ PumpsAreTracked)'
    BY <1>8, <2>1, <2>2 DEF HandleJoin
  <2>5. c \in clients' \/ hubRun' = <<"register", c>>
    BY <1>8, <2>1, <2>2
  <2>6. OwnersAreTracked'
    BY <2>1, <2>3, <2>5
  <2>7. OwnerIsOpen' /\ OwnerInGeneral'
    BY <2>1, <2>2, <2>3
  <2>8. AnnouncedIsHeld'
    BY <1>8, <2>1 DEF HandleJoin, IsNewLogin
  <2> QED
    BY <1>0, <2>4, <2>6, <2>7, <2>8
<1>9. ASSUME NEW c \in Conn, NEW r \in Room, HandleCreateRoom(c, r) PROVE NameInv'
  BY <1>0, <1>9 DEF HandleCreateRoom, roomless
<1>10. ASSUME NEW c \in Conn, NEW r \in Room, HandleJoinRoom(c, r) PROVE NameInv'
  BY <1>0, <1>10 DEF HandleJoinRoom, roomless
<1>11. ASSUME NEW c \in Conn, NEW r \in Room, HandleLeaveRoom(c, r) PROVE NameInv'
  BY <1>0, <1>11 DEF HandleLeaveRoom, roomless
<1>12. ASSUME NEW u \in User, CooldownExpires(u) PROVE NameInv'
  BY <1>0, <1>12 DEF CooldownExpires
<1>13. CASE UNCHANGED vars
  BY <1>0, <1>13 DEF vars
<1> QED
  BY <1>1, <1>2, <1>3, <1>4, <1>5, <1>6, <1>7, <1>8, <1>9, <1>10, <1>11,
     <1>12, <1>13 DEF Next, Pump, Run, Handle

\* The inductive invariant holds if no client joins twice on a connection.
THEOREM NamesInvariant ==
    ASSUME Rejoin = FALSE
    PROVE  Spec => []NameInv
<1>1. Init => NameInv
  BY DEF Init, NameInv, TypeOK, Phase, Select, GeneralExists, ClosedHasJoined, RunIsTracked,
         ClientsAreTracked, PumpsAreTracked, OwnersAreTracked, OwnerIsOpen,
         OwnerInGeneral, AnnouncedIsHeld, Online
<1>2. NameInv /\ [Next]_vars => NameInv'
  BY NameStep
<1> QED
  BY <1>1, <1>2, PTL DEF Spec

\* A name never points to a connection whose Send channel is closed, so a
\* message sent to a name is never lost in a dead channel.
THEOREM OwnerIsOpenHolds ==
    ASSUME Rejoin = FALSE
    PROVE  Spec => []OwnerIsOpen
BY NamesInvariant, PTL DEF NameInv

\* Whoever holds a name receives the messages of #general.
THEOREM OwnerInGeneralHolds ==
    ASSUME Rejoin = FALSE
    PROVE  Spec => []OwnerInGeneral
BY NamesInvariant, PTL DEF NameInv

\* A name #general was last told has joined is held: the departure that frees a
\* name is always announced, and a login is announced for free names only.
THEOREM AnnouncedIsHeldHolds ==
    ASSUME Rejoin = FALSE
    PROVE  Spec => []AnnouncedIsHeld
BY NamesInvariant, PTL DEF NameInv

\* If no connection joins under a second name, a connection that was torn down
\* holds no name and is no client, whatever takeovers and kicks came before.
THEOREM NoGhostOwnerHolds ==
    ASSUME Rejoin = FALSE
    PROVE  Spec => []NoGhostOwner
<1>1. NameInv => NoGhostOwner
  <2> SUFFICES ASSUME NameInv, NEW c \in Conn, phase[c] = "gone",
                      hubRun # <<"unregister", c>>
               PROVE  c \notin clients /\ \A u \in User : owner[u] # c
    BY DEF NoGhostOwner
  <2>1. c \notin clients
    BY DEF NameInv, ClientsAreTracked
  <2>2. hubRun # <<"register", c>>
    BY DEF NameInv, RunIsTracked
  <2>3. \A u \in User : owner[u] # c
    BY <2>1, <2>2, ConnAssumption DEF NameInv, OwnersAreTracked
  <2> QED
    BY <2>1, <2>3
<1> QED
  BY <1>1, NamesInvariant, PTL

\* A name is freed by the Unregister of its own holder only: the teardown of a
\* replaced connection cannot take the name from the one that replaced it.
THEOREM NameFreedByItsOwnerHolds == Spec => NameFreedByItsOwner
<1>1. TypeOK /\ [Next]_vars =>
        [\A u \in User : owner[u] # NoConn /\ owner'[u] = NoConn =>
             hubRun = <<"unregister", owner[u]>>]_vars
  <2> SUFFICES ASSUME TypeOK, [Next]_vars, NEW u \in User,
                      owner[u] # NoConn, owner'[u] = NoConn
               PROVE  hubRun = <<"unregister", owner[u]>>
    OBVIOUS
  <2> USE DEF TypeOK, hubVars, clientVars
  <2>1. ASSUME NEW c \in Conn, RunUnregister(c)
        PROVE  hubRun = <<"unregister", owner[u]>>
    BY <2>1 DEF RunUnregister, IsCurrentOwner, ReleaseName, KeepNames
  <2>2. ASSUME NEW c \in Conn, RunRegister(c) PROVE FALSE
    BY <2>2 DEF RunRegister
  <2>3. ASSUME NEW c \in Conn, Pump(c) PROVE FALSE
    BY <2>3 DEF Pump, Accept, DropSocket, WritePumpStops, ReadPumpStops, Leave
  <2>4. ASSUME NEW c \in Conn, NEW v \in User, HandleJoin(c, v) PROVE FALSE
    BY <2>4 DEF HandleJoin
  <2>5. ASSUME NEW c \in Conn, NEW r \in Room,
               HandleCreateRoom(c, r) \/ HandleJoinRoom(c, r) \/ HandleLeaveRoom(c, r)
        PROVE  FALSE
    BY <2>5 DEF HandleCreateRoom, HandleJoinRoom, HandleLeaveRoom, roomless
  <2>6. ASSUME NEW v \in User, CooldownExpires(v) PROVE FALSE
    BY <2>6 DEF CooldownExpires
  <2>7. CASE UNCHANGED vars
    BY <2>7 DEF vars
  <2> QED
    BY <2>1, <2>2, <2>3, <2>4, <2>5, <2>6, <2>7 DEF Next, Run, Handle
<1> QED
  BY <1>1, TypeCorrect, PTL DEF Spec, NameFreedByItsOwner

(***************************************************************************)
(* User lists.                                                             *)
(***************************************************************************)

\* Every step keeps ghosts out of the lists: Run frees a name only when it is
\* not about to add a connection, and sends the new list in the same step.
LEMMA RosterStep ==
    ASSUME TypeOK, RosterInv, [Next]_vars
    PROVE  RosterInv'
<1> USE DEF TypeOK, RosterInv, NewIsNameless, RosterIsTracked, Online, Select, hubVars, clientVars
<1>1. ASSUME NEW c \in Conn, Pump(c) PROVE RosterInv'
  BY <1>1 DEF Pump, Accept, DropSocket, WritePumpStops, ReadPumpStops, Leave
<1>2. ASSUME NEW c \in Conn, RunRegister(c) PROVE RosterInv'
  BY <1>2 DEF RunRegister
<1>3. ASSUME NEW c \in Conn, RunUnregister(c) PROVE RosterInv'
  <2>1. NewIsNameless' /\ \A d \in Conn : hubRun' # <<"register", d>>
    BY <1>3 DEF RunUnregister
  <2>2. CASE c \in clients /\ IsCurrentOwner(c)
    <3>1. /\ UserListSent(clients', owner', username, closed')
          /\ owner' \in [User -> Conn \cup {NoConn}]
          /\ UNCHANGED username
      BY <1>3, <2>2 DEF RunUnregister, ReleaseName, IsCurrentOwner
    <3>2. clients' \subseteq Conn
      BY <1>3, <2>2 DEF RunUnregister
    <3>3. ASSUME NEW d \in clients' \ missed', username'[d] # NoUser, d \notin closed'
          PROVE  roster'[d] \subseteq Online'
      BY <3>1, <3>2, <3>3 DEF UserListSent
    <3> QED
      BY <2>1, <3>3
  <2>3. CASE ~(c \in clients /\ IsCurrentOwner(c))
    BY <1>3, <2>1, <2>3 DEF RunUnregister, KeepNames
  <2> QED
    BY <2>2, <2>3
<1>4. ASSUME NEW c \in Conn, NEW u \in User, HandleJoin(c, u) PROVE RosterInv'
  <2>1. /\ owner' = [owner EXCEPT ![u] = c]
        /\ username' = [username EXCEPT ![c] = u]
        /\ clients' \subseteq clients /\ closed \subseteq closed'
        /\ UserListSent(clients' \cup {c}, owner', username', closed')
        /\ UNCHANGED hubRun
    BY <1>4 DEF HandleJoin
  <2>2. Online \subseteq Online'
    BY <2>1
  <2>3. ASSUME NEW d \in (clients' \cup {c}) \ missed', username'[d] # NoUser, d \notin closed'
        PROVE  roster'[d] \subseteq Online'
    BY <2>1, <2>3 DEF UserListSent
  <2>4. ASSUME NEW d \in Conn \ missed', d \notin clients' \cup {c}, hubRun' = <<"register", d>>,
               username'[d] # NoUser, d \notin closed'
        PROVE  roster'[d] \subseteq Online'
    <3>1. /\ roster'[d] = roster[d] /\ username'[d] = username[d]
          /\ d \notin closed /\ d \notin missed
      BY <2>1, <2>4 DEF UserListSent
    <3> QED
      BY <2>1, <2>2, <2>4, <3>1
  <2>5. NewIsNameless'
    BY <1>4 DEF HandleJoin
  <2> QED
    BY <2>3, <2>4, <2>5
<1>5. ASSUME NEW c \in Conn, NEW r \in Room,
             HandleCreateRoom(c, r) \/ HandleJoinRoom(c, r) \/ HandleLeaveRoom(c, r)
      PROVE  RosterInv'
  BY <1>5 DEF HandleCreateRoom, HandleJoinRoom, HandleLeaveRoom, roomless
<1>6. ASSUME NEW u \in User, CooldownExpires(u) PROVE RosterInv'
  BY <1>6 DEF CooldownExpires
<1>7. CASE UNCHANGED vars
  BY <1>7 DEF vars
<1> QED
  BY <1>1, <1>2, <1>3, <1>4, <1>5, <1>6, <1>7 DEF Next, Run, Handle

\* No user list in a browser names somebody who is gone, unless the last list
\* meant for that browser was dropped at its full Send channel.
THEOREM RosterHasNoGhostsHolds == Spec => []RosterHasNoGhosts
<1>1. Init => RosterInv
  BY DEF Init, RosterInv, NewIsNameless, RosterIsTracked, Select
<1>2. TypeOK /\ RosterInv => RosterHasNoGhosts
  BY DEF RosterInv, RosterIsTracked, RosterHasNoGhosts, TypeOK
<1>3. TypeOK /\ RosterInv /\ [Next]_vars => RosterInv'
  BY RosterStep
<1> QED
  BY <1>1, <1>2, <1>3, TypeCorrect, PTL DEF Spec

\* The invariant the runs check: names and user lists together.
THEOREM HubInvariant ==
    ASSUME Rejoin = FALSE
    PROVE  Spec => []IInv
<1>1. Init => RosterInv
  BY DEF Init, RosterInv, NewIsNameless, RosterIsTracked, Select
<1>2. TypeOK /\ RosterInv /\ [Next]_vars => RosterInv'
  BY RosterStep
<1>3. Spec => []RosterInv
  BY <1>1, <1>2, TypeCorrect, PTL DEF Spec
<1>4. NameInv /\ RosterInv => IInv
  BY DEF IInv
<1> QED
  BY <1>3, <1>4, NamesInvariant, PTL

(***************************************************************************)
(* Rooms.                                                                  *)
(***************************************************************************)

\* A room never sends to a connection that may not post in it: the hub's
\* membership and the connection's own are changed together, except that a
\* kick shrinks the hub's.
THEOREM MembersMayPostHolds == Spec => []MembersMayPost
<1>1. Init => MembersMayPost
  BY DEF Init, MembersMayPost
<1>2. TypeOK /\ MembersMayPost /\ [Next]_vars => MembersMayPost'
  <2> SUFFICES ASSUME TypeOK, MembersMayPost, [Next]_vars PROVE MembersMayPost'
    OBVIOUS
  <2> USE DEF TypeOK, MembersMayPost, hubVars, clientVars, roomless
  <2>1. ASSUME NEW c \in Conn, Pump(c) PROVE MembersMayPost'
    BY <2>1 DEF Pump, Accept, DropSocket, WritePumpStops, ReadPumpStops, Leave
  <2>2. ASSUME NEW c \in Conn, Run(c) PROVE MembersMayPost'
    BY <2>2 DEF Run, RunRegister, RunUnregister
  <2>3. ASSUME NEW c \in Conn, NEW u \in User, HandleJoin(c, u) PROVE MembersMayPost'
    BY <2>3 DEF HandleJoin
  <2>4. ASSUME NEW c \in Conn, NEW r \in Room, HandleCreateRoom(c, r)
        PROVE  MembersMayPost'
    BY <2>4 DEF HandleCreateRoom
  <2>5. ASSUME NEW c \in Conn, NEW r \in Room, HandleJoinRoom(c, r)
        PROVE  MembersMayPost'
    BY <2>5 DEF HandleJoinRoom
  <2>6. ASSUME NEW c \in Conn, NEW r \in Room, HandleLeaveRoom(c, r)
        PROVE  MembersMayPost'
    BY <2>6 DEF HandleLeaveRoom
  <2>7. ASSUME NEW u \in User, CooldownExpires(u) PROVE MembersMayPost'
    BY <2>7 DEF CooldownExpires
  <2>8. CASE UNCHANGED vars
    BY <2>8 DEF vars
  <2> QED
    BY <2>1, <2>2, <2>3, <2>4, <2>5, <2>6, <2>7, <2>8 DEF Next, Handle
<1> QED
  BY <1>1, <1>2, TypeCorrect, PTL DEF Spec

(***************************************************************************)
(* Refinement.                                                             *)
(***************************************************************************)

\* The hub implements the registry of names: joins claim, the end of a request
\* loop departs, Run's Unregister case settles (also that of a connection that
\* was kicked before), and everything else (registration, rooms, cooldowns,
\* sockets) stutters.
THEOREM HubImplementsRegistry ==
    ASSUME Rejoin = FALSE
    PROVE  Spec => ImplementsRegistry
<1> DEFINE claimed == {c \in Conn : username[c] # NoUser}
           settled == {c \in Departed : hubRun # <<"unregister", c>>}
<1>1. Init => Registry!Init
  BY DEF Init, Registry!Init, Departed
<1>2. NameInv /\ [Next]_vars => [Registry!Next]_(Registry!vars)
  <2> SUFFICES ASSUME NameInv, [Next]_vars
               PROVE  Registry!Next \/ UNCHANGED Registry!vars
    OBVIOUS
  <2>0. TypeOK
    BY DEF NameInv
  <2> USE <2>0 DEF TypeOK, Select, hubVars, clientVars, roomless, Departed, Registry!vars
  <2>1. ASSUME NEW c \in Conn, Accept(c) \/ DropSocket(c) \/ WritePumpStops(c) \/ ReadPumpStops(c)
        PROVE  UNCHANGED Registry!vars
    <3>1. Departed' = Departed /\ settled' = settled
      BY <2>1 DEF Accept, DropSocket, WritePumpStops, ReadPumpStops
    <3> QED
      BY <2>1, <3>1 DEF Accept, DropSocket, WritePumpStops, ReadPumpStops
  <2>2. ASSUME NEW c \in Conn, Leave(c) PROVE Registry!Next
    <3>1. c \notin Departed /\ Departed' = Departed \cup {c} /\ settled' = settled
      BY <2>2 DEF Leave
    <3>2. Registry!Depart(c)
      BY <2>2, <3>1 DEF Leave, Registry!Depart
    <3> QED
      BY <3>2 DEF Registry!Next
  <2>3. ASSUME NEW c \in Conn, RunRegister(c) PROVE UNCHANGED Registry!vars
    <3>1. Departed' = Departed /\ settled' = settled
      BY <2>3 DEF RunRegister
    <3> QED
      BY <2>3, <3>1 DEF RunRegister
  <2>4. ASSUME NEW c \in Conn, RunUnregister(c) PROVE Registry!Next
    <3>1. /\ hubRun = <<"unregister", c>> /\ hubRun' = Select
          /\ UNCHANGED <<phase, username>>
      BY <2>4 DEF RunUnregister
    <3>2. c \in Departed
      BY <3>1 DEF NameInv, RunIsTracked
    <3>3. c \notin settled /\ settled' = settled \cup {c}
      BY <3>1, <3>2
    <3>4. closed' = closed \cup {c}
      BY <2>4, <3>1 DEF RunUnregister, NameInv, PumpsAreTracked
    <3>5. owner' = [u \in User |-> IF owner[u] = c THEN NoConn ELSE owner[u]]
      <4>1. CASE c \in clients /\ IsCurrentOwner(c)
        <5>1. owner' = [owner EXCEPT ![username[c]] = NoConn]
          BY <2>4, <4>1 DEF RunUnregister, ReleaseName
        <5>2. \A u \in User : owner[u] = c => u = username[c]
          BY DEF NameInv, OwnerIsOpen
        <5> QED
          BY <4>1, <5>1, <5>2 DEF IsCurrentOwner
      <4>2. CASE c \in clients /\ ~IsCurrentOwner(c)
        <5>1. \A u \in User : owner[u] # c
          BY <4>2 DEF NameInv, OwnerIsOpen, IsCurrentOwner
        <5> QED
          BY <2>4, <4>2, <5>1 DEF RunUnregister, KeepNames
      <4>3. CASE c \notin clients
        <5>1. \A u \in User : owner[u] # c
          BY <3>1, <4>3 DEF NameInv, OwnersAreTracked
        <5> QED
          BY <2>4, <4>3, <5>1 DEF RunUnregister, KeepNames
      <4> QED
        BY <4>1, <4>2, <4>3
    <3>6. Registry!Settle(c)
      BY <3>1, <3>2, <3>3, <3>4, <3>5 DEF Registry!Settle
    <3> QED
      BY <3>6 DEF Registry!Next
  <2>5. ASSUME NEW c \in Conn, NEW u \in User, HandleJoin(c, u) PROVE Registry!Next
    <3>1. /\ phase[c] = "reading" /\ username[c] = NoUser
          /\ username' = [username EXCEPT ![c] = u]
          /\ owner' = [owner EXCEPT ![u] = c]
          /\ closed' = closed \cup Kicked(u)
          /\ UNCHANGED <<phase, hubRun>>
      BY <2>5 DEF HandleJoin
    <3>2. c \notin claimed /\ claimed' = claimed \cup {c}
      BY <3>1
    <3>3. c \notin Departed /\ c \notin closed
      BY <3>1 DEF NameInv, ClosedHasJoined
    <3>4. closed' \in {closed, closed \cup ({owner[u]} \ {NoConn})}
      BY <3>1 DEF Kicked
    <3>5. Departed' = Departed /\ settled' = settled
      BY <3>1
    <3>6. Registry!Claim(c, u)
      BY <3>1, <3>2, <3>3, <3>4, <3>5 DEF Registry!Claim
    <3> QED
      BY <3>6 DEF Registry!Next
  <2>6. ASSUME NEW c \in Conn, NEW r \in Room,
               HandleCreateRoom(c, r) \/ HandleJoinRoom(c, r) \/ HandleLeaveRoom(c, r)
        PROVE  UNCHANGED Registry!vars
    BY <2>6 DEF HandleCreateRoom, HandleJoinRoom, HandleLeaveRoom
  <2>7. ASSUME NEW u \in User, CooldownExpires(u) PROVE UNCHANGED Registry!vars
    BY <2>7 DEF CooldownExpires
  <2>8. CASE UNCHANGED vars
    BY <2>8 DEF vars
  <2> QED
    BY <2>1, <2>2, <2>3, <2>4, <2>5, <2>6, <2>7, <2>8 DEF Next, Pump, Run, Handle
<1> QED
  BY <1>1, <1>2, NamesInvariant, PTL DEF Spec, ImplementsRegistry, Registry!Spec
=============================================================================
