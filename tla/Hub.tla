-------------------------------- MODULE Hub --------------------------------
(***************************************************************************)
(* Sessions, names and rooms of one server: internal/hub/hub.go together   *)
(* with the two pumps of internal/hub/client.go and the accept path of     *)
(* internal/server/server.go.                                              *)
(*                                                                         *)
(* Goroutines.  Hub.Run is one goroutine: it receives from Register or     *)
(* Unregister (both unbuffered) and only THEN takes h.mu, so another       *)
(* goroutine can hold the lock between the receive and the map update;     *)
(* the variable hubRun holds what Run has received and not yet applied.    *)
(* Every connection has a ReadPump, which runs the handlers one after the  *)
(* other, and a WritePump.  A handler changes the hub's maps inside one    *)
(* critical section of h.mu, so a handler is one action.                   *)
(*                                                                         *)
(* Abstracted: contents of messages, public keys, logging, the per-name    *)
(* rate limiter (a throttled message is a message that was never sent) and *)
(* time (a cooldown entry is present until CooldownExpires).  Of the       *)
(* messages a handler sends only the user lists and the announcements to   *)
(* #general are kept; SendJSON drops one whose receiver's Send channel is  *)
(* full, and the connections a list does not reach are chosen freely.      *)
(***************************************************************************)
EXTENDS Integers

CONSTANTS
    Conn,      \* WebSocket connections (*Client), each used once
    User,      \* valid, non-empty user names
    Room,      \* room names
    General,   \* the room "general"
    NoConn,    \* no connection: a name that is not a key of UserClients
    NoUser,    \* the empty Username of a connection that has not joined
    Slow,      \* connections whose Send channel (256 messages) may be full
    Rejoin     \* TRUE: a client may send "join" again on one connection.
               \* The browser client sends it once per socket (app.js onopen),
               \* except on a double submit of the login form.

ASSUME ConnAssumption == NoConn \notin Conn
ASSUME UserAssumption == NoUser \notin User
ASSUME RoomAssumption == General \in Room
ASSUME SlowAssumption == Slow \subseteq Conn
ASSUME RejoinAssumption == Rejoin \in BOOLEAN

VARIABLES
    phase,     \* phase[c]: how far the goroutines of connection c are
    alive,     \* connections whose ReadMessage does not fail yet
    closed,    \* connections whose Send channel is closed (Client.closed)
    username,  \* Client.Username
    joined,    \* Client.Rooms
    clients,   \* Hub.Clients
    owner,     \* Hub.UserClients
    rooms,     \* the keys of Hub.Rooms
    members,   \* the values of Hub.Rooms
    cooldown,  \* names with an entry of joinCooldown younger than 5 seconds
    hubRun,    \* what Hub.Run has received from a channel and not yet applied
    roster,    \* roster[c]: the last user list that reached connection c
    missed,    \* history: connections whose last user list was dropped
    announced  \* history: names #general was last told user_joined about

vars == <<phase, alive, closed, username, joined, clients, owner, rooms,
          members, cooldown, hubRun, roster, missed, announced>>

clientVars == <<phase, alive>>
hubVars    == <<closed, username, joined, clients, owner, rooms, members,
                cooldown, roster, missed, announced>>

Phase  == {"new", "reading", "leaving", "gone"}
Select == <<"select", NoConn>>    \* Run is blocked in its select

\* getUserListLocked, the local part
Online == {u \in User : owner[u] # NoConn}

\* A connection that still reads requests and has a name
Serving(c) == phase[c] = "reading" /\ username[c] # NoUser

\* The values of the variables.
TypeOK ==
    /\ phase \in [Conn -> Phase]
    /\ alive \subseteq Conn
    /\ closed \subseteq Conn
    /\ username \in [Conn -> User \cup {NoUser}]
    /\ joined \in [Conn -> SUBSET Room]
    /\ clients \subseteq Conn
    /\ owner \in [User -> Conn \cup {NoConn}]
    /\ rooms \subseteq Room
    /\ members \in [Room -> SUBSET Conn]
    /\ cooldown \subseteq User
    /\ hubRun \in ({"register", "unregister"} \X Conn) \cup {Select}
    /\ roster \in [Conn -> SUBSET User]
    /\ missed \subseteq Conn
    /\ announced \subseteq User

Init ==
    /\ phase = [c \in Conn |-> "new"]
    /\ alive = Conn
    /\ closed = {}
    /\ username = [c \in Conn |-> NoUser]
    /\ joined = [c \in Conn |-> {}]
    /\ clients = {}
    /\ owner = [u \in User |-> NoConn]
    /\ rooms = {General}
    /\ members = [r \in Room |-> {}]
    /\ cooldown = {}
    /\ hubRun = Select
    /\ roster = [c \in Conn |-> {}]
    /\ missed = {}
    /\ announced = {}

(***************************************************************************)
(* handleWebSocket and the pumps                                           *)
(***************************************************************************)

\* Register <- client meets Run's receive; then both pumps are started.
Accept(c) ==
    /\ phase[c] = "new"
    /\ hubRun = Select
    /\ hubRun' = <<"register", c>>
    /\ phase' = [phase EXCEPT ![c] = "reading"]
    /\ UNCHANGED <<alive, hubVars>>

\* The socket fails: the tab is closed, the network drops, the pong is late.
DropSocket(c) ==
    /\ phase[c] \in {"reading", "leaving"}
    /\ c \in alive
    /\ alive' = alive \ {c}
    /\ UNCHANGED <<phase, hubRun, hubVars>>

\* Mutant: WritePump leaves the socket to ReadPump.
WritePumpWaits(c) ==
    /\ phase[c] = "leaving"
    /\ c \in closed
    /\ c \in alive
    /\ alive' = alive \ {c}
    /\ UNCHANGED <<phase, hubRun, hubVars>>

\* WritePump finds Send closed, sends a close frame and closes the socket.
WritePumpStops(c) ==
    /\ phase[c] # "new"
    /\ c \in closed
    /\ c \in alive
    /\ alive' = alive \ {c}
    /\ UNCHANGED <<phase, hubRun, hubVars>>

\* ReadMessage fails and the deferred call waits to send on Unregister.
\* Until then handlers of requests that were already received may run.
ReadPumpStops(c) ==
    /\ phase[c] = "reading"
    /\ c \notin alive
    /\ phase' = [phase EXCEPT ![c] = "leaving"]
    /\ UNCHANGED <<alive, hubRun, hubVars>>

\* Unregister <- client meets Run's receive.
Leave(c) ==
    /\ phase[c] = "leaving"
    /\ hubRun = Select
    /\ hubRun' = <<"unregister", c>>
    /\ phase' = [phase EXCEPT ![c] = "gone"]
    /\ UNCHANGED <<alive, hubVars>>

(***************************************************************************)
(* Hub.Run: the critical sections of the two cases of the select           *)
(***************************************************************************)

\* Mutant: the list names whoever has a Username in Clients.
UserListOfClients(cl, own, nm, cls) ==
    \E full \in SUBSET {d \in (cl \ cls) \cap Slow : nm[d] # NoUser} :
        LET reached == {d \in cl \ (cls \cup full) : nm[d] # NoUser}
        IN  /\ roster' = [d \in Conn |-> IF d \in reached THEN {nm[e] : e \in cl}
                                         ELSE roster[d]]
            /\ missed' = (missed \ reached) \cup full

\* broadcastUserListLocked with Clients = cl, UserClients = own, Username = nm,
\* and cls the closed ones: the names in own are sent to every named open
\* client; SendJSON drops the list of those whose Send channel is full.
UserListSent(cl, own, nm, cls) ==
    \E full \in SUBSET {d \in (cl \ cls) \cap Slow : nm[d] # NoUser} :
        LET reached == {d \in cl \ (cls \cup full) : nm[d] # NoUser}
        IN  /\ roster' = [d \in Conn |-> IF d \in reached
                                         THEN {u \in User : own[u] # NoConn}
                                         ELSE roster[d]]
            /\ missed' = (missed \ reached) \cup full

RunRegister(c) ==
    /\ hubRun = <<"register", c>>
    /\ clients' = clients \cup {c}
    /\ hubRun' = Select
    /\ UNCHANGED <<clientVars, closed, username, joined, owner, rooms,
                   members, cooldown, roster, missed, announced>>

\* Mutants: the connection is compared by name only; a name that joined lately
\* is never taken for a departure.
IsOwnerByName(c) == username[c] # NoUser /\ owner[username[c]] # NoConn
IsSettledOwner(c) ==
    username[c] # NoUser /\ owner[username[c]] = c /\ username[c] \notin cooldown

IsCurrentOwner(c) == username[c] # NoUser /\ owner[username[c]] = c

\* broadcastToRoomLocked(room, user_left): #general is told only if the
\* connection is a member when its rooms are walked.
LeaveAnnounced(c) ==
    announced' = IF c \in members[General] THEN announced \ {username[c]}
                                           ELSE announced

\* Mutant: the entry of UserClients is not deleted.
ReleaseNothing(c) ==
    /\ LeaveAnnounced(c)
    /\ UserListSent(clients', owner, username, closed')
    /\ UNCHANGED owner

\* Mutant: the list is sent before the entry is deleted.
ReleaseNameLate(c) ==
    /\ owner' = [owner EXCEPT ![username[c]] = NoConn]
    /\ LeaveAnnounced(c)
    /\ UserListSent(clients', owner, username, closed')

\* Mutant: a departure in the cooldown is as silent as a join in it.
ReleaseNameQuietly(c) ==
    /\ owner' = [owner EXCEPT ![username[c]] = NoConn]
    /\ IF username[c] \in cooldown THEN UNCHANGED announced ELSE LeaveAnnounced(c)
    /\ UserListSent(clients', owner', username, closed')

\* The owner's name is freed and user_left goes to the rooms it was in.
ReleaseName(c) ==
    /\ owner' = [owner EXCEPT ![username[c]] = NoConn]
    /\ LeaveAnnounced(c)
    /\ UserListSent(clients', owner', username, closed')

\* A connection that lost its name before goes silently.
KeepNames == UNCHANGED <<owner, announced, roster, missed>>

RunUnregister(c) ==
    /\ hubRun = <<"unregister", c>>
    /\ hubRun' = Select
    /\ \/ /\ c \in clients
          /\ clients' = clients \ {c}
          /\ members' = [r \in Room |-> members[r] \ {c}]
          /\ closed' = closed \cup {c}
          /\ IF IsCurrentOwner(c) THEN ReleaseName(c) ELSE KeepNames
       \/ /\ c \notin clients
          /\ UNCHANGED <<clients, members, closed>>
          /\ KeepNames
    /\ UNCHANGED <<clientVars, username, joined, rooms, cooldown>>

(***************************************************************************)
(* The handlers, run by the connection's ReadPump                          *)
(***************************************************************************)

\* handleJoin: the connection whose name is taken over, unless the name
\* joined less than five seconds ago.
Kicked(u) == IF u \notin cooldown /\ owner[u] # NoConn THEN {owner[u]} ELSE {}

\* Mutant: a name that is taken counts as a new login.
IsNotLately(u) == u \notin cooldown

\* user_joined is sent only for a name that neither joined lately nor is taken.
IsNewLogin(u) == u \notin cooldown /\ owner[u] = NoConn

\* Mutant: a name that joined lately keeps its first connection.
HandleJoinKeepsOwner(c, u) ==
    /\ phase[c] = "reading"
    /\ Rejoin \/ username[c] = NoUser
    /\ cooldown' = cooldown \cup {u}
    /\ clients' = clients \ Kicked(u)
    /\ closed' = closed \cup Kicked(u)
    /\ username' = [username EXCEPT ![c] = u]
    /\ owner' = IF u \in cooldown /\ owner[u] # NoConn THEN owner
                                                      ELSE [owner EXCEPT ![u] = c]
    /\ members' = [r \in Room |-> IF r = General
                                  THEN (members[r] \ Kicked(u)) \cup {c}
                                  ELSE members[r] \ Kicked(u)]
    /\ joined' = [joined EXCEPT ![c] = @ \cup {General}]
    /\ announced' = IF IsNewLogin(u) THEN announced \cup {u} ELSE announced
    /\ UserListSent(clients' \cup {c}, owner', username', closed')
    /\ UNCHANGED <<clientVars, rooms, hubRun>>

HandleJoin(c, u) ==
    /\ phase[c] = "reading"
    /\ Rejoin \/ username[c] = NoUser
    /\ cooldown' = cooldown \cup {u}
    /\ clients' = clients \ Kicked(u)
    /\ closed' = closed \cup Kicked(u)
    /\ username' = [username EXCEPT ![c] = u]
    /\ owner' = [owner EXCEPT ![u] = c]
    /\ members' = [r \in Room |-> IF r = General
                                  THEN (members[r] \ Kicked(u)) \cup {c}
                                  ELSE members[r] \ Kicked(u)]
    /\ joined' = [joined EXCEPT ![c] = @ \cup {General}]
    /\ announced' = IF IsNewLogin(u) THEN announced \cup {u} ELSE announced
    /\ UserListSent(clients' \cup {c}, owner', username', closed')
    /\ UNCHANGED <<clientVars, rooms, hubRun>>

\* joinCooldown[u] becomes five seconds old.
CooldownExpires(u) ==
    /\ u \in cooldown
    /\ cooldown' = cooldown \ {u}
    /\ UNCHANGED <<clientVars, closed, username, joined, clients, owner, rooms,
                   members, hubRun, roster, missed, announced>>

roomless == <<clientVars, closed, username, clients, owner, cooldown, hubRun,
              roster, missed, announced>>

HandleCreateRoom(c, r) ==
    /\ Serving(c)
    /\ r \notin rooms
    /\ rooms' = rooms \cup {r}
    /\ members' = [members EXCEPT ![r] = {c}]
    /\ joined' = [joined EXCEPT ![c] = @ \cup {r}]
    /\ UNCHANGED roomless

HandleJoinRoom(c, r) ==
    /\ Serving(c)
    /\ r \in rooms
    /\ c \notin members[r]
    /\ members' = [members EXCEPT ![r] = @ \cup {c}]
    /\ joined' = [joined EXCEPT ![c] = @ \cup {r}]
    /\ UNCHANGED <<roomless, rooms>>

\* Mutant: the room keeps its member.
HandleLeaveOneSide(c, r) ==
    /\ Serving(c)
    /\ r # General
    /\ r \in rooms
    /\ joined' = [joined EXCEPT ![c] = @ \ {r}]
    /\ UNCHANGED <<roomless, rooms, members>>

HandleLeaveRoom(c, r) ==
    /\ Serving(c)
    /\ r # General
    /\ r \in rooms
    /\ members' = [members EXCEPT ![r] = @ \ {c}]
    /\ joined' = [joined EXCEPT ![c] = @ \ {r}]
    /\ UNCHANGED <<roomless, rooms>>

(***************************************************************************)

Pump(c) ==
    \/ Accept(c) \/ DropSocket(c)
    \/ WritePumpStops(c) \/ ReadPumpStops(c) \/ Leave(c)

Run(c) == RunRegister(c) \/ RunUnregister(c)

Handle(c) ==
    \/ \E u \in User : HandleJoin(c, u)
    \/ \E r \in Room : HandleCreateRoom(c, r) \/ HandleJoinRoom(c, r)
                       \/ HandleLeaveRoom(c, r)

Next ==
    \/ \E c \in Conn : Pump(c) \/ Run(c) \/ Handle(c)
    \/ \E u \in User : CooldownExpires(u)

Spec == Init /\ [][Next]_vars

(***************************************************************************)
(* Fairness.  Goroutines that can run do run.  A goroutine waiting to send *)
(* on Unregister is one of several senders that Run's select serves in     *)
(* turn (channel queues are first in, first out), hence strong fairness.   *)
(* Nothing is assumed of the environment: sockets need not fail, clients   *)
(* need not send, time need not pass.                                      *)
(***************************************************************************)
Fairness == \A c \in Conn : /\ WF_vars(Run(c))
                            /\ WF_vars(WritePumpStops(c))
                            /\ WF_vars(ReadPumpStops(c))
                            /\ SF_vars(Leave(c))

FairSpec == Spec /\ Fairness

(***************************************************************************)
(* Safety                                                                  *)
(***************************************************************************)

\* A name in UserClients belongs to a connection that took this very name and
\* whose Send channel is open: DMs, calls and receipts looked up by name
\* (handleDM, handleCallSignal) are never dropped by a dead channel.
OwnerIsOpen ==
    \A u \in User : owner[u] # NoConn =>
        username[owner[u]] = u /\ owner[u] \notin closed

\* No name outlives its connection: once Run has processed the Unregister of a
\* connection, no name points to it and it is no client, whatever joins of other
\* connections, takeovers and teardowns happened in between (Run's Unregister
\* case).  It needs Rejoin = FALSE: Run frees the last name of a connection, and
\* a connection that joined under two keeps the first.
NoGhostOwner ==
    \A c \in Conn : phase[c] = "gone" /\ hubRun # <<"unregister", c>> =>
        c \notin clients /\ \A u \in User : owner[u] # c

\* Whoever holds a name is in #general and gets its messages (handleJoin adds
\* it; only a kick or its own Unregister, which also free the name, remove it).
OwnerInGeneral ==
    \A u \in User : owner[u] # NoConn => owner[u] \in members[General]

\* The hub's membership is never wider than the connection's own: a room that
\* sends to a connection is one the connection may post to (handleMessage and
\* handleTyping check Client.Rooms, the broadcast iterates over Hub.Rooms).
MembersMayPost == \A r \in Room : \A c \in members[r] : r \in joined[c]

\* Nobody is listed who is gone, unless the last list was dropped: the user list
\* in a joined browser names only users who are online, though lists are sent
\* from the handlers and from Run, and not to a connection Run has received and
\* not yet added.  A browser whose last list met a full Send channel is excepted:
\* it is not told again until somebody joins or leaves.
RosterHasNoGhosts ==
    \A c \in clients \ missed : username[c] # NoUser /\ c \notin closed =>
        roster[c] \subseteq Online

\* A name that #general was last told has joined is held by somebody: whatever
\* silent rejoins and takeovers came between, the departure that frees the name
\* is announced, so a user_joined (sent for free names only) never follows
\* another one (isReconnect in handleJoin, isCurrentOwner and the walk over the
\* rooms in Run's Unregister case).  Two user_left in a row do occur: a rejoin
\* within five seconds of the last one is silent and its departure is not.
AnnouncedIsHeld == announced \subseteq Online

\* A name is freed by the Unregister of the connection that holds it and by
\* nothing else: the late teardown of a connection that was replaced leaves
\* the new owner alone (the pointer comparison in Run's Unregister case).
NameFreedByItsOwner ==
    [][\A u \in User : owner[u] # NoConn /\ owner'[u] = NoConn =>
           hubRun = <<"unregister", owner[u]>>]_vars

(***************************************************************************)
(* The inductive invariant behind the properties of names: what the other  *)
(* goroutines may rely on about a connection while Run is between a        *)
(* receive and the map update.  NameInv needs Rejoin = FALSE.              *)
(***************************************************************************)

\* A closed connection has joined (it was kicked) or is being torn down.
ClosedHasJoined ==
    \A c \in closed : username[c] # NoUser \/ phase[c] = "gone"

\* A connection Run was handed is past its Accept, or past its Leave.
RunIsTracked ==
    \A c \in Conn :
        /\ hubRun = <<"register", c>> => phase[c] \in {"reading", "leaving"}
        /\ hubRun = <<"unregister", c>> => phase[c] = "gone"

\* A connection that has left is a client only until Run applies it.
ClientsAreTracked ==
    \A c \in clients : phase[c] = "gone" => hubRun = <<"unregister", c>>

\* A connection whose pumps run, or whose Unregister Run holds, is a client, or
\* Run is about to make it one, or it was kicked.
PumpsAreTracked ==
    \A c \in Conn :
        phase[c] \in {"reading", "leaving"} \/ hubRun = <<"unregister", c>> =>
        c \in clients \/ hubRun = <<"register", c>> \/ c \in closed

\* The holder of a name is a client, or Run is about to make it one.
OwnersAreTracked ==
    \A u \in User : owner[u] # NoConn =>
        owner[u] \in clients \/ hubRun = <<"register", owner[u]>>

\* NewHub made the room and nothing deletes a room.
GeneralExists == General \in rooms

NameInv ==
    /\ TypeOK
    /\ GeneralExists
    /\ ClosedHasJoined
    /\ RunIsTracked
    /\ ClientsAreTracked
    /\ PumpsAreTracked
    /\ OwnersAreTracked
    /\ OwnerIsOpen
    /\ OwnerInGeneral
    /\ AnnouncedIsHeld

\* Behind RosterHasNoGhosts: Run frees no name while it is about to add a
\* connection, so the list that connection was sent has no ghost either.
RosterIsTracked ==
    \A c \in Conn \ missed : /\ c \in clients \/ hubRun = <<"register", c>>
                             /\ username[c] # NoUser /\ c \notin closed
                             => roster[c] \subseteq Online

\* Who has not been accepted has no name yet.
NewIsNameless == \A c \in Conn : phase[c] = "new" => username[c] = NoUser

RosterInv == NewIsNameless /\ RosterIsTracked

IInv == NameInv /\ RosterInv

(***************************************************************************)
(* Liveness                                                                *)
(***************************************************************************)

\* A connection whose socket died gives its name back (ReadPump, Unregister).
DeadSocketFreesName ==
    \A c \in Conn : c \notin alive ~>
        c \notin clients /\ \A u \in User : owner[u] # c

\* A kicked connection is torn down: WritePump closes the socket, ReadPump
\* leaves, and Run receives its Unregister.
KickedIsTornDown == \A c \in Conn : c \in closed ~> phase[c] = "gone"

(***************************************************************************)
(* What the documentation says, and the code does not do                   *)
(***************************************************************************)

\* README.md:13, "See who's connected": a connection that joined and was neither
\* kicked nor dropped is somebody who is connected.
ConnectedIsOnline ==
    \A c \in clients \cap alive :
        username[c] # NoUser /\ c \notin closed => username[c] \in Online

(***************************************************************************)
(* The names alone are a NameRegistry: a departed client is one Run was    *)
(* handed the Unregister of, a settled one is one Run is done with.        *)
(***************************************************************************)
Departed == {c \in Conn : phase[c] = "gone"}

Registry == INSTANCE NameRegistry WITH
    Client <- Conn, Name <- User, Nobody <- NoConn, holder <- owner,
    claimed <- {c \in Conn : username[c] # NoUser}, evicted <- closed,
    departed <- Departed, settled <- {c \in Departed : hubRun # <<"unregister", c>>}

\* The hub implements the registry of names.
ImplementsRegistry == Registry!Spec
=============================================================================
