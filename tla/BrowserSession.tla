--------------------------- MODULE BrowserSession ---------------------------
(***************************************************************************)
(* One browser tab of frontend/app.js: logging in, losing the connection   *)
(* and reconnecting, reloading, logging out, wiping, and the rooms the tab *)
(* takes for joined, next to those the hub has its connections in.         *)
(*                                                                         *)
(* connect makes a new socket the global ws.  Older sockets keep their     *)
(* callbacks, so all that are still there act on the page, and onopen,     *)
(* after waiting for cryptoManager.init, writes to the socket that is ws   *)
(* by then.  Wipe leaves the page and its callbacks running.               *)
(*                                                                         *)
(* Abstracted: contents, and the entries of direct messages (Delivery has  *)
(* them); of a room only whether messageStore has an entry counts.  Rooms  *)
(* exist, and requests come slower than the hub's limit of one in 33 ms.   *)
(* Being kicked by another connection of the same name (Hub) appears as a  *)
(* connection that closes.  Logging out reloads at once.  The page is in a *)
(* secure context, so that init makes or finds keys.                       *)
(***************************************************************************)
EXTENDS Integers, Sequences, FiniteSets

CONSTANTS
    Name,           \* what the user may type in the login form
    ValidName,      \* the names handleJoin takes
    NoName,         \* the empty string
    Room,
    General,        \* #general
    NoView,         \* sessionStorage has no view
    MaxReconnects,  \* reconnection attempts in a row (5)
    MaxSockets,     \* bound on the sockets of a page at one time
    MaxSubmits,     \* bound on the logins of a page
    MaxLosses,      \* bound on the open connections that are lost
    MaxEvents       \* bound on loads of pages, uses of rooms, posts and histories

ASSUME NameAssumption == ValidName \subseteq Name /\ NoName \notin Name
ASSUME RoomAssumption == General \in Room /\ NoView \notin Room
ASSUME BoundAssumption ==
    /\ MaxReconnects \in Nat \ {0} /\ MaxSockets \in Nat \ {0}
    /\ MaxSubmits \in Nat /\ MaxLosses \in Nat /\ MaxEvents \in Nat

Socket == 1..MaxSockets
None   == 0

Request == [type : {"join"}, name : Name]
           \cup [type : {"join_room", "leave_room"}, room : Room]

\* "system" welcomes after join or join_room; "message" is a post or a history.
Reply == [type : {"system"}, room : Room \cup {NoView}]
         \cup [type : {"message"}, room : Room] \cup [type : {"error"}]

VARIABLES
    page,        \* the screen that shows: "login", "chat" or "wiped"
    myUsername,
    ws,          \* the socket that is ws, or None for null
    status,      \* status[s]: readyState; "none": closed, or never made
    user,        \* user[s]: the username that onopen of s will join with
    opening,     \* opening[s]: onopen of s waits for cryptoManager.init
    attempts,    \* reconnectAttempts
    timers,      \* calls of connect that setTimeout has scheduled
    store,       \* rooms with an entry in messageStore
    view,        \* currentView
    restored,    \* viewRestored
    savedName,   \* sessionStorage: wifi-chat-username
    savedView,   \* sessionStorage: wifi-chat-view
    savedStore,  \* sessionStorage: the rooms in wifi-chat-messages
    savedKeys,   \* sessionStorage: e2ee-privkey and e2ee-pubkey
    toHub,       \* toHub[s]: requests on their way to the hub
    toPage,      \* toPage[s]: replies on their way to the page
    joined,      \* joined[s]: rooms the hub has s in; {} before join
    submits,     \* history: logins of this page, the automatic one included
    earlier,     \* history: the tab had an earlier connection
    left,        \* history: rooms left by the button
    losses,      \* open connections lost
    events       \* loads of pages, uses of rooms, posts and histories

pageVars    == <<page, myUsername, restored>>
socketVars  == <<ws, status, user, opening>>
retryVars   == <<attempts, timers>>
roomVars    == <<store, view>>
storageVars == <<savedName, savedView, savedStore, savedKeys>>
wireVars    == <<toHub, toPage, joined>>
historyVars == <<submits, earlier, left>>
counters    == <<losses, events>>
vars == <<pageVars, socketVars, retryVars, roomVars, storageVars, wireVars,
          historyVars, counters>>

\* The values of the variables.
TypeOK ==
    /\ page \in {"login", "chat", "wiped"}
    /\ myUsername \in Name \cup {NoName}
    /\ restored \in BOOLEAN
    /\ ws \in Socket \cup {None}
    /\ status \in [Socket -> {"none", "connecting", "open", "closing"}]
    /\ user \in [Socket -> Name \cup {NoName}]
    /\ opening \in [Socket -> BOOLEAN]
    /\ attempts \in 0..MaxReconnects
    /\ timers \in Nat
    /\ store \subseteq Room
    /\ view \in Room
    /\ savedName \in Name \cup {NoName}
    /\ savedView \in Room \cup {NoView}
    /\ savedStore \subseteq Room
    /\ savedKeys \in BOOLEAN
    /\ toHub \in [Socket -> Seq(Request)]
    /\ toPage \in [Socket -> Seq(Reply)]
    /\ joined \in [Socket -> SUBSET Room]
    /\ submits \in Nat
    /\ earlier \in BOOLEAN
    /\ left \subseteq Room
    /\ losses \in 0..MaxLosses
    /\ events \in 0..MaxEvents

Init ==
    /\ page = "login"
    /\ myUsername = NoName
    /\ restored = FALSE
    /\ ws = None
    /\ status = [s \in Socket |-> "none"]
    /\ user = [s \in Socket |-> NoName]
    /\ opening = [s \in Socket |-> FALSE]
    /\ attempts = 0
    /\ timers = 0
    /\ store = {}
    /\ view = General
    /\ savedName = NoName
    /\ savedView = NoView
    /\ savedStore = {}
    /\ savedKeys = FALSE
    /\ toHub = [s \in Socket |-> <<>>]
    /\ toPage = [s \in Socket |-> <<>>]
    /\ joined = [s \in Socket |-> {}]
    /\ submits = 0
    /\ earlier = FALSE
    /\ left = {}
    /\ losses = 0
    /\ events = 0

\* One of the bounded events happens.
Counts ==
    /\ events < MaxEvents
    /\ events' = events + 1

Alive == {s \in Socket : status[s] # "none"}

(***************************************************************************)
(* Connecting                                                              *)
(***************************************************************************)

\* connect: the new socket is ws.
Connect(name) ==
    \E s \in Socket \ Alive :
        /\ ~opening[s]
        /\ \A r \in Socket \ Alive : ~opening[r] => s <= r
        /\ ws' = s
        /\ status' = [status EXCEPT ![s] = "connecting"]
        /\ user' = [user EXCEPT ![s] = name]
        /\ UNCHANGED opening

\* The login form
Submit(name) ==
    /\ page = "login"
    /\ submits < MaxSubmits
    /\ submits' = submits + 1
    /\ earlier' = (earlier \/ submits > 0)
    /\ myUsername' = name
    /\ savedName' = name
    /\ Connect(name)
    /\ UNCHANGED <<page, restored, retryVars, roomVars, savedView, savedStore, savedKeys,
                   wireVars, left, counters>>

\* onopen up to cryptoManager.init
Opened(s) ==
    /\ status[s] = "connecting"
    /\ status' = [status EXCEPT ![s] = "open"]
    /\ opening' = [opening EXCEPT ![s] = TRUE]
    /\ attempts' = 0
    /\ UNCHANGED <<pageVars, ws, user, timers, roomVars, storageVars, wireVars,
                   historyVars, counters>>

\* ws.send fails on null or a connecting socket and does nothing on a closed one.
CanSend == ws # None /\ status[ws] = "open"

Sends(request) ==
    toHub' = IF CanSend THEN [toHub EXCEPT ![ws] = Append(@, request)] ELSE toHub

\* Mutant: the page joins once.
JoinsOnce(s) ==
    /\ opening[s]
    /\ opening' = [opening EXCEPT ![s] = FALSE]
    /\ user' = [user EXCEPT ![s] = NoName]
    /\ savedKeys' = TRUE
    /\ IF restored THEN UNCHANGED toHub ELSE Sends([type |-> "join", name |-> user[s]])
    /\ UNCHANGED <<pageVars, ws, status, retryVars, roomVars, savedName, savedView,
                   savedStore, toPage, joined, historyVars, counters>>

\* onopen after cryptoManager.init, which has saved the keys: join goes to ws.
Joins(s) ==
    /\ opening[s]
    /\ opening' = [opening EXCEPT ![s] = FALSE]
    /\ user' = [user EXCEPT ![s] = NoName]
    /\ savedKeys' = TRUE
    /\ Sends([type |-> "join", name |-> user[s]])
    /\ UNCHANGED <<pageVars, ws, status, retryVars, roomVars, savedName, savedView,
                   savedStore, toPage, joined, historyVars, counters>>

\* Socket s is gone, at both ends.
Gone(s) ==
    /\ status' = [status EXCEPT ![s] = "none"]
    /\ user' = [user EXCEPT ![s] = IF opening[s] THEN @ ELSE NoName]
    /\ toHub' = [toHub EXCEPT ![s] = <<>>]
    /\ toPage' = [toPage EXCEPT ![s] = <<>>]
    /\ joined' = [joined EXCEPT ![s] = {}]
    /\ earlier' = TRUE

\* Mutant: a connection that was not joined is not tried again.
OnCloseJoined(s) ==
    \/ /\ myUsername # NoName /\ attempts < MaxReconnects /\ joined[s] # {}
       /\ attempts' = attempts + 1
       /\ timers' = timers + 1
       /\ store' = store \cup {view}
       /\ UNCHANGED page
    \/ /\ attempts >= MaxReconnects
       /\ page' = IF page = "wiped" THEN page ELSE "login"
       /\ UNCHANGED <<retryVars, store>>
    \/ /\ attempts < MaxReconnects /\ (myUsername = NoName \/ joined[s] = {})
       /\ UNCHANGED <<retryVars, store, page>>

\* Mutant: as if onerror, which comes before onclose, reconnected, too.
OnCloseTwice(s) ==
    \/ /\ myUsername # NoName /\ attempts < MaxReconnects
       /\ attempts' = attempts + 1
       /\ timers' = timers + (IF status[s] = "connecting" THEN 2 ELSE 1)
       /\ store' = store \cup {view}
       /\ UNCHANGED page
    \/ /\ attempts >= MaxReconnects
       /\ page' = IF page = "wiped" THEN page ELSE "login"
       /\ UNCHANGED <<retryVars, store>>

\* Mutant: one attempt too many.
OnCloseLate(s) ==
    \/ /\ myUsername # NoName /\ attempts <= MaxReconnects
       /\ attempts' = attempts + 1
       /\ timers' = timers + 1
       /\ store' = store \cup {view}
       /\ UNCHANGED page
    \/ /\ attempts > MaxReconnects
       /\ page' = IF page = "wiped" THEN page ELSE "login"
       /\ UNCHANGED <<retryVars, store>>

\* onclose: schedules another attempt, of which a system line tells, or gives up
\* and asks for a login.  Whoever has a socket has typed a name.
OnClose(s) ==
    \/ /\ myUsername # NoName /\ attempts < MaxReconnects
       /\ attempts' = attempts + 1
       /\ timers' = timers + 1
       /\ store' = store \cup {view}
       /\ UNCHANGED page
    \/ /\ attempts >= MaxReconnects
       /\ page' = IF page = "wiped" THEN page ELSE "login"
       /\ UNCHANGED <<retryVars, store>>

closeFrame == <<myUsername, restored, ws, opening, view, storageVars, submits, left>>

\* The server cannot be reached.
Refused(s) ==
    /\ status[s] = "connecting"
    /\ Gone(s)
    /\ OnClose(s)
    /\ UNCHANGED <<closeFrame, counters>>

\* The connection is lost, or the hub closes it.
Lost(s) ==
    /\ status[s] = "open"
    /\ losses < MaxLosses
    /\ losses' = losses + 1
    /\ Gone(s)
    /\ OnClose(s)
    /\ UNCHANGED <<closeFrame, events>>

\* ws.close() of emergencyWipe takes effect.
Closed(s) ==
    /\ status[s] = "closing"
    /\ Gone(s)
    /\ OnClose(s)
    /\ UNCHANGED <<closeFrame, counters>>

Timer ==
    /\ timers > 0
    /\ timers' = timers - 1
    /\ Connect(myUsername)
    /\ UNCHANGED <<pageVars, attempts, roomVars, storageVars, wireVars, historyVars,
                   counters>>

(***************************************************************************)
(* Messages of the hub                                                     *)
(***************************************************************************)

\* saveMessageStore keeps all of messageStore, or nothing if there is no space.
Saves == savedStore' \in {store', {}}

\* Mutant: a room of the room list counts as joined.
SwitchToListed(room, before) ==
    /\ view' = room
    /\ savedView' = room
    /\ UNCHANGED toHub

\* switchToRoom, when messageStore has the rooms "before": a room without an
\* entry is joined.
SwitchTo(room, before) ==
    /\ view' = room
    /\ savedView' = room
    /\ IF room \in before THEN UNCHANGED toHub
       ELSE Sends([type |-> "join_room", room |-> room])

Receives(s, type) ==
    /\ toPage[s] # <<>>
    /\ status[s] = "open"
    /\ Head(toPage[s]).type = type
    /\ toPage' = [toPage EXCEPT ![s] = Tail(@)]
    /\ UNCHANGED <<myUsername, socketVars, retryVars, savedName, savedKeys, joined,
                   historyVars, counters>>

\* "system": the chat shows, the line goes to its room or else to the open one,
\* and the first time the saved view is restored.
ReceiveSystem(s) ==
    LET room == Head(toPage[s]).room IN
    /\ Receives(s, "system")
    /\ page' = IF page = "wiped" THEN page ELSE "chat"
    /\ store' = store \cup {IF room = NoView THEN view ELSE room}
    /\ restored' = TRUE
    /\ IF ~restored /\ savedView \notin {NoView, General}
       THEN SwitchTo(savedView, store')
       ELSE UNCHANGED <<view, savedView, toHub>>
    /\ UNCHANGED savedStore

\* storeAndRender, or a history: makes the entry if there is none.
ReceiveMessage(s) ==
    /\ Receives(s, "message")
    /\ store' = store \cup {Head(toPage[s]).room}
    /\ Saves
    /\ UNCHANGED <<page, restored, view, savedView, toHub>>

\* "error": a line in the open room, or in the login form.
ReceiveError(s) ==
    /\ Receives(s, "error")
    /\ store' = IF page = "login" THEN store ELSE store \cup {view}
    /\ UNCHANGED <<page, restored, view, savedView, savedStore, toHub>>

(***************************************************************************)
(* The hub                                                                 *)
(***************************************************************************)

System(room) == [type |-> "system", room |-> room]
Message(room) == [type |-> "message", room |-> room]
Error == [type |-> "error"]

\* What the hub sends s after its first request, in order.
Answers(s, replies) ==
    /\ toHub' = [toHub EXCEPT ![s] = Tail(@)]
    /\ toPage' = [toPage EXCEPT ![s] = @ \o replies]
    /\ UNCHANGED <<pageVars, socketVars, retryVars, roomVars, storageVars, historyVars,
                   losses>>

Requests(s, type) == toHub[s] # <<>> /\ Head(toHub[s]).type = type

\* A history comes before the welcome, if anything is stored.
Welcome(s, history, room) ==
    \/ Answers(s, <<System(room)>>) /\ UNCHANGED events
    \/ /\ Counts
       /\ Answers(s, <<Message(history), System(room)>>)

\* handleJoin, as far as it concerns s: it joins #general.
HandleJoin(s) ==
    /\ Requests(s, "join")
    /\ \/ /\ Head(toHub[s]).name \in ValidName
          /\ joined' = [joined EXCEPT ![s] = @ \cup {General}]
          /\ Welcome(s, General, NoView)
       \/ /\ Head(toHub[s]).name \notin ValidName
          /\ Answers(s, <<Error>>)
          /\ UNCHANGED <<joined, events>>

HandleJoinRoom(s) ==
    LET room == Head(toHub[s]).room IN
    /\ Requests(s, "join_room")
    /\ \/ /\ joined[s] # {} /\ room \notin joined[s]
          /\ joined' = [joined EXCEPT ![s] = @ \cup {room}]
          /\ Welcome(s, room, room)
       \/ /\ joined[s] = {} \/ room \in joined[s]
          /\ Answers(s, <<Error>>)
          /\ UNCHANGED <<joined, events>>

HandleLeaveRoom(s) ==
    LET room == Head(toHub[s]).room IN
    /\ Requests(s, "leave_room")
    /\ IF joined[s] = {} \/ room = General
       THEN Answers(s, <<Error>>) /\ UNCHANGED joined
       ELSE Answers(s, <<>>) /\ joined' = [joined EXCEPT ![s] = @ \ {room}]
    /\ UNCHANGED events

\* Somebody posts in a room the hub has s in.
Post(s) ==
    \E room \in joined[s] :
        /\ Counts
        /\ toPage' = [toPage EXCEPT ![s] = Append(@, Message(room))]
        /\ UNCHANGED <<pageVars, socketVars, retryVars, roomVars, storageVars, toHub,
                       joined, historyVars, losses>>

(***************************************************************************)
(* What the user does                                                      *)
(***************************************************************************)

\* What the user does with rooms while the chat shows.
UsesChat ==
    /\ page = "chat"
    /\ Counts
    /\ UNCHANGED <<pageVars, socketVars, retryVars, savedName, savedKeys, toPage, joined,
                   submits, earlier, losses>>

SwitchToRoom(room) ==
    /\ UsesChat
    /\ SwitchTo(room, store)
    /\ UNCHANGED <<store, savedStore, left>>

\* The leave button: leave_room, and a switch to #general.
LeaveRoom ==
    /\ UsesChat
    /\ view # General
    /\ view' = General
    /\ savedView' = General
    /\ store' = store \ {view}
    /\ left' = left \cup {view}
    /\ LET leave == [type |-> "leave_room", room |-> view]
           join  == [type |-> "join_room", room |-> General]
       IN  toHub' = IF ~CanSend THEN toHub
                    ELSE [toHub EXCEPT ![ws] = @ \o
                            (IF General \in store THEN <<leave>> ELSE <<leave, join>>)]
    /\ UNCHANGED savedStore

\* /clear: the entry is deleted and saved so, and a line makes a new one.
Clear ==
    /\ UsesChat
    /\ savedStore' \in {store \ {view}, {}}
    /\ store' = store \cup {view}
    /\ UNCHANGED <<view, savedView, toHub, left>>

\* emergencyWipe
Wipe ==
    /\ page = "chat"
    /\ page' = "wiped"
    /\ savedName' = NoName
    /\ savedView' = NoView
    /\ savedStore' = {}
    /\ savedKeys' = FALSE
    /\ ws' = None
    /\ status' = IF ws = None \/ status[ws] = "none" THEN status
                 ELSE [status EXCEPT ![ws] = "closing"]
    /\ store' = {}
    /\ UNCHANGED <<myUsername, restored, user, opening, retryVars, view, wireVars,
                   historyVars, counters>>

\* A page loads in the tab and finds name, savedView' and savedStore': init.
Load(name) ==
    /\ Counts
    /\ page' = "login"
    /\ myUsername' = name
    /\ restored' = FALSE
    /\ ws' = IF name = NoName THEN None ELSE 1
    /\ status' = [s \in Socket |-> IF s = ws' THEN "connecting" ELSE "none"]
    /\ user' = [s \in Socket |-> IF s = ws' THEN name ELSE NoName]
    /\ opening' = [s \in Socket |-> FALSE]
    /\ attempts' = 0
    /\ timers' = 0
    /\ store' = savedStore'
    /\ view' = IF savedView' = NoView THEN General ELSE savedView'
    /\ toHub' = [s \in Socket |-> <<>>]
    /\ toPage' = [s \in Socket |-> <<>>]
    /\ joined' = [s \in Socket |-> {}]
    /\ submits' = IF name = NoName THEN 0 ELSE 1
    /\ left' = {}
    /\ UNCHANGED losses

\* A refresh, or the restart button of a wiped page.
Reload ==
    /\ UNCHANGED storageVars
    /\ Load(savedName)
    /\ earlier' = TRUE

\* logout; the button is on the chat screen.
Logout ==
    /\ page = "chat"
    /\ savedName' = NoName
    /\ savedView' = NoView
    /\ savedStore' = {}
    /\ savedKeys' = FALSE
    /\ Load(NoName)
    /\ earlier' = FALSE

-----------------------------------------------------------------------------
Page(s) == Opened(s) \/ Joins(s) \/ ReceiveSystem(s) \/ ReceiveMessage(s) \/ ReceiveError(s)
Hub(s)  == HandleJoin(s) \/ HandleJoinRoom(s) \/ HandleLeaveRoom(s)

Next ==
    \/ \E name \in Name : Submit(name)
    \/ \E room \in Room : SwitchToRoom(room)
    \/ LeaveRoom \/ Clear \/ Wipe \/ Reload \/ Logout \/ Timer
    \/ \E s \in Socket : Page(s) \/ Hub(s) \/ Post(s) \/ Refused(s) \/ Lost(s) \/ Closed(s)

Spec == Init /\ [][Next]_vars

\* A connection is made or refused, timers fire, and what is sent on a connection
\* that stays open is handled.
FairSpec ==
    /\ Spec
    /\ WF_vars(Timer)
    /\ \A s \in Socket :
        /\ WF_vars(Opened(s) \/ Refused(s))
        /\ WF_vars(Closed(s))
        /\ WF_vars(Joins(s))
        /\ WF_vars(Hub(s))
        /\ WF_vars(ReceiveSystem(s) \/ ReceiveMessage(s) \/ ReceiveError(s))

(***************************************************************************)
(* Properties                                                              *)
(***************************************************************************)

\* A page that shows the chat has a connection, is about to make one, or has a
\* timer that will (app.js:76-88).  Whatever is lost, refused or ignored, it is
\* never left to itself without asking for a login.
NeverStranded == page = "chat" => Alive # {} \/ timers > 0

\* Reconnecting never multiplies connections: the sockets of a page and the
\* timers that will make one are no more than its logins.  So a page that logged
\* in once has one connection at most, and shows no message twice.
ConnectionsConserved == Cardinality(Alive) + timers <= submits

\* On the first connection of a tab, a room on the screen that was never left is
\* joined or about to be, although the page tells joined rooms by their entries in
\* messageStore (app.js:642), which system lines, errors and /clear make, too.
\* Neither a reconnection nor a refresh keeps to this.
RoomShownIsJoined ==
    page = "chat" /\ ~earlier /\ view \notin left =>
        view \in joined[ws] \/ \E i \in 1..Len(toHub[ws]) :
            toHub[ws][i] = [type |-> "join_room", room |-> view]

\* A chat whose connection is lost is connected and joined again, or asks for a
\* login, if connections are lost finitely often and the last name typed is valid.
JoinsAgain ==
    page = "chat" ~>
        \/ page # "chat" \/ myUsername \notin ValidName
        \/ \E s \in Socket : joined[s] # {}

\* "/wipe command instantly clears all local data": nothing is in sessionStorage
\* while the page says so.
WipeIsFinal ==
    page = "wiped" => savedName = NoName /\ savedStore = {} /\ ~savedKeys
=============================================================================
