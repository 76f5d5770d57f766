------------------------ MODULE BrowserSessionProofs ------------------------
(***************************************************************************)
(* A page is never stranded and never multiplies its connections, and the  *)
(* room it shows on its first connection is joined, or will be, for any    *)
(* numbers of rooms, sockets, logins, attempts and losses.                 *)
(***************************************************************************)
EXTENDS BrowserSession, FiniteSetTheorems, TLAPS

\* Who connects, or will, has typed a name.
PageIsNamed == Alive # {} \/ timers > 0 => myUsername # NoName

\* onopen of a socket that connects, or waits for its keys, has a name to join with.
CallbackIsNamed ==
    \A s \in Socket :
        /\ status[s] = "connecting" \/ opening[s] => user[s] # NoName
        /\ opening[s] => status[s] # "connecting"

NamedInv == TypeOK /\ PageIsNamed /\ CallbackIsNamed

\* What is next on the wire has its type.
LEMMA NextOnWire ==
    ASSUME TypeOK, NEW s \in Socket
    PROVE  /\ toHub[s] # <<>> => Head(toHub[s]) \in Request /\ Tail(toHub[s]) \in Seq(Request)
           /\ toPage[s] # <<>> => Head(toPage[s]) \in Reply /\ Tail(toPage[s]) \in Seq(Reply)
BY DEF TypeOK

\* What a request or a reply of some type is about.
LEMMA RequestRoom ==
    ASSUME NEW r \in Request, r.type \in {"join_room", "leave_room"}
    PROVE  r.room \in Room
BY DEF Request

\* A message names a room; a system line names one or none.
LEMMA ReplyRoom ==
    ASSUME NEW r \in Reply
    PROVE  /\ r.type = "system" => r.room \in Room \cup {NoView}
           /\ r.type = "message" => r.room \in Room
BY DEF Reply

\* Sending keeps the type of the wire.
LEMMA SendsType ==
    ASSUME TypeOK, NEW request \in Request, Sends(request)
    PROVE  toHub' \in [Socket -> Seq(Request)]
BY DEF TypeOK, Sends, CanSend, None

\* A switch to a room keeps types.
LEMMA SwitchToType ==
    ASSUME TypeOK, NEW room \in Room, NEW before, SwitchTo(room, before)
    PROVE  /\ toHub' \in [Socket -> Seq(Request)]
           /\ view' \in Room
           /\ savedView' \in Room \cup {NoView}
<1>1. [type |-> "join_room", room |-> room] \in Request
  BY DEF Request
<1>2. CASE room \in before
  BY <1>2 DEF SwitchTo, TypeOK
<1>3. CASE room \notin before
  BY <1>1, <1>3, SendsType DEF SwitchTo
<1> QED
  BY <1>2, <1>3 DEF SwitchTo

\* An answer of the hub keeps types.
LEMMA AnswersType ==
    ASSUME TypeOK, NEW s \in Socket, toHub[s] # <<>>,
           NEW replies \in Seq(Reply), Answers(s, replies)
    PROVE  /\ toHub' \in [Socket -> Seq(Request)]
           /\ toPage' \in [Socket -> Seq(Reply)]
<1>1. Tail(toHub[s]) \in Seq(Request)
  BY NextOnWire
<1>2. toPage[s] \o replies \in Seq(Reply)
  BY DEF TypeOK
<1> QED
  BY <1>1, <1>2 DEF Answers, TypeOK

\* Handling a welcome keeps the types.
LEMMA WelcomeType ==
    ASSUME TypeOK, NEW s \in Socket, toHub[s] # <<>>, NEW history \in Room,
           NEW room \in Room \cup {NoView}, Welcome(s, history, room)
    PROVE  /\ toHub' \in [Socket -> Seq(Request)]
           /\ toPage' \in [Socket -> Seq(Reply)]
           /\ events' \in 0..MaxEvents
           /\ UNCHANGED <<pageVars, socketVars, retryVars, roomVars, storageVars,
                          historyVars, losses>>
<1>1. /\ <<System(room)>> \in Seq(Reply)
      /\ <<Message(history), System(room)>> \in Seq(Reply)
  BY DEF System, Message, Reply
<1>2. events' \in 0..MaxEvents
  BY BoundAssumption DEF Welcome, Counts, TypeOK
<1>3. CASE Answers(s, <<System(room)>>)
  BY <1>1, <1>2, <1>3, AnswersType DEF Answers
<1>4. CASE Answers(s, <<Message(history), System(room)>>)
  BY <1>1, <1>2, <1>4, AnswersType DEF Answers
<1> QED
  BY <1>3, <1>4 DEF Welcome

\* connect takes a socket that is closed, with no callback of its own left.
LEMMA ConnectType ==
    ASSUME TypeOK, NEW name \in Name \cup {NoName}, Connect(name)
    PROVE  /\ ws' \in Socket \cup {None}
           /\ status' \in [Socket -> {"none", "connecting", "open", "closing"}]
           /\ user' \in [Socket -> Name \cup {NoName}]
           /\ opening' \in [Socket -> BOOLEAN]
           /\ timers \in Nat
BY DEF TypeOK, Connect

\* A socket that is gone leaves types as they were, and so does its onclose.
LEMMA GoneType ==
    ASSUME TypeOK, NEW s \in Socket, Gone(s)
    PROVE  /\ status' \in [Socket -> {"none", "connecting", "open", "closing"}]
           /\ user' \in [Socket -> Name \cup {NoName}]
           /\ toHub' \in [Socket -> Seq(Request)]
           /\ toPage' \in [Socket -> Seq(Reply)]
           /\ joined' \in [Socket -> SUBSET Room]
           /\ earlier' \in BOOLEAN
<1>1. <<>> \in Seq(Request) /\ <<>> \in Seq(Reply)
  OBVIOUS
<1> QED
  BY <1>1 DEF TypeOK, Gone

\* onclose keeps the types, whichever branch it takes.
LEMMA OnCloseType ==
    ASSUME TypeOK, NEW s \in Socket, OnClose(s)
    PROVE  /\ page' \in {"login", "chat", "wiped"}
           /\ attempts' \in 0..MaxReconnects
           /\ timers' \in Nat
           /\ store' \subseteq Room
BY BoundAssumption DEF TypeOK, OnClose, retryVars

\* A received reply keeps the type of the wire.
LEMMA ReceivesType ==
    ASSUME TypeOK, NEW s \in Socket, NEW type, Receives(s, type)
    PROVE  /\ toPage' \in [Socket -> Seq(Reply)]
           /\ Head(toPage[s]) \in Reply /\ Head(toPage[s]).type = type
<1>1. Head(toPage[s]) \in Reply /\ Tail(toPage[s]) \in Seq(Reply)
  BY NextOnWire DEF Receives
<1> QED
  BY <1>1 DEF Receives, TypeOK

\* Types are kept by the steps of a socket ...
LEMMA SocketStepType ==
    ASSUME NamedInv, NEW s \in Socket,
           \/ Page(s) \/ Hub(s) \/ Post(s) \/ Refused(s) \/ Lost(s) \/ Closed(s)
    PROVE  TypeOK'
<1> USE DEF pageVars, socketVars, retryVars, roomVars, storageVars, wireVars,
            historyVars, counters, closeFrame
<1>0. TypeOK
  BY DEF NamedInv
<1>1. CASE Opened(s)
  BY <1>0, <1>1, BoundAssumption DEF TypeOK, Opened
<1>2. CASE Joins(s)
  <2>1. user[s] \in Name
    BY <1>0, <1>2 DEF NamedInv, CallbackIsNamed, Joins, TypeOK
  <2>2. [type |-> "join", name |-> user[s]] \in Request
    BY <2>1 DEF Request
  <2>3. toHub' \in [Socket -> Seq(Request)]
    BY <1>0, <1>2, <2>2, SendsType DEF Joins
  <2> QED
    BY <1>0, <1>2, <2>3 DEF TypeOK, Joins
<1>3. CASE ReceiveSystem(s)
  <2> DEFINE room == Head(toPage[s]).room
  <2>1. room \in Room \cup {NoView} /\ toPage' \in [Socket -> Seq(Reply)]
    BY <1>0, <1>3, ReceivesType, ReplyRoom DEF ReceiveSystem
  <2>2. store' \subseteq Room
    BY <1>0, <1>3, <2>1 DEF ReceiveSystem, TypeOK
  <2>3. /\ toHub' \in [Socket -> Seq(Request)]
        /\ view' \in Room
        /\ savedView' \in Room \cup {NoView}
    <3>1. CASE ~restored /\ savedView \notin {NoView, General}
      <4>1. savedView \in Room
        BY <1>0, <3>1 DEF TypeOK
      <4> QED
        BY <1>0, <1>3, <3>1, <4>1, SwitchToType DEF ReceiveSystem
    <3>2. CASE ~(~restored /\ savedView \notin {NoView, General})
      BY <1>0, <1>3, <3>2 DEF ReceiveSystem, TypeOK
    <3> QED
      BY <3>1, <3>2
  <2> QED
    BY <1>0, <1>3, <2>1, <2>2, <2>3 DEF TypeOK, ReceiveSystem, Receives
<1>4. CASE ReceiveMessage(s)
  <2>1. Head(toPage[s]).room \in Room /\ toPage' \in [Socket -> Seq(Reply)]
    BY <1>0, <1>4, ReceivesType, ReplyRoom DEF ReceiveMessage
  <2> QED
    BY <1>0, <1>4, <2>1 DEF TypeOK, ReceiveMessage, Receives, Saves
<1>5. CASE ReceiveError(s)
  <2>1. toPage' \in [Socket -> Seq(Reply)]
    BY <1>0, <1>5, ReceivesType DEF ReceiveError
  <2> QED
    BY <1>0, <1>5, <2>1 DEF TypeOK, ReceiveError, Receives
<1>6. CASE HandleJoin(s)
  <2>1. toHub[s] # <<>>
    BY <1>6 DEF HandleJoin, Requests
  <2>2. General \in Room
    BY RoomAssumption
  <2>3. CASE Head(toHub[s]).name \in ValidName
    <3>1. Welcome(s, General, NoView) /\ joined' = [joined EXCEPT ![s] = @ \cup {General}]
      BY <1>6, <2>3 DEF HandleJoin
    <3> QED
      BY <1>0, <2>1, <2>2, <3>1, WelcomeType DEF TypeOK
  <2>4. CASE Head(toHub[s]).name \notin ValidName
    <3>1. <<Error>> \in Seq(Reply)
      BY DEF Error, Reply
    <3>2. Answers(s, <<Error>>) /\ UNCHANGED <<joined, events>>
      BY <1>6, <2>4 DEF HandleJoin
    <3>3. toHub' \in [Socket -> Seq(Request)] /\ toPage' \in [Socket -> Seq(Reply)]
      BY <1>0, <2>1, <3>1, <3>2, AnswersType
    <3> QED
      BY <1>0, <3>2, <3>3 DEF TypeOK, Answers
  <2> QED
    BY <2>3, <2>4
<1>7. CASE HandleJoinRoom(s)
  <2> DEFINE room == Head(toHub[s]).room
  <2>1. toHub[s] # <<>> /\ Head(toHub[s]).type = "join_room"
    BY <1>7 DEF HandleJoinRoom, Requests
  <2>2. room \in Room
    BY <1>0, <2>1, NextOnWire, RequestRoom
  <2>3. CASE Welcome(s, room, room) /\ joined' = [joined EXCEPT ![s] = @ \cup {room}]
    BY <1>0, <2>1, <2>2, <2>3, WelcomeType DEF TypeOK
  <2>4. CASE Answers(s, <<Error>>) /\ UNCHANGED <<joined, events>>
    <3>1. <<Error>> \in Seq(Reply)
      BY DEF Error, Reply
    <3>3. toHub' \in [Socket -> Seq(Request)] /\ toPage' \in [Socket -> Seq(Reply)]
      BY <1>0, <2>1, <2>4, <3>1, AnswersType
    <3> QED
      BY <1>0, <2>4, <3>3 DEF TypeOK, Answers
  <2> QED
    BY <1>7, <2>3, <2>4 DEF HandleJoinRoom
<1>8. CASE HandleLeaveRoom(s)
  <2>1. toHub[s] # <<>>
    BY <1>8 DEF HandleLeaveRoom, Requests
  <2>2. <<Error>> \in Seq(Reply) /\ <<>> \in Seq(Reply)
    BY DEF Error, Reply
  <2>3. PICK replies \in Seq(Reply) : Answers(s, replies)
    BY <1>8, <2>2 DEF HandleLeaveRoom
  <2>4. toHub' \in [Socket -> Seq(Request)] /\ toPage' \in [Socket -> Seq(Reply)]
    BY <1>0, <2>1, <2>3, AnswersType
  <2>5. joined' \in [Socket -> SUBSET Room]
    BY <1>0, <1>8 DEF HandleLeaveRoom, TypeOK
  <2> QED
    BY <1>0, <1>8, <2>3, <2>4, <2>5 DEF TypeOK, Answers, HandleLeaveRoom
<1>9. CASE Post(s)
  <2>1. PICK room \in joined[s] : toPage' = [toPage EXCEPT ![s] = Append(@, Message(room))]
    BY <1>9 DEF Post
  <2>2. room \in Room
    BY <1>0 DEF TypeOK
  <2>3. Message(room) \in Reply
    BY <2>2 DEF Message, Reply
  <2>4. toPage' \in [Socket -> Seq(Reply)]
    BY <1>0, <2>1, <2>3 DEF TypeOK
  <2>5. events' \in 0..MaxEvents
    BY <1>0, <1>9, BoundAssumption DEF Post, Counts, TypeOK
  <2> QED
    BY <1>0, <1>9, <2>4, <2>5 DEF TypeOK, Post
<1>10. CASE Refused(s)
  BY <1>0, <1>10, GoneType, OnCloseType DEF TypeOK, Refused
<1>11. CASE Lost(s)
  <2>1. losses' \in 0..MaxLosses
    BY <1>0, <1>11, BoundAssumption DEF TypeOK, Lost
  <2> QED
    BY <1>0, <1>11, <2>1, GoneType, OnCloseType DEF TypeOK, Lost
<1>12. CASE Closed(s)
  BY <1>0, <1>12, GoneType, OnCloseType DEF TypeOK, Closed
<1> QED
  BY <1>1, <1>2, <1>3, <1>4, <1>5, <1>6, <1>7, <1>8, <1>9, <1>10, <1>11, <1>12 DEF Page, Hub

\* ... and by what the user does.
LEMMA LoadType ==
    ASSUME TypeOK, NEW name \in Name \cup {NoName}, Load(name),
           savedStore' \subseteq Room, savedView' \in Room \cup {NoView},
           savedName' \in Name \cup {NoName}, savedKeys' \in BOOLEAN, earlier' \in BOOLEAN
    PROVE  TypeOK'
<1>1. 1 \in Socket /\ General \in Room
  BY BoundAssumption, RoomAssumption DEF Socket
<1>2. ws' \in Socket \cup {None}
  BY <1>1 DEF Load
<1>3. <<>> \in Seq(Request) /\ <<>> \in Seq(Reply)
  OBVIOUS
<1>4. events' \in 0..MaxEvents
  BY BoundAssumption DEF Load, Counts, TypeOK
<1>5. attempts' \in 0..MaxReconnects
  BY BoundAssumption DEF Load
<1> QED
  BY <1>1, <1>2, <1>3, <1>4, <1>5 DEF TypeOK, Load

\* What the user does keeps the types.
LEMMA UserStepType ==
    ASSUME NamedInv,
           \/ \E name \in Name : Submit(name)
           \/ \E room \in Room : SwitchToRoom(room)
           \/ LeaveRoom \/ Clear \/ Wipe \/ Reload \/ Logout \/ Timer
    PROVE  TypeOK'
<1> USE DEF pageVars, socketVars, retryVars, roomVars, storageVars, wireVars,
            historyVars, counters
<1>0. TypeOK /\ General \in Room
  BY RoomAssumption DEF NamedInv
<1>1. ASSUME NEW name \in Name, Submit(name)
      PROVE  TypeOK'
  BY <1>0, <1>1, ConnectType DEF TypeOK, Submit
<1>2. ASSUME NEW room \in Room, SwitchToRoom(room)
      PROVE  TypeOK'
  <2>1. events' \in 0..MaxEvents
    BY <1>0, <1>2, BoundAssumption DEF SwitchToRoom, UsesChat, Counts, TypeOK
  <2>2. /\ toHub' \in [Socket -> Seq(Request)]
        /\ view' \in Room
        /\ savedView' \in Room \cup {NoView}
    BY <1>0, <1>2, SwitchToType DEF SwitchToRoom
  <2> QED
    BY <1>0, <1>2, <2>1, <2>2 DEF TypeOK, SwitchToRoom, UsesChat
<1>3. CASE LeaveRoom
  <2>1. events' \in 0..MaxEvents
    BY <1>0, <1>3, BoundAssumption DEF LeaveRoom, UsesChat, Counts, TypeOK
  <2> DEFINE leave == [type |-> "leave_room", room |-> view]
             join  == [type |-> "join_room", room |-> General]
             sent  == IF General \in store THEN <<leave>> ELSE <<leave, join>>
  <2>2. leave \in Request /\ join \in Request
    BY <1>0 DEF Request, TypeOK
  <2>3. sent \in Seq(Request)
    BY <2>2
  <2>4. toHub' = IF ~CanSend THEN toHub ELSE [toHub EXCEPT ![ws] = @ \o sent]
    BY <1>3 DEF LeaveRoom
  <2>5. CanSend => ws \in Socket
    BY <1>0 DEF CanSend, TypeOK
  <2> HIDE DEF leave, join, sent
  <2>6. toHub' \in [Socket -> Seq(Request)]
    <3>1. CASE CanSend
      <4>1. toHub[ws] \o sent \in Seq(Request)
        BY <1>0, <2>3, <2>5, <3>1 DEF TypeOK
      <4> QED
        BY <1>0, <2>4, <2>5, <3>1, <4>1 DEF TypeOK
    <3>2. CASE ~CanSend
      BY <1>0, <2>4, <3>2 DEF TypeOK
    <3> QED
      BY <3>1, <3>2
  <2> QED
    BY <1>0, <1>3, <2>1, <2>6 DEF TypeOK, LeaveRoom, UsesChat
<1>4. CASE Clear
  <2>1. events' \in 0..MaxEvents
    BY <1>0, <1>4, BoundAssumption DEF Clear, UsesChat, Counts, TypeOK
  <2> QED
    BY <1>0, <1>4, <2>1 DEF TypeOK, Clear, UsesChat
<1>5. CASE Wipe
  BY <1>0, <1>5 DEF TypeOK, Wipe
<1>6. CASE Reload
  <2>1. savedName \in Name \cup {NoName}
    BY <1>0 DEF TypeOK
  <2> QED
    BY <1>0, <1>6, <2>1, LoadType DEF TypeOK, Reload
<1>7. CASE Logout
  BY <1>0, <1>7, LoadType DEF Logout
<1>8. CASE Timer
  <2>1. myUsername \in Name \cup {NoName} /\ timers \in Nat /\ timers' = timers - 1 /\ timers > 0
    BY <1>0, <1>8 DEF TypeOK, Timer
  <2>2. timers' \in Nat
    BY <2>1
  <2> QED
    BY <1>0, <1>8, <2>1, <2>2, ConnectType DEF TypeOK, Timer
<1> QED
  BY <1>1, <1>2, <1>3, <1>4, <1>5, <1>6, <1>7, <1>8

\* What connects has a name, and so does what will.
LEMMA NamesKept ==
    ASSUME NamedInv, Next, TypeOK'
    PROVE  PageIsNamed' /\ CallbackIsNamed'
<1> USE NameAssumption DEF pageVars, socketVars, retryVars, roomVars, storageVars, wireVars,
            historyVars, counters, closeFrame, NamedInv
<1>1. ASSUME NEW name \in Name, Submit(name)
      PROVE  PageIsNamed' /\ CallbackIsNamed'
  BY <1>1 DEF Submit, Connect, PageIsNamed, CallbackIsNamed, TypeOK
<1>2. CASE Timer
  <2>1. timers > 0 /\ myUsername # NoName /\ Connect(myUsername) /\ UNCHANGED myUsername
    BY <1>2 DEF Timer, PageIsNamed
  <2> QED
    BY <2>1 DEF Connect, PageIsNamed, CallbackIsNamed, TypeOK
<1>3. ASSUME NEW s \in Socket, Opened(s) \/ Joins(s)
      PROVE  PageIsNamed' /\ CallbackIsNamed'
  BY <1>3 DEF Opened, Joins, PageIsNamed, CallbackIsNamed, TypeOK, Alive
<1>4. ASSUME NEW s \in Socket, Refused(s) \/ Lost(s) \/ Closed(s)
      PROVE  PageIsNamed' /\ CallbackIsNamed'
  <2>1. /\ UNCHANGED <<myUsername, opening>>
        /\ Gone(s) /\ OnClose(s) /\ status[s] # "none"
    BY <1>4 DEF Refused, Lost, Closed
  <2>2. PageIsNamed'
    BY <2>1 DEF Gone, OnClose, PageIsNamed, Alive, TypeOK
  <2>3. CallbackIsNamed'
    BY <2>1 DEF Gone, CallbackIsNamed, TypeOK
  <2> QED
    BY <2>2, <2>3
<1>5. CASE Wipe
  BY <1>5 DEF Wipe, PageIsNamed, CallbackIsNamed, Alive, TypeOK
<1>6. CASE Reload \/ Logout
  <2>1. PICK name : Load(name)
    BY <1>6 DEF Reload, Logout
  <2> QED
    BY <2>1 DEF Load, PageIsNamed, CallbackIsNamed, Alive, None, Socket, TypeOK
<1>7. CASE UNCHANGED <<myUsername, status, timers, user, opening>>
  BY <1>7 DEF PageIsNamed, CallbackIsNamed, Alive
<1>8. ASSUME NEW s \in Socket,
             ReceiveSystem(s) \/ ReceiveMessage(s) \/ ReceiveError(s) \/ Hub(s) \/ Post(s)
      PROVE  UNCHANGED <<myUsername, status, timers, user, opening>>
  BY <1>8 DEF ReceiveSystem, ReceiveMessage, ReceiveError, Receives, Hub, HandleJoin,
              HandleJoinRoom, HandleLeaveRoom, Welcome, Answers, Post
<1>9. ASSUME (\E room \in Room : SwitchToRoom(room)) \/ LeaveRoom \/ Clear
      PROVE  UNCHANGED <<myUsername, status, timers, user, opening>>
  BY <1>9 DEF SwitchToRoom, LeaveRoom, Clear, UsesChat
<1> QED
  BY <1>1, <1>2, <1>3, <1>4, <1>5, <1>6, <1>7, <1>8, <1>9 DEF Next, Page

\* Types, and the names of whoever connects, for any bounds.
THEOREM NamesInvariant == Spec => []NamedInv
<1>1. Init => NamedInv
  <2>1. Init => TypeOK
    <3>1. <<>> \in Seq(Request) /\ <<>> \in Seq(Reply)
      OBVIOUS
    <3>2. 0 \in 0..MaxReconnects /\ 0 \in 0..MaxLosses /\ 0 \in 0..MaxEvents
      BY BoundAssumption
    <3>3. Init => /\ toHub \in [Socket -> Seq(Request)]
                  /\ toPage \in [Socket -> Seq(Reply)]
      BY <3>1 DEF Init
    <3>4. Init => /\ status \in [Socket -> {"none", "connecting", "open", "closing"}]
                  /\ user \in [Socket -> Name \cup {NoName}]
                  /\ opening \in [Socket -> BOOLEAN]
                  /\ joined \in [Socket -> SUBSET Room]
      BY DEF Init
    <3>5. Init => attempts = 0 /\ timers = 0 /\ submits = 0 /\ losses = 0 /\ events = 0
      BY DEF Init
    <3>6. Init => /\ page \in {"login", "chat", "wiped"}
                  /\ myUsername \in Name \cup {NoName} /\ restored \in BOOLEAN
                  /\ ws \in Socket \cup {None} /\ store \subseteq Room /\ view \in Room
                  /\ savedName \in Name \cup {NoName} /\ savedView \in Room \cup {NoView}
                  /\ savedStore \subseteq Room /\ savedKeys \in BOOLEAN
                  /\ earlier \in BOOLEAN /\ left \subseteq Room
      BY RoomAssumption DEF Init
    <3> QED
      BY <3>2, <3>3, <3>4, <3>5, <3>6 DEF TypeOK
  <2> QED
    BY <2>1 DEF Init, NamedInv, PageIsNamed, CallbackIsNamed, Alive
<1>2. NamedInv /\ [Next]_vars => NamedInv'
  <2> SUFFICES ASSUME NamedInv, [Next]_vars
               PROVE  NamedInv'
    OBVIOUS
  <2>1. CASE Next
    <3>1. TypeOK'
      BY <2>1, SocketStepType, UserStepType DEF Next
    <3> QED
      BY <2>1, <3>1, NamesKept DEF NamedInv
  <2>2. CASE UNCHANGED vars
    BY <2>2 DEF NamedInv, TypeOK, PageIsNamed, CallbackIsNamed, Alive, vars, pageVars,
                socketVars, retryVars, roomVars, storageVars, wireVars, historyVars, counters
  <2> QED
    BY <2>1, <2>2
<1> QED
  BY <1>1, <1>2, PTL DEF Spec

\* The variables of a page keep their types.
THEOREM TypeCorrect == Spec => []TypeOK
BY NamesInvariant, PTL DEF NamedInv

(***************************************************************************)
(* The properties                                                          *)
(***************************************************************************)

\* The page that shows the chat is left alone by no step.
LEMMA StrandedKept ==
    ASSUME NamedInv, NeverStranded, Next
    PROVE  NeverStranded'
<1> USE DEF pageVars, socketVars, retryVars, roomVars, storageVars, wireVars,
            historyVars, counters, closeFrame, NamedInv
<1>1. ASSUME NEW name, Connect(name)
      PROVE  NeverStranded'
  BY <1>1 DEF Connect, NeverStranded, Alive, TypeOK
<1>2. ASSUME NEW s \in Socket, Opened(s) \/ Joins(s)
      PROVE  NeverStranded'
  BY <1>2 DEF Opened, Joins, NeverStranded, Alive, TypeOK
<1>3. ASSUME NEW s \in Socket, Refused(s) \/ Lost(s) \/ Closed(s)
      PROVE  NeverStranded'
  BY <1>3 DEF Refused, Lost, Closed, OnClose, NeverStranded, TypeOK
<1>4. ASSUME NEW s \in Socket, ReceiveSystem(s)
      PROVE  NeverStranded'
  BY <1>4 DEF ReceiveSystem, Receives, NeverStranded, Alive
<1>5. CASE Wipe \/ Reload \/ Logout
  BY <1>5 DEF Wipe, Reload, Logout, Load, NeverStranded
<1>6. CASE UNCHANGED <<page, status, timers>>
  BY <1>6 DEF NeverStranded, Alive
<1>7. ASSUME NEW s \in Socket, ReceiveMessage(s) \/ ReceiveError(s) \/ Hub(s) \/ Post(s)
      PROVE  UNCHANGED <<page, status, timers>>
  BY <1>7 DEF ReceiveMessage, ReceiveError, Receives, Hub, HandleJoin, HandleJoinRoom,
              HandleLeaveRoom, Welcome, Answers, Post
<1>8. ASSUME (\E room \in Room : SwitchToRoom(room)) \/ LeaveRoom \/ Clear
      PROVE  UNCHANGED <<page, status, timers>>
  BY <1>8 DEF SwitchToRoom, LeaveRoom, Clear, UsesChat
<1> QED
  BY <1>1, <1>2, <1>3, <1>4, <1>5, <1>6, <1>7, <1>8 DEF Next, Page, Submit, Timer

\* A page that shows the chat has a connection, makes one, or has a timer that
\* will, for any bounds.
THEOREM NeverStrandedHolds == Spec => []NeverStranded
<1>1. Init => NeverStranded
  BY DEF Init, NeverStranded
<1>2. NamedInv /\ NeverStranded /\ [Next]_vars => NeverStranded'
  <2>1. NamedInv /\ NeverStranded /\ Next => NeverStranded'
    BY StrandedKept
  <2>2. NeverStranded /\ UNCHANGED vars => NeverStranded'
    BY DEF NeverStranded, Alive, vars, pageVars, socketVars, retryVars
  <2> QED
    BY <2>1, <2>2
<1> QED
  BY <1>1, <1>2, NamesInvariant, PTL DEF Spec

\* The sockets of a page are finitely many.
LEMMA AliveIsFinite == IsFiniteSet(Alive) /\ Cardinality(Alive) \in Nat
<1>1. IsFiniteSet(Socket)
  BY FS_Interval, BoundAssumption DEF Socket
<1> QED
  BY <1>1, FS_Subset, FS_CardinalityType DEF Alive

\* A socket more, or less.
LEMMA OneMore ==
    ASSUME TypeOK, NEW name, Connect(name)
    PROVE  Cardinality(Alive') = Cardinality(Alive) + 1
<1>1. PICK s \in Socket \ Alive : status' = [status EXCEPT ![s] = "connecting"]
  BY DEF Connect
<1>2. Alive' = Alive \cup {s}
  BY <1>1 DEF Alive, TypeOK
<1> QED
  BY <1>1, <1>2, AliveIsFinite, FS_AddElement

\* A socket that goes leaves one fewer alive.
LEMMA OneLess ==
    ASSUME TypeOK, NEW s \in Socket, status[s] # "none", Gone(s)
    PROVE  Cardinality(Alive') = Cardinality(Alive) - 1
<1>1. Alive' = Alive \ {s} /\ s \in Alive
  BY DEF Gone, Alive, TypeOK
<1> QED
  BY <1>1, AliveIsFinite, FS_RemoveElement

\* No step makes a connection that no login stands for.
LEMMA ConservedKept ==
    ASSUME NamedInv, ConnectionsConserved, Next
    PROVE  ConnectionsConserved'
<1> USE DEF pageVars, socketVars, retryVars, roomVars, storageVars, wireVars,
            historyVars, counters, closeFrame, NamedInv
<1>0. /\ Cardinality(Alive) \in Nat /\ timers \in Nat /\ submits \in Nat
      /\ Cardinality(Alive) + timers <= submits
  BY AliveIsFinite DEF TypeOK, ConnectionsConserved
<1>1. ASSUME NEW name \in Name, Submit(name)
      PROVE  ConnectionsConserved'
  <2>1. /\ Cardinality(Alive') = Cardinality(Alive) + 1
        /\ timers' = timers /\ submits' = submits + 1
    BY <1>1, OneMore DEF Submit
  <2> QED
    BY <1>0, <2>1 DEF ConnectionsConserved
<1>2. CASE Timer
  <2>1. /\ Cardinality(Alive') = Cardinality(Alive) + 1
        /\ timers' = timers - 1 /\ submits' = submits
    BY <1>2, OneMore DEF Timer
  <2> QED
    BY <1>0, <2>1 DEF ConnectionsConserved
<1>3. ASSUME NEW s \in Socket, Refused(s) \/ Lost(s) \/ Closed(s)
      PROVE  ConnectionsConserved'
  <2>1. status[s] # "none" /\ Gone(s) /\ OnClose(s) /\ submits' = submits
    BY <1>3 DEF Refused, Lost, Closed
  <2>2. Cardinality(Alive') = Cardinality(Alive) - 1
    BY <2>1, OneLess
  <2>3. timers' \in {timers, timers + 1}
    BY <2>1 DEF OnClose
  <2> QED
    BY <1>0, <2>1, <2>2, <2>3 DEF ConnectionsConserved
<1>4. CASE Alive' = Alive /\ UNCHANGED <<timers, submits>>
  BY <1>4 DEF ConnectionsConserved
<1>5. ASSUME NEW s \in Socket, Opened(s) \/ Joins(s)
      PROVE  Alive' = Alive /\ UNCHANGED <<timers, submits>>
  BY <1>5 DEF Opened, Joins, Alive, TypeOK
<1>6. CASE Wipe
  BY <1>4, <1>6 DEF Wipe, Alive, TypeOK
<1>7. CASE Reload \/ Logout
  <2>1. PICK name : Load(name)
    BY <1>7 DEF Reload, Logout
  <2>2. CASE name = NoName
    <3>1. Alive' = {}
      BY <2>1, <2>2 DEF Load, Alive, None, Socket
    <3>2. timers' = 0 /\ submits' = 0
      BY <2>1, <2>2 DEF Load
    <3> QED
      BY <3>1, <3>2, FS_EmptySet DEF ConnectionsConserved
  <2>3. CASE name # NoName
    <3>1. Alive' = {1}
      BY <2>1, <2>3, BoundAssumption DEF Load, Alive, Socket
    <3>2. timers' = 0 /\ submits' = 1
      BY <2>1, <2>3 DEF Load
    <3> QED
      BY <3>1, <3>2, FS_Singleton DEF ConnectionsConserved
  <2> QED
    BY <2>2, <2>3
<1>8. ASSUME NEW s \in Socket,
             ReceiveSystem(s) \/ ReceiveMessage(s) \/ ReceiveError(s) \/ Hub(s) \/ Post(s)
      PROVE  UNCHANGED <<status, timers, submits>>
  BY <1>8 DEF ReceiveSystem, ReceiveMessage, ReceiveError, Receives, Hub, HandleJoin,
              HandleJoinRoom, HandleLeaveRoom, Welcome, Answers, Post
<1>9. ASSUME (\E room \in Room : SwitchToRoom(room)) \/ LeaveRoom \/ Clear
      PROVE  UNCHANGED <<status, timers, submits>>
  BY <1>9 DEF SwitchToRoom, LeaveRoom, Clear, UsesChat
<1>10. CASE UNCHANGED <<status, timers, submits>>
  BY <1>4, <1>10 DEF Alive
<1> QED
  BY <1>1, <1>2, <1>3, <1>4, <1>5, <1>6, <1>7, <1>8, <1>9, <1>10 DEF Next, Page

\* The sockets of a page, and its timers, are no more than its logins, for any bounds.
THEOREM ConnectionsConservedHolds == Spec => []ConnectionsConserved
<1>1. Init => ConnectionsConserved
  <2>1. Init => Alive = {} /\ timers = 0 /\ submits = 0
    BY DEF Init, Alive
  <2> QED
    BY <2>1, FS_EmptySet DEF ConnectionsConserved
<1>2. NamedInv /\ ConnectionsConserved /\ [Next]_vars => ConnectionsConserved'
  <2>1. NamedInv /\ ConnectionsConserved /\ Next => ConnectionsConserved'
    BY ConservedKept
  <2>2. ConnectionsConserved /\ UNCHANGED vars => ConnectionsConserved'
    BY DEF ConnectionsConserved, Alive, vars, socketVars, retryVars, historyVars
  <2> QED
    BY <2>1, <2>2
<1> QED
  BY <1>1, <1>2, NamesInvariant, PTL DEF Spec

(***************************************************************************)
(* The first connection                                                    *)
(***************************************************************************)

\* What is on a wire
On(wire) == {wire[i] : i \in 1..Len(wire)}

\* A socket that nothing came from.
Untouched(s) ==
    /\ status[s] = "none" /\ ~opening[s]
    /\ toHub[s] = <<>> /\ toPage[s] = <<>> /\ joined[s] = {}

\* The socket that is ws, if any, is the only one there was.
OnlySocket ==
    /\ submits = 0 => ws = None
    /\ ws = None => page = "login" /\ store = {}
    /\ timers = 0
    /\ \A s \in Socket \ {ws} : Untouched(s)

\* Before the welcome nothing but a login is on its way.
BeforeWelcome ==
    /\ view = General /\ savedView = NoView /\ left = {}
    /\ ws # None => \A r \in On(toHub[ws]) : r.type = "join"

AfterWelcome == restored /\ status[ws] = "open" /\ General \in joined[ws]

\* The hub has ws in the room, or will when it comes to the request.
In(room) ==
    \/ room \in joined[ws]
    \/ [type |-> "join_room", room |-> room] \in On(toHub[ws])

\* Rooms the page has to do with, now or when it comes to what is on its way
Concerns(room) ==
    \/ page = "chat" /\ room = view
    \/ room \in store
    \/ System(room) \in On(toPage[ws])
    \/ Message(room) \in On(toPage[ws])

\* The page has to do with rooms it is in or left, and the hub has whoever it
\* has in a room in #general, too.
RoomsAreIn ==
    /\ General \notin left
    /\ joined[ws] # {} => General \in joined[ws]
    /\ System(NoView) \in On(toPage[ws]) => General \in joined[ws]
    /\ \A room \in Room : [type |-> "leave_room", room |-> room] \in On(toHub[ws]) => room \in left
    /\ \A room \in Room \ left : Concerns(room) => In(room)

OneConnection ==
    /\ OnlySocket
    /\ page = "login" => BeforeWelcome
    /\ page = "chat" => AfterWelcome
    /\ ws # None => RoomsAreIn

\* So it is on the first connection of a tab, until it is wiped.
FirstConnection == ~earlier /\ page # "wiped" => OneConnection

\* Nothing is on the empty wire.
LEMMA OnNone == On(<<>>) = {}
BY DEF On

\* What is on a wire one longer: the last, or what was on it.
LEMMA OnAppend ==
    ASSUME NEW S, NEW q \in Seq(S), NEW e
    PROVE  On(Append(q, e)) = On(q) \cup {e}
<1>1. /\ Len(Append(q, e)) = Len(q) + 1 /\ Len(q) \in Nat
      /\ Append(q, e)[Len(q) + 1] = e
      /\ \A i \in 1..Len(q) : Append(q, e)[i] = q[i]
  OBVIOUS
<1>2. 1..(Len(q) + 1) = 1..Len(q) \cup {Len(q) + 1}
  BY <1>1
<1> QED
  BY <1>1, <1>2 DEF On

\* What is on two wires put together is on one of them.
LEMMA OnConcat ==
    ASSUME NEW S, NEW q \in Seq(S), NEW r \in Seq(S)
    PROVE  On(q \o r) = On(q) \cup On(r)
<1>1. /\ Len(q \o r) = Len(q) + Len(r) /\ Len(q) \in Nat /\ Len(r) \in Nat
      /\ \A i \in 1..Len(q) : (q \o r)[i] = q[i]
      /\ \A i \in 1..Len(r) : (q \o r)[Len(q) + i] = r[i]
  OBVIOUS
<1>2. \A k \in 1..(Len(q) + Len(r)) :
         k \in 1..Len(q) \/ (k - Len(q) \in 1..Len(r) /\ k = Len(q) + (k - Len(q)))
  BY <1>1
<1>3. On(q \o r) \subseteq On(q) \cup On(r)
  BY <1>1, <1>2 DEF On
<1>4. On(q) \subseteq On(q \o r)
  BY <1>1 DEF On
<1>5. On(r) \subseteq On(q \o r)
  <2>1. \A i \in 1..Len(r) : Len(q) + i \in 1..Len(q \o r)
    BY <1>1
  <2> QED
    BY <1>1, <2>1 DEF On
<1> QED
  BY <1>3, <1>4, <1>5

\* What is on a wire after its first was taken was on it.
LEMMA OnTail ==
    ASSUME NEW S, NEW q \in Seq(S), q # <<>>
    PROVE  On(q) = {Head(q)} \cup On(Tail(q))
<1>1. /\ Len(q) \in Nat \ {0} /\ Len(Tail(q)) = Len(q) - 1 /\ Head(q) = q[1]
      /\ \A i \in 1..Len(Tail(q)) : Tail(q)[i] = q[i + 1]
  OBVIOUS
<1>2. \A i \in 1..Len(q) : i = 1 \/ i - 1 \in 1..Len(Tail(q))
  BY <1>1
<1>3. On(q) \subseteq {Head(q)} \cup On(Tail(q))
  <2> SUFFICES ASSUME NEW i \in 1..Len(q) PROVE q[i] \in {Head(q)} \cup On(Tail(q))
    BY DEF On
  <2>1. CASE i = 1
    BY <1>1, <2>1
  <2>2. CASE i - 1 \in 1..Len(Tail(q))
    <3>1. Tail(q)[i - 1] = q[i]
      BY <1>1, <2>2
    <3> QED
      BY <2>2, <3>1 DEF On
  <2> QED
    BY <1>2, <2>1, <2>2
<1>4. {Head(q)} \cup On(Tail(q)) \subseteq On(q)
  <2>1. 1 \in 1..Len(q) /\ \A i \in 1..Len(Tail(q)) : i + 1 \in 1..Len(q)
    BY <1>1
  <2> QED
    BY <1>1, <2>1 DEF On
<1> QED
  BY <1>3, <1>4

\* What is on a wire of one or two.
LEMMA OnFew ==
    ASSUME NEW a, NEW b
    PROVE  On(<<a>>) = {a} /\ On(<<a, b>>) = {a, b}
<1>1. Len(<<a>>) = 1 /\ <<a>>[1] = a /\ Len(<<a, b>>) = 2 /\ <<a, b>>[1] = a /\ <<a, b>>[2] = b
  OBVIOUS
<1>2. 1..1 = {1} /\ 1..2 = {1, 2}
  OBVIOUS
<1> QED
  BY <1>1, <1>2 DEF On

\* Replies and requests are told apart by their types.
LEMMA WireFacts ==
    /\ \A r \in Reply : /\ r.type = "system" => r = System(r.room)
                        /\ r.type = "message" => r = Message(r.room)
    /\ \A a, b : System(a) # Message(b) /\ Error # System(a) /\ Error # Message(a)
    /\ \A a, b : /\ System(a) = System(b) => a = b
                 /\ Message(a) = Message(b) => a = b
    /\ \A r \in Request : r.type \in {"join_room", "leave_room"} =>
                              r = [type |-> r.type, room |-> r.room] /\ r.room \in Room
<1>1. \A r \in Reply : /\ r.type = "system" => r = System(r.room)
                       /\ r.type = "message" => r = Message(r.room)
  BY DEF Reply, System, Message
<1>2. \A a, b : System(a) # Message(b) /\ Error # System(a) /\ Error # Message(a)
  <2> TAKE a, b
  <2>1. System(a).type = "system" /\ Message(b).type = "message" /\ Message(a).type = "message"
        /\ Error.type = "error"
    BY DEF System, Message, Error
  <2> QED
    BY <2>1
<1>3. \A a, b : /\ System(a) = System(b) => a = b
                /\ Message(a) = Message(b) => a = b
  <2> TAKE a, b
  <2>1. System(a).room = a /\ System(b).room = b /\ Message(a).room = a /\ Message(b).room = b
    BY DEF System, Message
  <2> QED
    BY <2>1
<1>4. \A r \in Request : r.type \in {"join_room", "leave_room"} =>
                            r = [type |-> r.type, room |-> r.room] /\ r.room \in Room
  BY DEF Request
<1> QED
  BY <1>1, <1>2, <1>3, <1>4

\* Steps of the only socket leave the others untouched.
LEMMA OnlyThis ==
    ASSUME OnlySocket, NEW s \in Socket, ~Untouched(s)
    PROVE  s = ws /\ ws # None
<1>1. s = ws
  BY DEF OnlySocket
<1> QED
  BY <1>1 DEF Socket, None

\* What happens on the wires of the page's socket leaves the others as they were.
LEMMA StillOnly ==
    ASSUME OnlySocket, ws \in Socket, UNCHANGED <<ws, timers, submits>>,
           \A s \in Socket \ {ws} :
               /\ status'[s] = status[s] /\ opening'[s] = opening[s]
               /\ toHub'[s] = toHub[s] /\ toPage'[s] = toPage[s] /\ joined'[s] = joined[s]
    PROVE  OnlySocket'
<1>1. ws # None
  BY DEF Socket, None
<1>2. \A s \in Socket \ {ws} : Untouched(s)'
  BY DEF OnlySocket, Untouched
<1> QED
  BY <1>1, <1>2 DEF OnlySocket

\* What a step may do to the rooms.
LEMMA StillIn ==
    ASSUME RoomsAreIn, UNCHANGED ws, left \subseteq left', General \notin left',
           General \in joined[ws] => General \in joined'[ws],
           joined'[ws] # joined[ws] => General \in joined'[ws],
           System(NoView) \in On(toPage'[ws]) =>
               System(NoView) \in On(toPage[ws]) \/ General \in joined'[ws],
           \A room \in Room : [type |-> "leave_room", room |-> room] \in On(toHub'[ws]) =>
               [type |-> "leave_room", room |-> room] \in On(toHub[ws]) \/ room \in left',
           \A room \in Room \ left' : In(room) => In(room)',
           \A room \in Room \ left' : Concerns(room)' => Concerns(room) \/ In(room)'
    PROVE  RoomsAreIn'
<1>1. General \notin left'
  OBVIOUS
<1>2. joined'[ws] # {} => General \in joined'[ws]
  BY DEF RoomsAreIn
<1>3. System(NoView) \in On(toPage'[ws]) => General \in joined'[ws]
  BY DEF RoomsAreIn
<1>4. \A room \in Room : [type |-> "leave_room", room |-> room] \in On(toHub'[ws]) => room \in left'
  BY DEF RoomsAreIn
<1>5. \A room \in Room \ left' : Concerns(room)' => In(room)'
  BY DEF RoomsAreIn
<1> QED
  BY <1>1, <1>2, <1>3, <1>4, <1>5 DEF RoomsAreIn

\* The page's end of the only connection
LEMMA OnePage ==
    ASSUME TypeOK, OneConnection, page # "wiped", NEW s \in Socket, Page(s)
    PROVE  OneConnection'
<1> USE DEF pageVars, socketVars, retryVars, roomVars, storageVars, wireVars,
            historyVars, counters
<1>1. ~Untouched(s)
  BY DEF Page, Opened, Joins, ReceiveSystem, ReceiveMessage, ReceiveError, Receives, Untouched
<1>2. s = ws /\ ws \in Socket /\ ws # None /\ RoomsAreIn
  BY <1>1, OnlyThis DEF OneConnection
<1>3. /\ ws' = ws /\ timers' = timers /\ submits' = submits /\ left' = left /\ joined' = joined
  BY DEF Page, Opened, Joins, ReceiveSystem, ReceiveMessage, ReceiveError, Receives
<1>4. toHub[ws] \in Seq(Request) /\ toPage[ws] \in Seq(Reply)
  BY <1>2 DEF TypeOK
<1>5. General \notin left
  BY <1>2 DEF RoomsAreIn
<1>6. CASE Opened(s)
  <2>1. /\ UNCHANGED <<page, view, savedView, restored, store, toHub, toPage>>
        /\ status[ws] = "connecting"
        /\ status' = [status EXCEPT ![ws] = "open"] /\ opening' = [opening EXCEPT ![ws] = TRUE]
    BY <1>2, <1>6 DEF Opened
  <2>2. OnlySocket'
    BY <1>2, <1>3, <2>1, StillOnly DEF OneConnection, TypeOK
  <2>3. RoomsAreIn'
    BY <1>2, <1>3, <2>1 DEF RoomsAreIn, Concerns, In
  <2>4. page = "login"
    BY <2>1 DEF OneConnection, AfterWelcome, TypeOK
  <2> QED
    BY <1>3, <2>1, <2>2, <2>3, <2>4 DEF OneConnection, BeforeWelcome
<1>7. CASE Joins(s)
  <2> DEFINE join == [type |-> "join", name |-> user[s]]
  <2>1. /\ UNCHANGED <<page, view, savedView, restored, status, store, toPage>>
        /\ opening' = [opening EXCEPT ![ws] = FALSE] /\ Sends(join)
    BY <1>2, <1>7 DEF Joins
  <2>2. join.type = "join" /\ \A room : /\ join # [type |-> "leave_room", room |-> room]
                                        /\ join # [type |-> "join_room", room |-> room]
    OBVIOUS
  <2> HIDE DEF join
  <2>3. \A x \in Socket \ {ws} : toHub'[x] = toHub[x]
    BY <1>2, <2>1 DEF Sends, TypeOK
  <2>4. On(toHub[ws]) \subseteq On(toHub'[ws]) /\ On(toHub'[ws]) \subseteq On(toHub[ws]) \cup {join}
    <3>1. toHub'[ws] = toHub[ws] \/ toHub'[ws] = Append(toHub[ws], join)
      BY <1>2, <2>1 DEF Sends, TypeOK
    <3>2. On(Append(toHub[ws], join)) = On(toHub[ws]) \cup {join}
      BY <1>4, OnAppend
    <3> QED
      BY <3>1, <3>2
  <2>5. OnlySocket'
    BY <1>2, <1>3, <2>1, <2>3, StillOnly DEF OneConnection, TypeOK
  <2>6. RoomsAreIn'
    <3>1. \A room : /\ In(room) => In(room)'
                    /\ Concerns(room)' => Concerns(room)
      BY <1>3, <2>1, <2>4 DEF In, Concerns
    <3> QED
      BY <1>2, <1>3, <1>5, <2>1, <2>2, <2>4, <3>1, StillIn
  <2>7. page = "login" => BeforeWelcome'
    BY <1>3, <2>1, <2>2, <2>4 DEF OneConnection, BeforeWelcome
  <2>8. page = "chat" => AfterWelcome'
    BY <1>3, <2>1 DEF OneConnection, AfterWelcome
  <2> QED
    BY <2>1, <2>5, <2>6, <2>7, <2>8 DEF OneConnection
<1>8. ASSUME ReceiveSystem(s) \/ ReceiveMessage(s) \/ ReceiveError(s)
      PROVE  /\ UNCHANGED <<status, opening>> /\ status[ws] = "open"
             /\ toPage[ws] # <<>> /\ Head(toPage[ws]) \in On(toPage[ws])
             /\ Head(toPage[ws]) \in Reply
             /\ toPage' = [toPage EXCEPT ![ws] = Tail(@)]
             /\ On(toPage'[ws]) \subseteq On(toPage[ws])
  <2>1. /\ UNCHANGED <<status, opening>> /\ status[ws] = "open" /\ toPage[ws] # <<>>
        /\ toPage' = [toPage EXCEPT ![ws] = Tail(@)]
    BY <1>2, <1>8 DEF ReceiveSystem, ReceiveMessage, ReceiveError, Receives
  <2>2. On(toPage[ws]) = {Head(toPage[ws])} \cup On(Tail(toPage[ws])) /\ Head(toPage[ws]) \in Reply
    BY <1>4, <2>1, OnTail
  <2>3. toPage'[ws] = Tail(toPage[ws])
    BY <1>2, <2>1 DEF TypeOK
  <2> QED
    BY <2>1, <2>2, <2>3
<1>9. CASE ReceiveSystem(s)
  <2> DEFINE room == Head(toPage[ws]).room
  <2>1. /\ Head(toPage[ws]) = System(room) /\ System(room) \in On(toPage[ws])
        /\ room \in Room \cup {NoView}
    <3>1. Head(toPage[ws]).type = "system"
      BY <1>2, <1>9 DEF ReceiveSystem, Receives
    <3> QED
      BY <1>8, <1>9, <3>1, WireFacts, ReplyRoom
  <2>2. /\ page' = "chat" /\ restored' = TRUE
        /\ store' = store \cup {IF room = NoView THEN view ELSE room}
    BY <1>2, <1>9 DEF ReceiveSystem
  <2>3. page \in {"login", "chat"}
    BY DEF TypeOK
  <2>4. restored \/ savedView \in {NoView, General}
    BY <2>3 DEF OneConnection, BeforeWelcome, AfterWelcome
  <2>5. UNCHANGED <<view, savedView, toHub>>
    BY <1>9, <2>4 DEF ReceiveSystem
  <2> HIDE DEF room
  <2>6. General \in joined[ws]
    <3>1. CASE page = "chat"
      BY <3>1 DEF OneConnection, AfterWelcome
    <3>2. CASE page = "login" /\ room = NoView
      BY <1>2, <2>1, <3>2 DEF RoomsAreIn
    <3>3. CASE page = "login" /\ room \in Room
      <4>1. left = {} /\ \A r \in On(toHub[ws]) : r.type = "join"
        BY <1>2, <3>3 DEF OneConnection, BeforeWelcome
      <4>2. In(room)
        BY <1>2, <2>1, <3>3, <4>1 DEF RoomsAreIn, Concerns
      <4>3. room \in joined[ws]
        BY <4>1, <4>2 DEF In
      <4> QED
        BY <1>2, <4>3 DEF RoomsAreIn
    <3> QED
      BY <2>1, <2>3, <3>1, <3>2, <3>3
  <2>7. page = "login" => view = General
    BY DEF OneConnection, BeforeWelcome
  <2>8. AfterWelcome'
    BY <1>3, <1>8, <1>9, <2>2, <2>6 DEF AfterWelcome
  <2>9. OnlySocket'
    BY <1>2, <1>3, <1>8, <1>9, <2>5, StillOnly DEF OneConnection, TypeOK
  <2>10. RoomsAreIn'
    <3>1. \A r : In(r) => In(r)'
      BY <1>3, <2>5 DEF In
    <3>2. In(General)'
      BY <1>3, <2>6 DEF In
    <3>3. \A r \in Room : Concerns(r)' => Concerns(r) \/ In(r)'
      <4> SUFFICES ASSUME NEW r \in Room, Concerns(r)', ~Concerns(r) PROVE In(r)'
        OBVIOUS
      <4>1. CASE r = view
        BY <2>3, <2>7, <3>2, <4>1 DEF Concerns
      <4>2. CASE r # view
        BY <1>3, <1>8, <1>9, <2>1, <2>2, <2>5, <4>2 DEF Concerns
      <4> QED
        BY <4>1, <4>2
    <3> QED
      BY <1>2, <1>3, <1>5, <1>8, <1>9, <2>5, <3>1, <3>3, StillIn
  <2> QED
    BY <2>2, <2>8, <2>9, <2>10 DEF OneConnection
<1>10. CASE ReceiveMessage(s) \/ ReceiveError(s)
  <2>1. UNCHANGED <<page, restored, view, savedView, toHub>>
    BY <1>10 DEF ReceiveMessage, ReceiveError
  <2>2. OnlySocket'
    BY <1>2, <1>3, <1>8, <1>10, <2>1, StillOnly DEF OneConnection, TypeOK
  <2>3. \A r \in store' : Concerns(r)
    <3>1. CASE ReceiveMessage(s)
      <4>1. /\ Head(toPage[ws]).type = "message"
            /\ store' = store \cup {Head(toPage[ws]).room}
        BY <1>2, <3>1 DEF ReceiveMessage, Receives
      <4>2. Message(Head(toPage[ws]).room) \in On(toPage[ws])
        BY <1>8, <1>10, <4>1, WireFacts
      <4> QED
        BY <4>1, <4>2 DEF Concerns
    <3>2. CASE ReceiveError(s)
      <4>1. store' = IF page = "login" THEN store ELSE store \cup {view}
        BY <3>2 DEF ReceiveError
      <4>2. page = "login" \/ page = "chat"
        BY DEF TypeOK
      <4> QED
        BY <4>1, <4>2 DEF Concerns
    <3> QED
      BY <1>10, <3>1, <3>2
  <2>4. RoomsAreIn'
    <3>1. \A r : In(r) => In(r)'
      BY <1>3, <2>1 DEF In
    <3>2. \A r : Concerns(r)' => Concerns(r)
      BY <1>3, <1>8, <1>10, <2>1, <2>3 DEF Concerns
    <3> QED
      BY <1>2, <1>3, <1>5, <1>8, <1>10, <2>1, <3>1, <3>2, StillIn
  <2>5. page = "login" => BeforeWelcome'
    BY <1>3, <2>1 DEF OneConnection, BeforeWelcome
  <2>6. page = "chat" => AfterWelcome'
    BY <1>3, <1>8, <1>10, <2>1 DEF OneConnection, AfterWelcome
  <2> QED
    BY <2>1, <2>2, <2>4, <2>5, <2>6 DEF OneConnection
<1> QED
  BY <1>6, <1>7, <1>9, <1>10 DEF Page

\* What an answer does to the wires of the only socket.
LEMMA OneAnswer ==
    ASSUME TypeOK, ws \in Socket, toHub[ws] # <<>>,
           NEW replies \in Seq(Reply), Answers(ws, replies)
    PROVE  /\ On(toHub[ws]) = {Head(toHub[ws])} \cup On(toHub'[ws])
           /\ On(toPage'[ws]) = On(toPage[ws]) \cup On(replies)
           /\ \A x \in Socket \ {ws} : toHub'[x] = toHub[x] /\ toPage'[x] = toPage[x]
           /\ UNCHANGED <<page, view, savedView, restored, store, ws, status, opening, timers,
                          submits, left>>
<1>1. toHub[ws] \in Seq(Request) /\ toPage[ws] \in Seq(Reply)
  BY DEF TypeOK
<1>2. /\ toHub'[ws] = Tail(toHub[ws]) /\ toPage'[ws] = toPage[ws] \o replies
      /\ \A x \in Socket \ {ws} : toHub'[x] = toHub[x] /\ toPage'[x] = toPage[x]
      /\ UNCHANGED <<page, view, savedView, restored, store, ws, status, opening, timers,
                     submits, left>>
  BY DEF Answers, TypeOK, pageVars, socketVars, retryVars, roomVars, storageVars, historyVars
<1>3. On(toHub[ws]) = {Head(toHub[ws])} \cup On(toHub'[ws])
  BY <1>1, <1>2, OnTail
<1>4. On(toPage'[ws]) = On(toPage[ws]) \cup On(replies)
  BY <1>1, <1>2, OnConcat
<1> QED
  BY <1>2, <1>3, <1>4

\* What a welcome does to the wires of the page's only connection.
LEMMA OneWelcome ==
    ASSUME TypeOK, ws \in Socket, toHub[ws] # <<>>, NEW history \in Room,
           NEW room \in Room \cup {NoView}, Welcome(ws, history, room)
    PROVE  /\ On(toHub[ws]) = {Head(toHub[ws])} \cup On(toHub'[ws])
           /\ On(toPage'[ws]) \subseteq On(toPage[ws]) \cup {System(room), Message(history)}
           /\ \A x \in Socket \ {ws} : toHub'[x] = toHub[x] /\ toPage'[x] = toPage[x]
           /\ UNCHANGED <<page, view, savedView, restored, store, ws, status, opening, timers,
                          submits, left>>
<1>1. /\ <<System(room)>> \in Seq(Reply)
      /\ <<Message(history), System(room)>> \in Seq(Reply)
  BY DEF System, Message, Reply
<1>2. /\ On(<<System(room)>>) = {System(room)}
      /\ On(<<Message(history), System(room)>>) = {Message(history), System(room)}
  BY OnFew
<1>3. CASE Answers(ws, <<System(room)>>)
  BY <1>1, <1>2, <1>3, OneAnswer
<1>4. CASE Answers(ws, <<Message(history), System(room)>>)
  BY <1>1, <1>2, <1>4, OneAnswer
<1> QED
  BY <1>3, <1>4 DEF Welcome

\* What an error does to the wires of the page's only connection.
LEMMA OneError ==
    ASSUME TypeOK, ws \in Socket, toHub[ws] # <<>>, Answers(ws, <<Error>>)
    PROVE  /\ On(toHub[ws]) = {Head(toHub[ws])} \cup On(toHub'[ws])
           /\ On(toPage'[ws]) = On(toPage[ws]) \cup {Error}
           /\ \A x \in Socket \ {ws} : toHub'[x] = toHub[x] /\ toPage'[x] = toPage[x]
           /\ UNCHANGED <<page, view, savedView, restored, store, ws, status, opening, timers,
                          submits, left>>
<1>1. <<Error>> \in Seq(Reply)
  BY DEF Error, Reply
<1>2. On(<<Error>>) = {Error}
  BY OnFew
<1> QED
  BY <1>1, <1>2, OneAnswer

\* The hub's end of the only connection
LEMMA OneHub ==
    ASSUME TypeOK, OneConnection, page # "wiped", NEW s \in Socket, Hub(s) \/ Post(s)
    PROVE  OneConnection'
<1>1. ~Untouched(s)
  BY DEF Hub, HandleJoin, HandleJoinRoom, HandleLeaveRoom, Requests, Post, Untouched
<1>2. s = ws /\ ws \in Socket /\ ws # None /\ RoomsAreIn
  BY <1>1, OnlyThis DEF OneConnection
<1>3. General \notin left /\ General \in Room /\ page \in {"login", "chat"}
  BY <1>2, RoomAssumption DEF RoomsAreIn, TypeOK
<1>4. ASSUME toHub[ws] # <<>>, Head(toHub[ws]).type \in {"join_room", "leave_room"}
      PROVE  /\ page = "chat" /\ General \in joined[ws]
             /\ Head(toHub[ws]) = [type |-> Head(toHub[ws]).type, room |-> Head(toHub[ws]).room]
             /\ Head(toHub[ws]).room \in Room /\ Head(toHub[ws]) \in On(toHub[ws])
  <2>1. toHub[ws] \in Seq(Request) /\ Head(toHub[ws]) \in Request
    BY <1>2, <1>4 DEF TypeOK
  <2>2. Head(toHub[ws]) \in On(toHub[ws])
    BY <1>4, <2>1, OnTail
  <2>3. page = "chat"
    BY <1>2, <1>3, <1>4, <2>2 DEF OneConnection, BeforeWelcome
  <2> QED
    BY <1>4, <2>1, <2>2, <2>3, WireFacts DEF OneConnection, AfterWelcome
<1>5. ASSUME UNCHANGED <<page, view, savedView, restored, store, ws, status, opening, timers,
                         submits, left>>,
             \A x \in Socket \ {ws} :
                 toHub'[x] = toHub[x] /\ toPage'[x] = toPage[x] /\ joined'[x] = joined[x],
             On(toHub'[ws]) \subseteq On(toHub[ws]),
             RoomsAreIn', General \in joined[ws] => General \in joined'[ws]
      PROVE  OneConnection'
  <2>1. OnlySocket'
    BY <1>2, <1>5, StillOnly DEF OneConnection
  <2>2. page = "login" => BeforeWelcome'
    BY <1>5 DEF OneConnection, BeforeWelcome
  <2>3. page = "chat" => AfterWelcome'
    BY <1>5 DEF OneConnection, AfterWelcome
  <2> QED
    BY <1>5, <2>1, <2>2, <2>3 DEF OneConnection
<1>6. CASE HandleJoin(s)
  <2>1. toHub[ws] # <<>> /\ Head(toHub[ws]).type = "join"
    BY <1>2, <1>6 DEF HandleJoin, Requests
  <2>2. \A room : Head(toHub[ws]) # [type |-> "join_room", room |-> room]
    BY <2>1
  <2>3. CASE joined' = [joined EXCEPT ![ws] = @ \cup {General}] /\ Welcome(ws, General, NoView)
    <3>1. /\ On(toHub[ws]) = {Head(toHub[ws])} \cup On(toHub'[ws])
          /\ On(toPage'[ws]) \subseteq On(toPage[ws]) \cup {System(NoView), Message(General)}
          /\ \A x \in Socket \ {ws} : toHub'[x] = toHub[x] /\ toPage'[x] = toPage[x]
          /\ UNCHANGED <<page, view, savedView, restored, store, ws, status, opening, timers,
                         submits, left>>
      BY <1>2, <1>3, <2>1, <2>3, OneWelcome
    <3>2. /\ joined'[ws] = joined[ws] \cup {General}
          /\ \A x \in Socket \ {ws} : joined'[x] = joined[x]
      BY <1>2, <2>3 DEF TypeOK
    <3>3. \A r : In(r) => In(r)'
      BY <2>2, <3>1, <3>2 DEF In
    <3>4. \A r \in Room : Concerns(r)' => Concerns(r) \/ In(r)'
      BY <3>1, <3>2, WireFacts, RoomAssumption DEF Concerns, In
    <3>5. RoomsAreIn'
      BY <1>2, <1>3, <3>1, <3>2, <3>3, <3>4, StillIn
    <3> QED
      BY <1>5, <3>1, <3>2, <3>5
  <2>4. CASE Answers(ws, <<Error>>) /\ joined' = joined
    <3>1. /\ On(toHub[ws]) = {Head(toHub[ws])} \cup On(toHub'[ws])
          /\ On(toPage'[ws]) = On(toPage[ws]) \cup {Error}
          /\ \A x \in Socket \ {ws} : toHub'[x] = toHub[x] /\ toPage'[x] = toPage[x]
          /\ UNCHANGED <<page, view, savedView, restored, store, ws, status, opening, timers,
                         submits, left>>
      BY <1>2, <2>1, <2>4, OneError
    <3>2. \A r : In(r) => In(r)'
      BY <2>2, <2>4, <3>1 DEF In
    <3>3. System(NoView) \in On(toPage'[ws]) => System(NoView) \in On(toPage[ws])
      BY <3>1, WireFacts
    <3>4. \A r \in Room : Concerns(r)' => Concerns(r)
      BY <3>1, WireFacts DEF Concerns
    <3>5. RoomsAreIn'
      BY <1>2, <1>3, <2>4, <3>1, <3>2, <3>3, <3>4, StillIn
    <3> QED
      BY <1>5, <2>4, <3>1, <3>5
  <2> QED
    BY <1>2, <1>6, <2>3, <2>4 DEF HandleJoin
<1>7. CASE HandleJoinRoom(s)
  <2> DEFINE room == Head(toHub[ws]).room
  <2>1. toHub[ws] # <<>> /\ Head(toHub[ws]).type = "join_room"
    BY <1>2, <1>7 DEF HandleJoinRoom, Requests
  <2>2. /\ General \in joined[ws] /\ room \in Room
        /\ Head(toHub[ws]) = [type |-> "join_room", room |-> room]
    BY <1>4, <2>1
  <2>3. CASE joined' = [joined EXCEPT ![ws] = @ \cup {room}] /\ Welcome(ws, room, room)
    <3> HIDE DEF room
    <3>1. /\ On(toHub[ws]) = {Head(toHub[ws])} \cup On(toHub'[ws])
          /\ On(toPage'[ws]) \subseteq On(toPage[ws]) \cup {System(room), Message(room)}
          /\ \A x \in Socket \ {ws} : toHub'[x] = toHub[x] /\ toPage'[x] = toPage[x]
          /\ UNCHANGED <<page, view, savedView, restored, store, ws, status, opening, timers,
                         submits, left>>
      BY <1>2, <2>1, <2>2, <2>3, OneWelcome
    <3>2. /\ joined'[ws] = joined[ws] \cup {room}
          /\ \A x \in Socket \ {ws} : joined'[x] = joined[x]
      BY <1>2, <2>3 DEF TypeOK
    <3>3. \A r : In(r) => In(r)'
      <4> SUFFICES ASSUME NEW r, In(r) PROVE In(r)'
        OBVIOUS
      <4>1. CASE r = room
        BY <3>1, <3>2, <4>1 DEF In
      <4>2. CASE r # room
        <5>1. [type |-> "join_room", room |-> r] # Head(toHub[ws])
          <6>1. [type |-> "join_room", room |-> r].room = r /\ Head(toHub[ws]).room = room
            BY <2>2
          <6> QED
            BY <4>2, <6>1
        <5> QED
          BY <3>1, <3>2, <5>1 DEF In
      <4> QED
        BY <4>1, <4>2
    <3>4. \A r \in Room : Concerns(r)' => Concerns(r) \/ In(r)'
      BY <3>1, <3>2, WireFacts DEF Concerns, In
    <3>5. System(NoView) \in On(toPage'[ws]) => System(NoView) \in On(toPage[ws])
      BY <2>2, <3>1, WireFacts, RoomAssumption
    <3>6. RoomsAreIn'
      BY <1>2, <1>3, <2>2, <3>1, <3>2, <3>3, <3>4, <3>5, StillIn
    <3> QED
      BY <1>5, <2>2, <3>1, <3>2, <3>6
  <2>4. CASE Answers(ws, <<Error>>) /\ joined' = joined /\ room \in joined[ws]
    <3> HIDE DEF room
    <3>1. /\ On(toHub[ws]) = {Head(toHub[ws])} \cup On(toHub'[ws])
          /\ On(toPage'[ws]) = On(toPage[ws]) \cup {Error}
          /\ \A x \in Socket \ {ws} : toHub'[x] = toHub[x] /\ toPage'[x] = toPage[x]
          /\ UNCHANGED <<page, view, savedView, restored, store, ws, status, opening, timers,
                         submits, left>>
      BY <1>2, <2>1, <2>4, OneError
    <3>2. \A r : In(r) => In(r)'
      <4> SUFFICES ASSUME NEW r, In(r) PROVE In(r)'
        OBVIOUS
      <4>1. CASE r = room
        BY <2>4, <3>1, <4>1 DEF In
      <4>2. CASE r # room
        <5>1. [type |-> "join_room", room |-> r] # Head(toHub[ws])
          <6>1. [type |-> "join_room", room |-> r].room = r /\ Head(toHub[ws]).room = room
            BY <2>2
          <6> QED
            BY <4>2, <6>1
        <5> QED
          BY <2>4, <3>1, <5>1 DEF In
      <4> QED
        BY <4>1, <4>2
    <3>3. System(NoView) \in On(toPage'[ws]) => System(NoView) \in On(toPage[ws])
      BY <3>1, WireFacts
    <3>4. \A r \in Room : Concerns(r)' => Concerns(r)
      BY <3>1, WireFacts DEF Concerns
    <3>5. RoomsAreIn'
      BY <1>2, <1>3, <2>4, <3>1, <3>2, <3>3, <3>4, StillIn
    <3> QED
      BY <1>5, <2>4, <3>1, <3>5
  <2> QED
    BY <1>2, <1>7, <2>2, <2>3, <2>4 DEF HandleJoinRoom
<1>8. CASE HandleLeaveRoom(s)
  <2> DEFINE room == Head(toHub[ws]).room
  <2>1. toHub[ws] # <<>> /\ Head(toHub[ws]).type = "leave_room"
    BY <1>2, <1>8 DEF HandleLeaveRoom, Requests
  <2>2. /\ General \in joined[ws] /\ room \in Room
        /\ Head(toHub[ws]) = [type |-> "leave_room", room |-> room]
        /\ Head(toHub[ws]) \in On(toHub[ws])
    BY <1>4, <2>1
  <2>3. room \in left /\ room # General
    BY <1>2, <1>3, <2>2 DEF RoomsAreIn
  <2>4. Answers(ws, <<>>) /\ joined' = [joined EXCEPT ![ws] = @ \ {room}]
    BY <1>2, <1>8, <2>2, <2>3 DEF HandleLeaveRoom
  <2> HIDE DEF room
  <2>5. /\ joined'[ws] = joined[ws] \ {room}
        /\ \A x \in Socket \ {ws} : joined'[x] = joined[x]
    BY <1>2, <2>4 DEF TypeOK
  <2>6. <<>> \in Seq(Reply)
    OBVIOUS
  <2>7. /\ On(toHub[ws]) = {Head(toHub[ws])} \cup On(toHub'[ws])
        /\ On(toPage'[ws]) = On(toPage[ws]) \cup {}
        /\ \A x \in Socket \ {ws} : toHub'[x] = toHub[x] /\ toPage'[x] = toPage[x]
        /\ UNCHANGED <<page, view, savedView, restored, store, ws, status, opening, timers,
                       submits, left>>
    BY <1>2, <2>1, <2>4, <2>6, OneAnswer, OnNone
  <2>8. \A r \in Room \ left : In(r) => In(r)'
    BY <2>1, <2>3, <2>5, <2>7 DEF In
  <2>9. \A r : Concerns(r)' => Concerns(r)
    BY <2>7 DEF Concerns
  <2>10. RoomsAreIn'
    BY <1>2, <1>3, <2>2, <2>3, <2>5, <2>7, <2>8, <2>9, StillIn
  <2> QED
    BY <1>5, <2>2, <2>3, <2>5, <2>7, <2>10
<1>9. CASE Post(s)
  <2>1. PICK room \in joined[ws] :
           /\ toPage' = [toPage EXCEPT ![ws] = Append(@, Message(room))]
           /\ UNCHANGED <<page, view, savedView, restored, store, ws, status, opening, timers,
                          submits, left, toHub, joined>>
    BY <1>2, <1>9 DEF Post, pageVars, socketVars, retryVars, roomVars, storageVars, historyVars
  <2>2. On(toPage'[ws]) = On(toPage[ws]) \cup {Message(room)}
    <3>1. toPage'[ws] = Append(toPage[ws], Message(room)) /\ toPage[ws] \in Seq(Reply)
      BY <1>2, <2>1 DEF TypeOK
    <3> QED
      BY <3>1, OnAppend
  <2>3. \A x \in Socket \ {ws} : toPage'[x] = toPage[x]
    BY <1>2, <2>1 DEF TypeOK
  <2>4. \A r : In(r) => In(r)'
    BY <2>1 DEF In
  <2>5. \A r : Concerns(r)' => Concerns(r) \/ In(r)'
    BY <2>1, <2>2, WireFacts DEF Concerns, In
  <2>6. System(NoView) \in On(toPage'[ws]) => System(NoView) \in On(toPage[ws])
    BY <2>2, WireFacts
  <2>7. RoomsAreIn'
    BY <1>2, <1>3, <2>1, <2>4, <2>5, <2>6, StillIn
  <2> QED
    BY <1>5, <2>1, <2>3, <2>7
<1> QED
  BY <1>6, <1>7, <1>8, <1>9 DEF Hub

\* The user's rooms on the only connection
LEMMA OneUser ==
    ASSUME TypeOK, OneConnection,
           (\E room \in Room : SwitchToRoom(room)) \/ LeaveRoom \/ Clear
    PROVE  OneConnection'
<1>1. /\ page = "chat"
      /\ UNCHANGED <<page, restored, ws, status, opening, timers, submits, toPage, joined>>
  BY DEF SwitchToRoom, LeaveRoom, Clear, UsesChat, pageVars, socketVars, retryVars
<1>2. ws \in Socket /\ ws # None /\ RoomsAreIn /\ AfterWelcome /\ CanSend
  BY <1>1 DEF OneConnection, OnlySocket, AfterWelcome, TypeOK, CanSend
<1>3. /\ General \notin left /\ General \in Room /\ General \in joined[ws] /\ view \in Room
      /\ toHub[ws] \in Seq(Request)
  BY <1>2, RoomAssumption DEF RoomsAreIn, AfterWelcome, TypeOK
<1>4. ASSUME \A x \in Socket \ {ws} : toHub'[x] = toHub[x], RoomsAreIn'
      PROVE  OneConnection'
  <2>1. OnlySocket'
    BY <1>1, <1>2, <1>4, StillOnly DEF OneConnection
  <2>2. AfterWelcome'
    BY <1>1, <1>2 DEF AfterWelcome
  <2> QED
    BY <1>1, <1>4, <2>1, <2>2 DEF OneConnection
<1>5. ASSUME NEW room \in Room, SwitchToRoom(room)
      PROVE  OneConnection'
  <2> DEFINE join == [type |-> "join_room", room |-> room]
  <2>1. view' = room /\ UNCHANGED <<store, left>>
    BY <1>5 DEF SwitchToRoom, SwitchTo
  <2>2. \A r : join # [type |-> "leave_room", room |-> r]
    <3> TAKE r
    <3>1. join.type = "join_room" /\ [type |-> "leave_room", room |-> r].type = "leave_room"
      OBVIOUS
    <3> QED
      BY <3>1
  <2>3. CASE room \in store
    <3>1. toHub' = toHub
      BY <1>5, <2>3 DEF SwitchToRoom, SwitchTo
    <3>2. \A r : In(r) => In(r)'
      BY <1>1, <3>1 DEF In
    <3>3. \A r : Concerns(r)' => Concerns(r)
      BY <1>1, <2>1, <2>3 DEF Concerns
    <3>4. RoomsAreIn'
      BY <1>1, <1>2, <1>3, <2>1, <3>1, <3>2, <3>3, StillIn
    <3> QED
      BY <1>4, <3>1, <3>4
  <2>4. CASE room \notin store
    <3>1. toHub' = [toHub EXCEPT ![ws] = Append(@, join)]
      BY <1>2, <1>5, <2>4 DEF SwitchToRoom, SwitchTo, Sends
    <3>2. toHub'[ws] = Append(toHub[ws], join) /\ \A x \in Socket \ {ws} : toHub'[x] = toHub[x]
      BY <1>2, <3>1 DEF TypeOK
    <3>3. On(toHub'[ws]) = On(toHub[ws]) \cup {join}
      BY <1>3, <3>2, OnAppend
    <3>4. \A r : In(r) => In(r)'
      BY <1>1, <3>3 DEF In
    <3>5. In(room)'
      BY <1>1, <3>3 DEF In
    <3>6. \A r : Concerns(r)' => Concerns(r) \/ In(r)'
      BY <1>1, <2>1, <3>5 DEF Concerns
    <3>7. RoomsAreIn'
      BY <1>1, <1>2, <1>3, <2>1, <2>2, <3>3, <3>4, <3>6, StillIn
    <3> QED
      BY <1>4, <3>2, <3>7
  <2> QED
    BY <2>3, <2>4
<1>6. CASE LeaveRoom
  <2> DEFINE leave == [type |-> "leave_room", room |-> view]
             join  == [type |-> "join_room", room |-> General]
             sent  == IF General \in store THEN <<leave>> ELSE <<leave, join>>
  <2>1. /\ view # General /\ view' = General /\ store' = store \ {view}
        /\ left' = left \cup {view}
        /\ toHub' = [toHub EXCEPT ![ws] = @ \o sent]
    BY <1>2, <1>6 DEF LeaveRoom
  <2>2. sent \in Seq(Request)
    <3>1. leave \in Request /\ join \in Request
      BY <1>3 DEF Request
    <3> QED
      BY <3>1
  <2>3. On(sent) \subseteq {leave, join}
    BY OnFew
  <2>4. \A r : /\ leave = [type |-> "leave_room", room |-> r] => r = view
               /\ join # [type |-> "leave_room", room |-> r]
    <3> TAKE r
    <3>1. /\ join.type = "join_room" /\ leave.room = view
          /\ [type |-> "leave_room", room |-> r].type = "leave_room"
          /\ [type |-> "leave_room", room |-> r].room = r
      OBVIOUS
    <3> QED
      BY <3>1
  <2> HIDE DEF leave, join, sent
  <2>5. toHub'[ws] = toHub[ws] \o sent /\ \A x \in Socket \ {ws} : toHub'[x] = toHub[x]
    BY <1>2, <2>1 DEF TypeOK
  <2>6. On(toHub'[ws]) = On(toHub[ws]) \cup On(sent)
    BY <1>3, <2>2, <2>5, OnConcat
  <2>7. \A r \in Room : [type |-> "leave_room", room |-> r] \in On(toHub'[ws]) =>
            [type |-> "leave_room", room |-> r] \in On(toHub[ws]) \/ r \in left'
    BY <2>1, <2>3, <2>4, <2>6
  <2>8. \A r : In(r) => In(r)'
    BY <1>1, <2>6 DEF In
  <2>9. \A r : Concerns(r)' => Concerns(r) \/ In(r)'
    BY <1>1, <1>3, <2>1 DEF Concerns, In
  <2>10. General \notin left' /\ left \subseteq left'
    BY <1>3, <2>1
  <2>11. RoomsAreIn'
    BY <1>1, <1>2, <2>7, <2>8, <2>9, <2>10, StillIn
  <2> QED
    BY <1>4, <2>5, <2>11
<1>7. CASE Clear
  <2>1. store' = store \cup {view} /\ UNCHANGED <<view, toHub, left>>
    BY <1>7 DEF Clear
  <2>2. \A r : In(r) => In(r)'
    BY <1>1, <2>1 DEF In
  <2>3. \A r : Concerns(r)' => Concerns(r)
    BY <1>1, <2>1 DEF Concerns
  <2>4. RoomsAreIn'
    BY <1>1, <1>2, <1>3, <2>1, <2>2, <2>3, StillIn
  <2> QED
    BY <1>4, <2>1, <2>4
<1> QED
  BY <1>5, <1>6, <1>7

\* The login that makes the only connection
LEMMA OneLogin ==
    ASSUME TypeOK, OneConnection, NEW name \in Name, Submit(name), ~earlier'
    PROVE  OneConnection'
<1>1. /\ submits = 0 /\ submits' = 1 /\ page = "login" /\ Connect(name)
      /\ UNCHANGED <<page, timers, view, savedView, store, left, toHub, toPage, joined>>
  <2>1. submits' = submits + 1 /\ ~(submits > 0) /\ submits \in Nat
    BY DEF Submit, TypeOK
  <2>2. /\ page = "login" /\ Connect(name)
        /\ UNCHANGED <<page, timers, view, savedView, store, left, toHub, toPage, joined>>
    BY DEF Submit, retryVars, roomVars, wireVars
  <2> QED
    BY <2>1, <2>2
<1>2. /\ ws = None /\ timers = 0 /\ \A s \in Socket : Untouched(s)
      /\ store = {} /\ BeforeWelcome
  BY <1>1 DEF OneConnection, OnlySocket, None, Socket
<1>3. PICK s \in Socket :
         /\ ws' = s /\ status' = [status EXCEPT ![s] = "connecting"] /\ opening' = opening
  BY <1>1 DEF Connect
<1>4. s # None /\ toHub'[s] = <<>> /\ toPage'[s] = <<>> /\ joined'[s] = {}
  BY <1>1, <1>2, <1>3 DEF Untouched, None, Socket
<1>5. OnlySocket'
  <2>1. \A x \in Socket \ {s} : Untouched(x)'
    BY <1>1, <1>2, <1>3 DEF Untouched, TypeOK
  <2> QED
    BY <1>1, <1>2, <1>3, <1>4, <2>1 DEF OnlySocket
<1>6. On(toHub'[ws']) = {} /\ On(toPage'[ws']) = {}
  BY <1>3, <1>4, OnNone
<1>7. BeforeWelcome'
  BY <1>1, <1>2, <1>6 DEF BeforeWelcome
<1>8. RoomsAreIn'
  <2>1. General \notin left' /\ joined'[ws'] = {}
    BY <1>1, <1>2, <1>3, <1>4 DEF BeforeWelcome
  <2>2. \A r : ~Concerns(r)'
    BY <1>1, <1>2, <1>6 DEF Concerns
  <2> QED
    BY <1>6, <2>1, <2>2 DEF RoomsAreIn
<1> QED
  BY <1>1, <1>5, <1>7, <1>8 DEF OneConnection

\* A tab that logs out begins anew.
LEMMA OneAnew ==
    ASSUME Logout
    PROVE  OneConnection'
<1>1. /\ savedView' = NoView /\ savedStore' = {} /\ Load(NoName)
  BY DEF Logout
<1>2. /\ page' = "login" /\ ws' = None /\ timers' = 0 /\ submits' = 0 /\ left' = {}
      /\ store' = {} /\ view' = General
  BY <1>1 DEF Load
<1>3. \A s \in Socket : Untouched(s)'
  BY <1>1, <1>2 DEF Load, Untouched, None, Socket
<1> QED
  BY <1>1, <1>2, <1>3 DEF OneConnection, OnlySocket, BeforeWelcome

\* The only connection of a tab knows its rooms, for any number of rooms and requests.
THEOREM FirstConnectionInvariant == Spec => []FirstConnection
<1>1. Init => FirstConnection
  <2>1. Init => OnlySocket
    BY DEF Init, OnlySocket, Untouched
  <2>2. Init => BeforeWelcome /\ ws = None /\ page = "login"
    BY DEF Init, BeforeWelcome
  <2> QED
    BY <2>1, <2>2 DEF FirstConnection, OneConnection
<1>2. TypeOK /\ FirstConnection /\ [Next]_vars => FirstConnection'
  <2> SUFFICES ASSUME TypeOK, FirstConnection, [Next]_vars, ~earlier', page' # "wiped"
               PROVE  OneConnection'
    BY DEF FirstConnection
  <2> USE DEF historyVars, pageVars
  <2>1. CASE Logout
    BY <2>1, OneAnew
  <2>2. ASSUME NEW name \in Name, Submit(name) PROVE OneConnection'
    <3>1. ~earlier /\ page # "wiped"
      BY <2>2 DEF Submit
    <3> QED
      BY <2>2, <3>1, OneLogin DEF FirstConnection
  <2>3. ASSUME (\E room \in Room : SwitchToRoom(room)) \/ LeaveRoom \/ Clear
        PROVE  OneConnection'
    <3>1. UsesChat
      BY <2>3 DEF SwitchToRoom, LeaveRoom, Clear
    <3>2. ~earlier /\ page # "wiped"
      BY <3>1 DEF UsesChat
    <3> QED
      BY <2>3, <3>2, OneUser DEF FirstConnection
  <2>4. ASSUME NEW s \in Socket, Page(s) PROVE OneConnection'
    <3>1. ~earlier /\ page # "wiped"
      BY <2>4 DEF Page, Opened, Joins, ReceiveSystem, ReceiveMessage, ReceiveError, Receives
    <3> QED
      BY <2>4, <3>1, OnePage DEF FirstConnection
  <2>5. ASSUME NEW s \in Socket, Hub(s) \/ Post(s) PROVE OneConnection'
    <3>1. UNCHANGED <<earlier, page>>
      <4>1. HandleJoin(s) => UNCHANGED <<earlier, page>>
        BY DEF HandleJoin, Welcome, Answers
      <4>2. HandleJoinRoom(s) => UNCHANGED <<earlier, page>>
        BY DEF HandleJoinRoom, Welcome, Answers
      <4>3. HandleLeaveRoom(s) => UNCHANGED <<earlier, page>>
        BY DEF HandleLeaveRoom, Welcome, Answers
      <4>4. Post(s) => UNCHANGED <<earlier, page>>
        BY DEF Post
      <4> QED
        BY <2>5, <4>1, <4>2, <4>3, <4>4 DEF Hub
    <3>2. ~earlier /\ page # "wiped"
      BY <3>1
    <3> QED
      BY <2>5, <3>2, OneHub DEF FirstConnection
  <2>6. ~Wipe /\ ~Reload
    BY DEF Wipe, Reload
  <2>7. ~\E s \in Socket : Refused(s) \/ Lost(s) \/ Closed(s)
    BY DEF Refused, Lost, Closed, Gone
  <2>8. ~Timer
    <3>1. Timer => ~earlier /\ page # "wiped" /\ timers > 0
      BY DEF Timer
    <3> QED
      BY <3>1 DEF FirstConnection, OneConnection, OnlySocket
  <2>9. CASE UNCHANGED vars
    BY <2>9 DEF vars, socketVars, retryVars, roomVars, storageVars, wireVars,
                FirstConnection, OneConnection, OnlySocket, Untouched, BeforeWelcome,
                AfterWelcome, RoomsAreIn, Concerns, In
  <2> QED
    BY <2>1, <2>2, <2>3, <2>4, <2>5, <2>6, <2>7, <2>8, <2>9 DEF Next
<1> QED
  BY <1>1, <1>2, TypeCorrect, PTL DEF Spec

\* On the first connection of a tab the room on the screen, unless it was left, is
\* joined or about to be (app.js:642), whatever made entries in messageStore.
THEOREM RoomShownIsJoinedHolds == Spec => []RoomShownIsJoined
<1>1. TypeOK /\ FirstConnection => RoomShownIsJoined
  <2> SUFFICES ASSUME TypeOK, FirstConnection, page = "chat", ~earlier, view \notin left
               PROVE  \/ view \in joined[ws]
                      \/ \E i \in 1..Len(toHub[ws]) :
                             toHub[ws][i] = [type |-> "join_room", room |-> view]
    BY DEF RoomShownIsJoined
  <2>1. OneConnection /\ ws # None /\ view \in Room
    BY DEF FirstConnection, OneConnection, OnlySocket, TypeOK
  <2>2. In(view)
    BY <2>1 DEF OneConnection, RoomsAreIn, Concerns
  <2> QED
    BY <2>2 DEF In, On
<1> QED
  BY <1>1, TypeCorrect, FirstConnectionInvariant, PTL
=============================================================================
