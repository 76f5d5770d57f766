------------------------------ MODULE RoomFeed ------------------------------
(***************************************************************************)
(* What the members of one room are shown: handleMessage, handleJoinRoom,  *)
(* handleLeaveRoom and InjectFromMesh of internal/hub/hub.go, the room     *)
(* history of internal/store/store.go, the Send channel of                 *)
(* internal/hub/client.go and the message store of frontend/app.js.        *)
(*                                                                         *)
(* A post is saved under the store's lock and broadcast later under the    *)
(* hub's read lock, which several broadcasts share; joining and leaving    *)
(* take the write lock.  So posts may reach members in another order than  *)
(* the store's, and a join may fall between the save of a post and its     *)
(* broadcast.  A connection's requests are handled one at a time, and so   *)
(* are the messages of one mesh peer.  A browser keeps its connection: what *)
(* a reconnection does to names and rooms is the subject of Hub.           *)
(*                                                                         *)
(* Abstracted: contents, other rooms, the messages user_joined, user_left, *)
(* room_users and error (they carry no post, and only make a channel full  *)
(* earlier), eviction from the store (50000 messages).  The room exists    *)
(* and is not #general, which nobody can leave.                            *)
(***************************************************************************)
EXTENDS Integers, SequencesExt

CONSTANTS
    Browser,     \* one browser tab with one connection each
    Peer,        \* mesh peers
    Post,        \* messages for the room
    Author,      \* Author[p]: the browser or the peer p comes from
    NoView,      \* messageStore has no entry for the room
    Limit,       \* length of a history (50)
    Cap,         \* capacity of Client.Send
    MaxRequests  \* MaxRequests[b]: bound on b's join_room and leave_room requests

ASSUME AuthorAssumption == Author \in [Post -> Browser \cup Peer]
ASSUME PeerAssumption == Browser \cap Peer = {}
ASSUME ViewAssumption == NoView \notin Seq(Post)
ASSUME BoundAssumption ==
    Limit \in Nat \ {0} /\ Cap \in Nat \ {0} /\ MaxRequests \in [Browser -> Nat]

Poster == Browser \cup Peer

\* queued: sent by the browser; saved: in the store; sent: its broadcast has
\* begun, and holds the read lock while todo is not empty; lost: refused.
Stage == {"new", "queued", "saved", "sent", "lost"}

Request == [type : {"join_room", "leave_room"}] \cup [type : {"message"}, post : Post]
Event   == [type : {"joined"}, history : Seq(Post)]
           \cup [type : {"message"}, post : Post]

VARIABLES
    stored,    \* the room's messages in MessageStore.messages
    stage,     \* stage[p]: how far the handler of post p is
    members,   \* Hub.Rooms[room], and the connections with room in Client.Rooms
    todo,      \* todo[p]: members the broadcast of p has not reached yet
    inbox,     \* inbox[b]: requests on their way to the server
    send,      \* send[b]: Client.Send and the socket
    view,      \* view[b]: messageStore[room] of the browser, without system lines
    requests,  \* requests[b]: join and leave requests sent so far
    dropped,   \* history: browsers for which Client.Send was full once
    joinedAt   \* history: length of the store when b was last made a member

vars == <<stored, stage, members, todo, inbox, send, view, requests, dropped,
          joinedAt>>

\* The values of the variables.
TypeOK ==
    /\ stored \in Seq(Post)
    /\ stage \in [Post -> Stage]
    /\ members \subseteq Browser
    /\ todo \in [Post -> SUBSET Browser]
    /\ inbox \in [Browser -> Seq(Request)]
    /\ send \in [Browser -> Seq(Event)]
    /\ view \in [Browser -> Seq(Post) \cup {NoView}]
    /\ requests \in [Browser -> Nat]
    /\ dropped \subseteq Browser
    /\ joinedAt \in [Browser -> Nat]

Init ==
    /\ stored = <<>>
    /\ stage = [p \in Post |-> "new"]
    /\ members = {}
    /\ todo = [p \in Post |-> {}]
    /\ inbox = [b \in Browser |-> <<>>]
    /\ send = [b \in Browser |-> <<>>]
    /\ view = [b \in Browser |-> NoView]
    /\ requests = [b \in Browser |-> 0]
    /\ dropped = {}
    /\ joinedAt = [b \in Browser |-> 0]

\* Mutant of Idle: every request runs in a goroutine of its own.
IdleAlways(x) == TRUE

\* The goroutine of x (a ReadPump, or a mesh peer's readPump) runs no handler.
Idle(x) == \A p \in Post : Author[p] = x => stage[p] # "saved" /\ todo[p] = {}

\* Nobody holds h.mu for reading, so that it can be taken for writing.
Unlocked == \A p \in Post : todo[p] = {}

browserVars == <<view, requests>>
serverVars  == <<stored, members, todo, joinedAt>>

\* SendJSON to b: a full channel drops.
SendJSON(b, event) ==
    IF Len(send[b]) < Cap
    THEN send' = [send EXCEPT ![b] = Append(@, event)] /\ UNCHANGED dropped
    ELSE dropped' = dropped \cup {b} /\ UNCHANGED send

(***************************************************************************)
(* The browser                                                             *)
(***************************************************************************)

\* switchToRoom: join_room is sent if the browser keeps nothing of the room.
SwitchToRoom(b) ==
    /\ view[b] = NoView
    /\ requests[b] < MaxRequests[b]
    /\ requests' = [requests EXCEPT ![b] = @ + 1]
    /\ inbox' = [inbox EXCEPT ![b] = Append(@, [type |-> "join_room"])]
    /\ UNCHANGED <<serverVars, stage, send, view, dropped>>

\* The leave button of an open room
LeaveRoom(b) ==
    /\ view[b] # NoView
    /\ requests[b] < MaxRequests[b]
    /\ requests' = [requests EXCEPT ![b] = @ + 1]
    /\ inbox' = [inbox EXCEPT ![b] = Append(@, [type |-> "leave_room"])]
    /\ view' = [view EXCEPT ![b] = NoView]
    /\ UNCHANGED <<serverVars, stage, send, dropped>>

\* The user writes in an open room; the browser waits for the broadcast to
\* show the post.
SendMessage(b, p) ==
    /\ Author[p] = b
    /\ stage[p] = "new"
    /\ view[b] # NoView
    /\ stage' = [stage EXCEPT ![p] = "queued"]
    /\ inbox' = [inbox EXCEPT ![b] = Append(@, [type |-> "message", post |-> p])]
    /\ UNCHANGED <<serverVars, browserVars, send, dropped>>

\* What messageStore[room] is once event e has been handled
Shown(v, e) ==
    CASE e.type = "message"                   -> Append(IF v = NoView THEN <<>> ELSE v, e.post)
      [] e.type = "joined" /\ e.history # <<>> -> e.history
      [] e.type = "joined" /\ e.history = <<>> -> IF v = NoView THEN <<>> ELSE v

\* handleMessage of app.js: a history replaces what was kept, a message is
\* appended, and the system line "You joined" creates the entry.
Receive(b) ==
    /\ send[b] # <<>>
    /\ view' = [view EXCEPT ![b] = Shown(@, Head(send[b]))]
    /\ send' = [send EXCEPT ![b] = Tail(@)]
    /\ UNCHANGED <<serverVars, stage, inbox, requests, dropped>>

(***************************************************************************)
(* The server                                                              *)
(***************************************************************************)

Handles(b, type) == Idle(b) /\ inbox[b] # <<>> /\ Head(inbox[b]).type = type
Pop(b) == inbox' = [inbox EXCEPT ![b] = Tail(@)]

\* GetRoomMessages
History == SubSeq(stored, IF Len(stored) > Limit THEN Len(stored) - Limit + 1 ELSE 1,
                  Len(stored))

\* handleJoinRoom; the history and the system line leave together.
HandleJoinRoom(b) ==
    /\ Handles(b, "join_room")
    /\ Unlocked
    /\ Pop(b)
    /\ IF b \in members
       THEN UNCHANGED <<members, joinedAt, send, dropped>>
       ELSE /\ members' = members \cup {b}
            /\ joinedAt' = [joinedAt EXCEPT ![b] = Len(stored)]
            /\ SendJSON(b, [type |-> "joined", history |-> History])
    /\ UNCHANGED <<browserVars, stored, stage, todo>>

HandleLeaveRoom(b) ==
    /\ Handles(b, "leave_room")
    /\ Unlocked
    /\ Pop(b)
    /\ members' = members \ {b}
    /\ UNCHANGED <<browserVars, stored, stage, todo, send, dropped, joinedAt>>

SaveMessage(p) == stored' = Append(stored, p) /\ stage' = [stage EXCEPT ![p] = "saved"]

\* handleMessage as far as the store: the room exists; is the sender in it?
HandleMessage(b, p) ==
    /\ Handles(b, "message")
    /\ Head(inbox[b]).post = p
    /\ Pop(b)
    /\ \/ b \in members /\ SaveMessage(p)
       \/ b \notin members /\ stage' = [stage EXCEPT ![p] = "lost"] /\ UNCHANGED stored
    /\ UNCHANGED <<browserVars, members, todo, joinedAt, send, dropped>>

\* InjectFromMesh, case MsgTypeMessage, as far as the store: nothing is checked.
InjectFromMesh(m, p) ==
    /\ Author[p] = m
    /\ stage[p] = "new"
    /\ Idle(m)
    /\ SaveMessage(p)
    /\ UNCHANGED <<browserVars, members, todo, joinedAt, inbox, send, dropped>>

\* Mutants of Broadcast: the sender is left out; the sender is added, a member
\* or not.
BroadcastToOthers(p) ==
    /\ stage[p] = "saved"
    /\ stage' = [stage EXCEPT ![p] = "sent"]
    /\ todo' = [todo EXCEPT ![p] = members \ {Author[p]}]
    /\ UNCHANGED <<browserVars, stored, members, inbox, send, dropped, joinedAt>>

BroadcastAndEcho(p) ==
    /\ stage[p] = "saved"
    /\ stage' = [stage EXCEPT ![p] = "sent"]
    /\ todo' = [todo EXCEPT ![p] = members \cup {Author[p]}]
    /\ UNCHANGED <<browserVars, stored, members, inbox, send, dropped, joinedAt>>

\* h.mu.RLock, and the loop over the members begins.
Broadcast(p) ==
    /\ stage[p] = "saved"
    /\ stage' = [stage EXCEPT ![p] = "sent"]
    /\ todo' = [todo EXCEPT ![p] = members]
    /\ UNCHANGED <<browserVars, stored, members, inbox, send, dropped, joinedAt>>

\* One turn of the loop; h.mu.RUnlock after the last.
BroadcastTo(p, b) ==
    /\ b \in todo[p]
    /\ todo' = [todo EXCEPT ![p] = @ \ {b}]
    /\ SendJSON(b, [type |-> "message", post |-> p])
    /\ UNCHANGED <<browserVars, stored, stage, members, inbox, joinedAt>>

User(b) == SwitchToRoom(b) \/ LeaveRoom(b) \/ (\E p \in Post : SendMessage(b, p))

Handle(b) ==
    HandleJoinRoom(b) \/ HandleLeaveRoom(b) \/ (\E p \in Post : HandleMessage(b, p))

Deliver(p) ==
    Broadcast(p) \/ (\E b \in Browser : BroadcastTo(p, b))

Next ==
    \/ \E b \in Browser : User(b) \/ Handle(b) \/ Receive(b)
    \/ \E p \in Post : Deliver(p) \/ (\E m \in Peer : InjectFromMesh(m, p))

Spec == Init /\ [][Next]_vars

(***************************************************************************)
(* Safety                                                                  *)
(***************************************************************************)

\* After(v, events)[k]: what was v once the first k events have been handled
After(v, events) ==
    LET after[k \in 0..Len(events)] ==
            IF k = 0 THEN v ELSE Shown(after[k - 1], events[k])
    IN  after

\* What b will be shown when everything on its way has arrived
Coming(b) == After(view[b], send[b])[Len(send[b])]

Posts(v) == IF v = NoView THEN {} ELSE ToSet(v)

\* b clicked leave and the server does not know yet.
IsLeaving(b) == \E i \in DOMAIN inbox[b] : inbox[b][i].type = "leave_room"

\* No post falls between the history and the broadcasts: a member whose channel
\* was never full sees, or is about to be sent, the last Limit posts before it
\* joined and every post saved since (handleJoinRoom adds the member before it
\* reads the history, handleMessage saves before it broadcasts).
NoGap ==
    \A b \in members \ dropped : ~IsLeaving(b) =>
        \A i \in DOMAIN stored : i > joinedAt[b] - Limit =>
            \/ stored[i] \in Posts(Coming(b))
            \/ stage[stored[i]] = "saved"
            \/ b \in todo[stored[i]]

\* Where a post first appears
FirstIn(v, p) == CHOOSE i \in DOMAIN v : v[i] = p /\ \A j \in 1..(i - 1) : v[j] # p

\* The posts of one author appear first in the order the server got them, for
\* every member, across joins, histories and concurrent broadcasts of others
\* (one ReadPump handles an author's messages one after the other).
AuthorOrder ==
    \A b \in members : \A i, j \in DOMAIN stored :
        LET v == Coming(b)
        IN  /\ i < j
            /\ Author[stored[i]] = Author[stored[j]]
            /\ {stored[i], stored[j]} \subseteq Posts(v)
            => FirstIn(v, stored[i]) < FirstIn(v, stored[j])
=============================================================================
