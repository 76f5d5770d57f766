------------------------------ MODULE Delivery ------------------------------
(***************************************************************************)
(* Direct messages and their receipts, from browser to browser: handleDM,  *)
(* handleGetDMHistory, handleDeliveryReceipt and InjectFromMesh of         *)
(* internal/hub/hub.go, UpdateDMStatus of internal/store/store.go, and the *)
(* DM part of frontend/app.js.                                             *)
(*                                                                         *)
(* A handler is a sequence of effects (save, set a status, send to a       *)
(* client, propagate), each atomic under the lock of what it touches.      *)
(* Handlers of different connections and of mesh peers run concurrently;   *)
(* those of one connection, or of one peer, run one after the other.       *)
(*                                                                         *)
(* Abstracted: contents, the time encryption takes, the echo to the sender *)
(* (which his browser skips), the limit of 50 of a history, time (the      *)
(* limiter of ProcessMessage may throttle any request) and the way of a    *)
(* message through the mesh (MeshGossip).  Here a DM comes to each other   *)
(* server once or, lost on its way, never, and does not come back to its   *)
(* first server; a receipt, which no server forwards, comes at most to the *)
(* direct peers of the server that sends it.  Users stay connected (Hub).  *)
(***************************************************************************)
EXTENDS Integers, SequencesExt

CONSTANTS
    User,
    Server,
    Home,      \* Home[u]: the server of user u
    DM,        \* direct messages
    From, To,  \* From[d], To[d]: sender and recipient of d
    Direct,    \* pairs of servers that are peers of each other
    NoUser,    \* the user looks at a room
    Cap,       \* capacity of Client.Send
    MaxSwitches  \* bound on the number of times views are switched

ASSUME HomeAssumption == Home \in [User -> Server]
ASSUME EndsAssumption ==
    From \in [DM -> User] /\ To \in [DM -> User] /\ \A d \in DM : From[d] # To[d]
ASSUME UserAssumption == NoUser \notin User /\ User \cap (Server \X Server) = {}
ASSUME DirectAssumption == Direct \subseteq Server \X Server
ASSUME DMAssumption == IsFiniteSet(DM)
ASSUME BoundAssumption == Cap \in Nat \ {0} /\ MaxSwitches \in Nat

Link   == {l \in Server \X Server : l[1] # l[2]}
Worker == User \cup Link      \* a ReadPump, or the readPump of a mesh peer
HomeOf(w) == IF w \in User THEN Home[w] ELSE w[2]

Receipt == {"delivered", "read"}
Stored  == {"none", "saved"} \cup Receipt   \* "saved": Status is empty
Shown   == {"none", "sent"} \cup Receipt

\* What travels between servers, and to browsers: a DM or one of its receipts
Event    == [type : {"dm"} \cup Receipt, dm : DM]
History  == [type : {"dm_history"}, peer : User, status : [DM -> Stored]]
Request  == [type : {"dm", "read"}, dm : DM]
            \cup [type : {"get_dm_history"}, peer : User]
Effect   == [op : {"save"}, dm : DM]
            \cup [op : {"status"}, dm : DM, status : Receipt]
            \cup [op : {"send"}, to : User, event : Event \cup History]
            \cup [op : {"propagate"}, event : Event]

VARIABLES
    stored,    \* stored[s][d]: d's Status in the store of server s
    view,      \* view[u][d]: status of d in messageStore of u's browser
    viewing,   \* viewing[u]: whose conversation u looks at (currentView)
    inbox,     \* inbox[u]: requests on their way to the server
    send,      \* send[u]: Client.Send and the socket
    mesh,      \* mesh[l]: messages on link l
    job,       \* job[w]: what worker w's handler still has to do
    posted,    \* DMs the user has sent
    lost,      \* history: DMs answered with "User not found", and those of which
               \* a request, a copy or a receipt was dropped
    handed,    \* history: DMs put into their recipient's Send, also in a history
    seen,      \* history: DMs shown in a conversation their recipient looked at
    dropped,   \* history: users whose Send was full once
    switches   \* number of times views were switched

vars == <<stored, view, viewing, inbox, send, mesh, job, posted, lost, handed,
          seen, dropped, switches>>

\* The values of the variables.
TypeOK ==
    /\ stored \in [Server -> [DM -> Stored]]
    /\ view \in [User -> [DM -> Shown]]
    /\ viewing \in [User -> User \cup {NoUser}]
    /\ inbox \in [User -> Seq(Request)]
    /\ send \in [User -> Seq(Event \cup History)]
    /\ mesh \in [Link -> Seq(Event)]
    /\ job \in [Worker -> Seq(Effect)]
    /\ posted \subseteq DM
    /\ lost \subseteq DM
    /\ handed \subseteq DM
    /\ seen \subseteq DM
    /\ dropped \subseteq User
    /\ switches \in 0..MaxSwitches

Init ==
    /\ stored = [s \in Server |-> [d \in DM |-> "none"]]
    /\ view = [u \in User |-> [d \in DM |-> "none"]]
    /\ viewing = [u \in User |-> NoUser]
    /\ inbox = [u \in User |-> <<>>]
    /\ send = [u \in User |-> <<>>]
    /\ mesh = [l \in Link |-> <<>>]
    /\ job = [w \in Worker |-> <<>>]
    /\ posted = {}
    /\ lost = {}
    /\ handed = {}
    /\ seen = {}
    /\ dropped = {}
    /\ switches = 0

browserVars == <<view, viewing, posted, seen, switches>>
serverVars  == <<stored, mesh, job, lost, handed, dropped>>

(***************************************************************************)
(* The browser                                                             *)
(***************************************************************************)

Conversation(u, peer) == {d \in DM : {From[d], To[d]} = {u, peer}}
Kept(u, peer) == {d \in Conversation(u, peer) : view[u][d] # "none"}

\* The submit handler: u sends d from the open conversation and stores it.
SendDM(d) ==
    /\ d \notin posted
    /\ viewing[From[d]] = To[d]
    /\ posted' = posted \cup {d}
    /\ view' = [view EXCEPT ![From[d]][d] = "sent"]
    /\ inbox' = [inbox EXCEPT ![From[d]] = Append(@, [type |-> "dm", dm |-> d])]
    /\ UNCHANGED <<serverVars, send, viewing, seen, switches>>

\* switchToDM: an empty conversation is fetched; sendReadReceipts for another.
SwitchToDM(u, peer) ==
    LET unread == {d \in Kept(u, peer) : To[d] = u /\ view[u][d] # "read"}
    IN  /\ peer # u
        /\ switches < MaxSwitches
        /\ switches' = switches + 1
        /\ viewing' = [viewing EXCEPT ![u] = peer]
        /\ view' = [view EXCEPT ![u] = [d \in DM |-> IF d \in unread THEN "read" ELSE @[d]]]
        /\ seen' = seen \cup unread
        /\ inbox' = [inbox EXCEPT ![u] = @ \o
              IF Kept(u, peer) = {} THEN <<[type |-> "get_dm_history", peer |-> peer]>>
              ELSE SetToSeq({[type |-> "read", dm |-> d] : d \in unread})]
        /\ UNCHANGED <<serverVars, send, posted>>

SwitchToRoom(u) ==
    /\ viewing[u] # NoUser
    /\ switches < MaxSwitches
    /\ switches' = switches + 1
    /\ viewing' = [viewing EXCEPT ![u] = NoUser]
    /\ UNCHANGED <<serverVars, inbox, send, view, posted, seen>>

Arrives(u, type) ==
    /\ send[u] # <<>>
    /\ Head(send[u]).type = type
    /\ send' = [send EXCEPT ![u] = Tail(@)]
    /\ UNCHANGED <<serverVars, viewing, posted, switches>>

\* Mutant: any open conversation will do.
LooksAtSome(u, d) == viewing[u] # NoUser

LooksAt(u, d) == viewing[u] = From[d]

\* case 'dm': the receipt of a message that appears in the open conversation is
\* sent, but not noted.
ReceiveDM(u) ==
    /\ Arrives(u, "dm")
    /\ LET d == Head(send[u]).dm
       IN  /\ view' = [view EXCEPT ![u][d] = "delivered"]
           /\ seen' = seen \cup {x \in {d} : viewing[u] = From[x]}
           /\ inbox' = IF LooksAt(u, d)
                       THEN [inbox EXCEPT ![u] = Append(@, [type |-> "read", dm |-> d])]
                       ELSE inbox

\* updateMessageStatus: the status is set, whatever it was.
ReceiveReceipt(u, status) ==
    /\ Arrives(u, status)
    /\ LET d == Head(send[u]).dm
       IN  view' = [view EXCEPT ![u][d] = IF @ = "none" THEN @ ELSE status]
    /\ UNCHANGED <<seen, inbox>>

\* Mutant: the status of a history is taken as it is.
MergedAsIs(kept, status) == IF status = "none" /\ kept = "sent" THEN kept ELSE status

\* What becomes of a message with the status kept, and with this one in the
\* store, or none: what was heard of only here survives if it is "sent".
Merged(kept, status) ==
    CASE status = "none"  -> IF kept = "sent" THEN "sent" ELSE "none"
      [] status = "saved" -> "delivered"
      [] OTHER            -> status

\* case 'dm_history': it replaces the conversation.
ReceiveHistory(u) ==
    /\ Arrives(u, "dm_history")
    /\ LET event == Head(send[u])
           talk  == Conversation(u, event.peer)
       IN  /\ view' = [view EXCEPT ![u] = [d \in DM |->
                  IF d \in talk THEN Merged(@[d], event.status[d]) ELSE @[d]]]
           /\ seen' = seen \cup {d \in talk : /\ To[d] = u /\ viewing[u] = event.peer
                                             /\ view'[u][d] # "none"}
    /\ UNCHANGED inbox

(***************************************************************************)
(* The handlers: which effects follow                                      *)
(***************************************************************************)

Save(d)           == [op |-> "save", dm |-> d]
Status(d, status) == [op |-> "status", dm |-> d, status |-> status]
Send(u, event)    == [op |-> "send", to |-> u, event |-> event]
Propagate(event)  == [op |-> "propagate", event |-> event]
About(d, type)    == [type |-> type, dm |-> d]

\* The ReadPump of u takes the next request and begins its handler.
Begins(u, type) ==
    /\ job[u] = <<>>
    /\ inbox[u] # <<>>
    /\ Head(inbox[u]).type = type
    /\ inbox' = [inbox EXCEPT ![u] = Tail(@)]
    /\ UNCHANGED <<browserVars, stored, send, mesh, handed, dropped>>

\* ProcessMessage: less than 33 ms after the last request of this user the next
\* one is dropped, and nobody is told.
Throttled(u) ==
    /\ \E type \in {"dm", "read", "get_dm_history"} : Begins(u, type)
    /\ lost' = lost \cup {d \in DM : \E type \in {"dm", "read"} :
                               Head(inbox[u]) = [type |-> type, dm |-> d]}
    /\ UNCHANGED job

\* Mutant: the acknowledgement goes first.
LocalAckFirst(d) ==
    <<Save(d), Status(d, "delivered"), Send(From[d], About(d, "delivered")),
      Send(To[d], About(d, "dm")), Propagate(About(d, "dm"))>>

\* handleDM for a recipient who is on this server
Local(d) ==
    <<Save(d), Send(To[d], About(d, "dm")), Status(d, "delivered"),
      Send(From[d], About(d, "delivered")), Propagate(About(d, "dm"))>>

\* Mutant: a DM from the mesh is not acknowledged.
InjectedWithoutAck(d) == <<Send(To[d], About(d, "dm")), Save(d)>>

\* InjectFromMesh for a recipient who is on this server
Injected(d) == <<Send(To[d], About(d, "dm")), Propagate(About(d, "delivered")), Save(d)>>

\* handleDM: the recipient is in UserClients, or a remote user is known by that
\* name, or nobody is (the other server has not announced him yet).
HandleDM(u) ==
    /\ Begins(u, "dm")
    /\ LET d == Head(inbox[u]).dm
       IN  \/ /\ Home[To[d]] = Home[u]
              /\ job' = [job EXCEPT ![u] = Local(d)]
              /\ UNCHANGED lost
           \/ /\ Home[To[d]] # Home[u]
              /\ job' = [job EXCEPT ![u] = <<Save(d), Propagate(About(d, "dm"))>>]
              /\ UNCHANGED lost
           \/ /\ Home[To[d]] # Home[u]
              /\ lost' = lost \cup {d}
              /\ UNCHANGED job

\* What becomes of a receipt for d on server s
Receipted(s, d, status) ==
    IF Home[From[d]] = s
    THEN <<Status(d, status), Send(From[d], About(d, status))>>
    ELSE <<Status(d, status)>>

HandleDeliveryReceipt(u) ==
    /\ Begins(u, "read")
    /\ LET d == Head(inbox[u]).dm
       IN  job' = [job EXCEPT ![u] =
                     Append(Receipted(Home[u], d, "read"), Propagate(About(d, "read")))]
    /\ UNCHANGED lost

\* GetDMs reads the store; the answer is sent later, unless it is empty.
HandleGetDMHistory(u) ==
    /\ Begins(u, "get_dm_history")
    /\ LET peer == Head(inbox[u]).peer
           status == [d \in DM |-> IF d \in Conversation(u, peer) THEN stored[Home[u]][d] ELSE "none"]
       IN  job' = [job EXCEPT ![u] =
                     IF \A d \in DM : status[d] = "none" THEN <<>>
                     ELSE <<Send(u, [type |-> "dm_history", peer |-> peer, status |-> status])>>]
    /\ UNCHANGED lost

\* InjectFromMesh: a DM is handed over and acknowledged before it is stored.
InjectFromMesh(l) ==
    /\ job[l] = <<>>
    /\ mesh[l] # <<>>
    /\ mesh' = [mesh EXCEPT ![l] = Tail(@)]
    /\ LET event == Head(mesh[l])
           d     == event.dm
       IN  job' = [job EXCEPT ![l] =
             IF event.type # "dm" THEN Receipted(l[2], d, event.type)
             ELSE IF Home[To[d]] # l[2] THEN <<Save(d)>>
             ELSE Injected(d)]
    /\ UNCHANGED <<browserVars, stored, inbox, send, lost, handed, dropped>>

(***************************************************************************)
(* The effects                                                             *)
(***************************************************************************)

Does(w, op) ==
    /\ job[w] # <<>>
    /\ Head(job[w]).op = op
    /\ job' = [job EXCEPT ![w] = Tail(@)]
    /\ UNCHANGED <<browserVars, inbox>>

SaveDM(w) ==
    /\ Does(w, "save")
    /\ stored' = [stored EXCEPT ![HomeOf(w)][Head(job[w]).dm] = "saved"]
    /\ UNCHANGED <<send, mesh, lost, handed, dropped>>

\* A message that is not stored has no status.
UpdateDMStatus(w) ==
    /\ Does(w, "status")
    /\ stored' = [stored EXCEPT ![HomeOf(w)][Head(job[w]).dm] =
                     IF @ = "none" THEN @ ELSE Head(job[w]).status]
    /\ UNCHANGED <<send, mesh, lost, handed, dropped>>

\* The DMs an event shows to its receiver
Carried(event) ==
    CASE event.type = "dm"         -> {event.dm}
      [] event.type = "dm_history" -> {d \in DM : event.status[d] # "none"}
      [] OTHER                     -> {}

\* A full channel drops.
SendJSON(w) ==
    /\ Does(w, "send")
    /\ LET u     == Head(job[w]).to
           event == Head(job[w]).event
       IN  \/ /\ Len(send[u]) < Cap
              /\ send' = [send EXCEPT ![u] = Append(@, event)]
              /\ handed' = handed \cup {d \in Carried(event) : To[d] = u}
              /\ UNCHANGED dropped
           \/ /\ Len(send[u]) >= Cap
              /\ dropped' = dropped \cup {u}
              /\ UNCHANGED <<send, handed>>
    /\ UNCHANGED <<stored, mesh, lost>>

\* The ways of an event from server s: a DM is forwarded through the mesh, a
\* receipt is not (propagateExcept finds its id in seen).
Ways(s, event) == {l \in Link : l[1] = s /\ (event.type = "dm" \/ l \in Direct)}

\* The channel of a peer may be full, and so may those of the peers behind it:
\* got are the ways on which nothing is dropped.
MeshPropagate(w) ==
    /\ Does(w, "propagate")
    /\ LET event == Head(job[w]).event
           ways  == Ways(HomeOf(w), event)
       IN  \E got \in SUBSET ways :
              /\ mesh' = [l \in Link |-> IF l \in got THEN Append(mesh[l], event) ELSE mesh[l]]
              /\ lost' = IF got = ways THEN lost ELSE lost \cup {event.dm}
    /\ UNCHANGED <<stored, send, handed, dropped>>

Browser(u) ==
    \/ SwitchToRoom(u) \/ \E peer \in User : SwitchToDM(u, peer)
    \/ ReceiveDM(u) \/ ReceiveHistory(u) \/ \E status \in Receipt : ReceiveReceipt(u, status)

Handle(u) == Throttled(u) \/ HandleDM(u) \/ HandleDeliveryReceipt(u) \/ HandleGetDMHistory(u)

Work(w) == SaveDM(w) \/ UpdateDMStatus(w) \/ SendJSON(w) \/ MeshPropagate(w)

Next ==
    \/ \E d \in DM : SendDM(d)
    \/ \E u \in User : Browser(u) \/ Handle(u)
    \/ \E l \in Link : InjectFromMesh(l)
    \/ \E w \in Worker : Work(w)

Spec == Init /\ [][Next]_vars

(***************************************************************************)
(* Safety                                                                  *)
(***************************************************************************)

\* Two blue ticks are true: a DM counts as read, in a store or with its sender,
\* only if its recipient had it before his eyes.
ReadIsTrue ==
    \A d \in DM :
        (\E s \in Server : stored[s][d] = "read") \/ view[From[d]][d] = "read" => d \in seen

\* Two ticks are true: a DM is shown as delivered only if it was put into the
\* recipient's channel, alone or in a history, or that channel was full
\* (SendJSON does not tell its caller).
DeliveredIsTrue ==
    \A d \in DM : view[From[d]][d] \in Receipt => d \in handed \/ To[d] \in dropped

Quiet ==
    /\ \A u \in User : inbox[u] = <<>> /\ send[u] = <<>>
    /\ \A l \in Link : mesh[l] = <<>>
    /\ \A w \in Worker : job[w] = <<>>

\* Home[To[d]] can tell the server of d's sender.
Linked(d) == Home[To[d]] = Home[From[d]] \/ <<Home[To[d]], Home[From[d]]>> \in Direct

\* When everything has arrived, a DM of which nothing was dropped is with every
\* server, and is not stuck at one tick if the two servers are peers: the sender
\* and his server have heard that it was delivered, whatever histories, second
\* receipts and switches of views came between.  A DM that is stuck was refused,
\* throttled, lost on a full channel, or sent over more than one hop.
NoneStuck ==
    Quiet => \A d \in posted \ lost :
        /\ \A s \in Server : stored[s][d] # "none"
        /\ Linked(d) => /\ stored[Home[From[d]]][d] \in Receipt
                        /\ view[From[d]][d] \in Receipt \/ From[d] \in dropped

(***************************************************************************)
(* What the documentation says, and the code does not do                   *)
(***************************************************************************)

\* ARCHITECTURE.md:721: receipts "update stored message status via
\* UpdateDMStatus, so dm_history reflects true state".  When everything has
\* arrived and nothing was dropped, the sender's server has a DM that was read
\* in the open conversation as read.
StatusIsTrue ==
    Quiet /\ dropped = {} => \A d \in posted \ lost :
        view[To[d]][d] = "read" => stored[Home[From[d]]][d] = "read"
=============================================================================
