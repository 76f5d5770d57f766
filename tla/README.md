# A verification project for WiFi Chat

WiFi Chat is a LAN chat: a Go server (`cmd`, `internal`) that serves a browser
client (`frontend`) over WebSockets, and that exchanges messages with other
servers over a gossip mesh. These modules model the parts of it that are
concurrent, or that must survive loss and crashes. TLC checks them on small
instances, and TLAPS proves the most important invariants for all instances.

## The system

| component | state | operations | talks to |
|---|---|---|---|
| Hub (`internal/hub/hub.go`) | `Clients`, `UserClients`, `Rooms`, `RemoteUsers`, `joinCooldown`, `rateLimiter`, one `RWMutex` | `Run` (Register, Unregister), one handler per message type, `InjectFromMesh` | clients by `SendJSON`, store by calls, mesh by `Propagate` |
| Client (`internal/hub/client.go`) | `Send` (256), `Rooms`, `Username`, `closed` | `ReadPump`, `WritePump`, `SendJSON`, `CloseSend` | hub by calls and the channel `Unregister` |
| Message store (`internal/store/store.go`) | `messages`, `nextID`, `file`; `messages.jsonl` | `SaveMessage`, `SaveDM`, `UpdateDMStatus` (rewrite), `GetRoomMessages`, `GetDMs`, load, `Close` | file system |
| Mesh (`internal/mesh/mesh.go`) | `peers`, `seen`, `remoteUsers`, `localUsers`, `outbox`, `connectedURLs` | `Propagate`, `readPump`, `propagateExcept`, announces, `ConnectPeer`, `AcceptPeer` | hub by two callbacks, peers by WebSockets |
| Discovery (`internal/discovery/discovery.go`) | `peers` by node | announce, listen, cleanup | mesh by `OnPeerFound` |
| Server, entry point (`internal/server`, `cmd`) | wiring | routes, `handleWebSocket`, `handleMeshPeer`, `Shutdown` | everything |
| Browser chat (`frontend/app.js`) | `messageStore`, `currentView`, `ws`, `unreadCounts` | `connect`, `handleMessage`, `switchToRoom`, `switchToDM`, receipts, uploads, wipe | server by WebSocket, calls, keys |
| Browser calls (`frontend/call.js`) | `state`, `peer`, `pc`, `localStream` | call, accept, reject, end, offer, answer, ICE | server by signals |
| Browser keys (`frontend/crypto.js`) | `keyPair`, `peerKeys`, `sharedKeys` | `init`, `importPeerKey`, `encrypt`, `decrypt` | chat and calls |

The repository has no tests. What makes the system hard:

* **Concurrency in the hub.** Every connection has a `ReadPump` that runs
  handlers, `Run` is one more goroutine, and every mesh peer has a `readPump`
  that runs `InjectFromMesh`. `Run` receives from a channel and takes the lock
  afterwards; handlers take and release the lock several times.
* **Identity.** A user is a name, a connection is a pointer, and a reload of the
  page makes the two disagree: the new connection, the teardown of the old one
  and a cooldown of five seconds come in any order.
* **Order without a common lock.** A message is stored under one lock, sent under
  another, and acknowledged later.
* **Loss.** Full channels drop silently, links fail, the process may end between
  two writes to the file.
* **Gossip.** Cycles and double links, and two identifiers per message.
* **Awaits in the browser.** A handler is cut into pieces by `await`; callbacks of
  old sockets, timers, signals and clicks come in between, and the pieces read
  globals (`ws`, `this.peer`, `this.pc`) again.
* **Two memories.** A page keeps some of its state in `sessionStorage` and the
  rest in variables; a reload loses one, an emergency wipe the other.

What makes the parts correct: names belong to live connections and are freed by
nobody else; a name that was announced is held by somebody; rooms, connections and
the user lists that arrive agree; a member whose channel was never full misses no
post, and sees the posts of one author in order; ticks do not lie, and a message
waits for its second tick only if something of it was refused, throttled or lost, or
its receipt had to go further than one hop; gossip ends, delivers once, and reaches
every node that is served whichever copy comes first; ids in the store stay ordered,
and the file has what memory has while nothing fails. Both ends of a first call
agree, and nobody is left in one alone; a page is never left without a connection, a
timer or the login form, and never has two connections for one login; where shared
keys can be derived at all, a fingerprint is that of the key in use, a key that was
used once is kept, and texts are encrypted with the key pair that was published.
`PROJECT.json` lists the hazards behind these with their lines, and says of each
which property would catch it, or why none does.

## Modules

| module | models | abstract counterpart, proofs |
|---|---|---|
| `Hub` | connections, pumps, `Run`, joins, rooms, user lists | `NameRegistry`; `HubProofs` |
| `MeshGossip` | `Propagate`, `readPump`, `propagateExcept`, `alreadySeen` | `MeshGossipProofs` |
| `MessageStore` | the slice, the file, rewrites, crashes, shutdown | `MessageStoreProofs` |
| `RoomFeed` | one room from the sender's browser to the members' | `RoomFeedProofs` |
| `Delivery` | DMs and receipts between browsers on several servers | `DeliveryProofs` |
| `Call` | `call.js` in two browsers, and the hub's forwarding of signals | `CallProofs` |
| `E2EEKeys` | `crypto.js`, its callers in `app.js`, keys in user lists | `E2EEKeysProofs` |
| `BrowserSession` | one tab: login, sockets, reconnecting, wipe, joined rooms | `BrowserSessionProofs` |
| `NameRegistry` | what the hub promises about names | |
| `MC...` | instances for TLC | |

Definitions that end the name of a code operation with a variation and are
marked *Mutant* (`ReleaseNothing`, `TakeUnmarked`, ...) are deliberate faults:
each property was seen to fail when one of them replaces the definition it
stands next to.

### Hub

`phase[c]` says how far the goroutines of connection `c` are: accepted
(`handleWebSocket` has handed it to `Register`), reading, leaving (`ReadMessage`
failed), gone (`Run` has received its Unregister). `hubRun` is what `Run` has received
and not yet applied: between the receive (hub.go:82, 87) and `h.mu.Lock()` any handler
may run. `owner` is `UserClients`, `members` the values of `Rooms`, `joined[c]` is
`Client.Rooms`, `roster[c]` the last user list that reached `c`. `SendJSON` drops a
list silently when `Send` is full (client.go:119-123), so each list is lost to any
subset of the connections in `Slow`, and `missed` are those whose last list was lost.
A handler changes these inside one critical section, so it is one action; `HandleJoin`
contains the kick, the registration, #general, the announcement and the list.
`announced` are the names #general was last told `user_joined` about; who was told
does not matter. Time is reduced to `CooldownExpires`. `Rejoin` allows a second join
on one connection. The browser sends one per socket (app.js:56-68) unless the login
form is submitted again before the first socket is open (`BrowserSession`); the
invariants of names are about browsers that do not, and say nothing of the two names
such a connection would have.

`NameRegistry` is what the hub promises to clients that claim one name, once: the
latest claim has the name, only the client whose name was claimed may be evicted
before it departs, and settling a departure frees whatever name the departed client
still holds and takes none from anybody else. A client has departed when `Run` was
handed its Unregister, and is settled when `Run` is done with it.

### MeshGossip

A link is a WebSocket; `wire[p]` is the sender's channel with the socket behind
it, bounded by `Cap`, and full means dropped. `Take` is the test-and-set of the
message's identifier in `readPump`, `Relay` the delivery to the hub and the
forwarding. `Chat` messages have a `message_id` of their own, `Signal` and
`Announce` messages have one identifier twice. `Decrement`, `MayForward`,
`ForwardTTL` are the arithmetic of the TTL, the reset of 0 to `MaxTTL` included.
`LinkFails` is the end of `dialPeer` and `AcceptPeer` when `readPump` returns, at both
ends at once.

How far a message gets is not only a matter of its TTL. The copy that comes first to
a node is the one it forwards, with the TTL that copy has left, and on a cycle it may
have come the long way. `Spent(o)` are the nodes that a copy from `o` can reach with
its last hop, over some path; `Served[o]` the neighbours of `o`, and those of every
node that is served and never spent. `ChatsArrive` says that these are reached.

### MessageStore

A caller holds `s.mu` for the whole of a save, so that is one step; a rewrite is
a truncation, one step per line, and an end, because the process may be ended
between any two. A write may fail and leave half a line; a half line swallows the
next one. `Close` needs no lock and may come at any time, and after it `main`
ends the process at any time.

### RoomFeed and Delivery

Both run from browser to browser, with the requests on their way (`inbox`), the
handlers, the bounded `Send` (`send`), and what the browser keeps (`view`).
`RoomFeed` separates the save of a post from the loop that sends it, under a read
lock that several loops share; joins and leaves need all of them to have ended.
`Delivery` makes a handler a sequence of effects (`job[w]`), each atomic, in the
order of the code, so that handlers of different goroutines interleave between
effects. In `Delivery` the recipient is on the sender's server or on another one,
and then known there, or not yet (refused). `Throttled` is the limiter of
`ProcessMessage`: any request may be the one that came less than 33 ms after the last
(hub.go:141-150). The mesh is reduced to what it does to one message: a DM gets to
any of the other servers or is lost on the way there, since channels on its path may
be full (mesh.go:251-260); a receipt gets to direct peers only (`Direct`, `Ways`),
since no server forwards it (mesh.go:281). `lost` are the DMs of which a request, a
copy or a receipt did not arrive. That a copy comes back to its first server, or
comes twice, is left to `MeshGossip`.

### Call

`state`, `peer`, `stream`, `pc` are the fields of `callManager`; `modal` and
`overlay` are what the user sees of it, and so what he can click. A handler runs up
to its next `await`, where it becomes a `Task` that says what it waits for:
`getUserMedia` (`media`), `setRemoteDescription` (`remote`), creating and setting
the local description (`describe`), encryption and decryption. Other handlers run
before it is resumed, and it then finds the `peer` and `pc` of that moment. `Fails`
is the catch block: a denied microphone, or an operation on a connection that is
not the one the handler began with; a connection that was closed never answers
(`Hung`). `inbox` and `send` are the WebSockets, `Relay` is `handleCallSignal`.

### E2EEKeys

A key pair is a number per user, a shared key the two numbers it was derived from,
so that the properties can ask whose key is in use. `Open`, `Restore` and `Join`
are `onopen` before, during and after `cryptoManager.init`; `UserList` and
`Imported` are `importPeerKey` before and after its awaits. `Reload` keeps
`sessionStorage` (`savedPair`, `savedPeers`), `NewTab` and logout keep nothing,
`Wipe` clears `sessionStorage` and keeps memory. `sessionStorage` may be full: `init`
then fails with its pair in memory (`Generates`), and `_savePeerKey` says nothing
(`Saves`); `full` are the users this happened to. `Announces` is what the hub sends
when somebody's key changes: user lists, with all keys, and `user_joined`, with one;
each may be lost to anybody. `SendDM` is a text that is encrypted. What leaves in
plaintext changes no key and is not an action; it is, whatever keys there are, every
caption (app.js:747), `/slap` (998) and `/hug` (1014), and every text for which
`encrypt` throws (crypto.js:111-113, app.js:1236). So no property says that nobody
is sent plaintext; `KeyIsKept` says that the key does not go away. `EnforcesUsages` says whether the
platform checks what a key may be used for, as WebCrypto demands: with it, the
derivation fails (see below), and with `FALSE` the model is that of what the code
means to do.

### BrowserSession

`Connect` is `connect`: it makes a socket and lets the global `ws` point to it,
whatever became of the one before. Each socket has callbacks of its own, which go
on to act on the page: `Opened` and `Joins` are `onopen` before and after its
await, `OnClose` is `onclose` with its counter and its timer. `store` is the set of
rooms that have an entry in `messageStore`, which is how `switchToRoom` tells that
a room is joined; `joined[s]` is what the hub knows. `Wipe` and `Logout` differ as
in the code: the first leaves the page, its variables and its callbacks alive.

## What the runs show

| run | instance | result |
|---|---|---|
| `hub` | 3 connections, 2 names, 2 rooms, symmetric | the safety of `Hub` with any list lost to anybody, `NameRegistry` implemented (2 150 000 states) |
| `hub_live` | 2 connections, no list lost | dead sockets free their names, kicked connections are torn down |
| `mesh` | 3 nodes, one pair linked twice, capacity 1, 2 failures, a room message and an announce | delivered once (125 358 states) |
| `mesh_live` | 5 nodes: a triangle, one side of it double, with a tail of two; `MaxTTL` 2, 2 failures, a room message | TTL bounds the reach, gossip ends, every served node is reached (47 840 states) |
| `store` | 2 keys, 4 ids, memory 2, 1 crash, 1 failure, graceful end | ids ordered and unambiguous, memory on disk, rewrites are prefixes |
| `room_feed` | 2 browsers (3 and 1 join or leave requests), 1 mesh peer, 3 posts, history 2, channel 2 | no gap, authors in order (800 636 states) |
| `delivery` | 2 users on one server, 1 on another, a local and a remote DM, channel 2, 4 switches, any request throttled, any copy lost | read and delivered are true, none is stuck of which nothing was lost (2 446 269 states) |
| `call` | 2 users, 2 calls, who may call each other at once | buttons fit the state; the ends of a first call agree, were agreed to, and nobody stays alone (67 897 states) |
| `keys` | 2 users, 2 key pairs each, 4 connections opened, usages not checked, symmetric, lists lost, storage full | fingerprints true, keys kept, texts sealed with the published pair (2 059 114 states) |
| `session` | 1 tab, 2 logins, 2 names (one refused), 4 sockets, 2 attempts, 1 lost connection, 2 events | never stranded, one connection per login, the shown room is joined, a lost connection is joined again (529 622 states) |
| `keys_encrypted` | as `keys`, usages checked | violated: DMs leave in plaintext |
| `session_wipe` | 1 login, no loss | violated: a wiped page reconnects and saves again |

*Why the bounds are enough.* Three connections are the least with a takeover of a
takeover while the first teardown is pending; the second name separates "the name"
from "a name". Two links between two nodes are a cycle of length two, and in
`mesh_live` the triangle is one of length three: it brings a copy to its far corner
over one link and over two, with different TTLs left. `DeliveredOnce` is checked on
the double link only, and on larger cycles it rests on its theorem. The tail of two
has a node out of range. No announce is in `mesh_live`, so that the run never meets
the reset of a TTL of zero; that too rests on the theorem. A capacity of 1 or 2 makes
full channels frequent. Memory 2 with two keys makes eviction meet rewrites, and one
crash after one failure is the least sequence that loses a line and gives out its id
again (`IdsAgree` is about that). In `room_feed` the history is shorter than the
number of posts and the channel shorter than what a join and a post put into it. In
`delivery` four switches let both sides open, leave and open a conversation again. In
`call` the second call is what lets stale signals, handlers and connections of the
first meet a new one, and calls in both directions cross. In `keys` two pairs per user
give a changed key, and four openings let both tabs reconnect or reload around it. In
`session` the four sockets are those of two logins and their reconnections, two
attempts are the least that separate "the last attempt failed" from "another one is
due", and two events are a load or a room change before and after something else.

*Deadlock* is not checked: in every module nothing has to happen any more once
all clients have left, or the bounds are used up, or the users do nothing.

*Fairness.* `Hub`: `Run`, `WritePumpStops`, `ReadPumpStops` are weakly fair, since a
goroutine that can run is eventually scheduled, and none of them is disabled by others
once it is enabled (writes have a deadline of 10 s). `Leave` is a send on an
unbuffered channel that `Run` serves in turn, so it is enabled again and again and is
strongly fair: Go queues blocked senders first in, first out. `MeshGossip`: the pumps
are weakly fair. `Call`: the event loops and the server's pumps are weakly fair
(`Relay`, `Receive`, `Resume`), and ICE notices in the end that the far end of a
connection is gone; `getUserMedia` answers or fails. `BrowserSession`: timers fire, a
socket opens or is refused or closed, and what was sent on a connection that stays
open is handled; that it stays open is not assumed. Nothing is assumed of users,
networks, links or clocks.

## Where code and documentation part

Two promises are checked as runs that must fail:

* **`keys_encrypted`** (README.md:170). The private key is generated and imported
  with the usages `['deriveKey']` (crypto.js:28, 51), and `deriveBits` is called on
  it (crypto.js:81, 184), for which WebCrypto requires the usage `deriveBits`. The
  exception is caught and logged, no shared key is ever set, and direct messages
  are sent in plaintext. With the usage added, or on a platform that does not
  check, the run `keys` says what holds.
* **`session_wipe`** (README.md:32). `emergencyWipe` leaves `myUsername` and the
  callbacks of the socket it closes, so `onclose` connects again two seconds later,
  `init` saves a new key pair, and the histories that follow are saved, too.

Six more have a configuration of their own, which is not among the runs;
`tlc -config X.cfg M` shows a counterexample:

* **`MCHub_ConnectedIsOnline.cfg`, `MCHub`** (README.md:13). A second join within five
  seconds of the first skips the kick (hub.go:223-236): two open connections share a
  name. When the newer leaves, the older is connected, gets #general, and nobody sees
  it.
* **`MCMeshGossip_returned.cfg`, `MCMeshGossip`** (README.md:54). `Propagate` remembers
  the id (mesh.go:242), `readPump` looks for the message_id (mesh.go:550): over a cycle
  or a double link the origin's hub is handed its own message, stores and shows it
  again. Once at most: that is `DeliveredOnce`, which is proved.
* **`MCMeshGossip_reached.cfg`, `MCMeshGossip`** (README.md:54, ARCHITECTURE.md:331). In
  the triangle `b` may forward a copy with TTL 1 to `c` before `a`'s own copy with TTL 2
  comes there. `c` has then seen the message, and `d` behind it, within two links of
  `a`, is never reached, although nothing was lost.
* **`MCMeshGossip_signals.cfg`, `MCMeshGossip`** (ARCHITECTURE.md:650, 722). Receipts,
  keys and calls have one identifier: `readPump` puts it into `seen` and
  `propagateExcept` finds it there, so they go one hop.
* **`MCMessageStore_atomic.cfg`, `MCMessageStore`** (store.go:193). There is no
  temporary file and no rename.
* **`MCDelivery_status.cfg`, `MCDelivery`** (ARCHITECTURE.md:721, README.md:266).
  "delivered" may be stored after "read" and overwrite it.

What else the models brought to light, where nothing in the repository promises
the opposite or it takes two lines to see. The properties say what holds in spite
of it.

* *Calls.* Signals have no number of a call and `onCallOffer`, `onCallEnd` and
  `onCallReject` look neither at the state nor at the sender: a late one of an earlier
  call opens the microphone or ends the next call, hence the "first call" in three
  properties. A call that is ended while `getUserMedia` waits leaves the camera on until
  the next cleanup (call.js:127). `ontrack` starts a timer per track (call.js:274).
* *Presence and rooms.* A rejoin in the cooldown is silent and the departure after it is
  not, so #general may be told `user_left` twice in a row. A user list that meets a full
  channel is lost, and the browser keeps its old one until somebody joins or leaves. A
  request of a kicked connection that its `ReadPump` had already received may add it to
  a room; it stays in `Hub.Rooms` after its teardown, since `Run` skips connections that
  are not in `Clients` (hub.go:89).
* *Keys.* Captions, `/slap` and `/hug` go to a peer in plaintext when there is a key
  (app.js:747, 998, 1014), and so does a text whose encryption fails. The first key
  derived for a name stays (crypto.js:70): a peer with a new pair cannot be read until
  the tab is closed. Nothing in `frontend` sends `key_exchange`, so users of other
  servers have no keys. A DM that arrives before its sender's key was imported stays a
  padlock.
* *Sessions.* Who refreshes in a room is not joined to it again, against
  ARCHITECTURE.md:416: the welcome makes an entry in `messageStore` for the saved view
  before `switchToRoom` asks whether there is one, and so does the system line of a lost
  connection; `RoomShownIsJoined` therefore is about a tab's first connection. A form
  submitted twice gives two sockets, and the first one's join goes out on the second. A
  refused name leaves a socket that is open and not joined.

## What is proved

*Assumptions.* The named assumptions on constants in each module (distinct model
values, positive bounds), and `Rejoin = FALSE` where a theorem says so. The sets of
connections, names, rooms, nodes, links, browsers, posts, DMs, users and keys are
arbitrary, and so are the topology, the sizes of channels, memory and histories, and
the numbers of calls, crashes, key pairs, sockets, logins and attempts; no bound on
states is used. With this every safety property of the runs is stated by a theorem.

`OwnerInGeneral`, `NoGhostOwner`, the inductive invariants, `SignalsNotReturned`,
`CarriedOnce` and `ConnectionHasMedia` are proved and in no run. TLC checked
each inductive invariant on the instance of its module before it was proved.

*Hub.* `OwnerIsOpen`, `OwnerInGeneral`, `AnnouncedIsHeld`, `NoGhostOwner` follow
from `NameInv`. None of them is inductive by itself: that a name belongs to an
open connection is kept by a kick only if the kicked connection is the old owner
(`KickedHasName`); that a departed connection owns nothing needs that an owner is
a client or about to become one (`OwnersAreTracked`), which needs that whoever
`Run` was handed is past its accept (`RunIsTracked`), that a connection with
running pumps is a client, or about to be one, or was kicked (`PumpsAreTracked`),
and that only the kicked are closed before their end (`ClosedHasJoined`). That an
announced name is held needs that its holder is in #general when it leaves, or the
walk over the rooms would not tell #general (`OwnerInGeneral`).
`RosterHasNoGhosts` needs `RosterInv`: a connection that `Run` holds and has not
added yet, which broadcasts miss, has no departed user in its list either,
because `Run` cannot process a departure while it holds it. Connections whose last
list was dropped are excepted, and are back when the next one reaches them.
`NameFreedByItsOwner`,
`MembersMayPost` and `RosterHasNoGhosts` are proved with rejoins allowed.
`HubImplementsRegistry` maps joins to `Claim`, the receive from Unregister to `Depart`,
and its processing to `Settle`, whichever of its branches is taken: that a connection
which is not in `Clients`, or not the owner of its own name, holds no name that
would have to be freed is where `NameInv` is needed, `PumpsAreTracked` above all. That
a connection claims once is an assumption (`Rejoin = FALSE`), not a result.

*MeshGossip.* `DeliveredOnce`, `SignalsNotReturned` and `CarriedOnce` follow from
`IInv`: the identifier under which a node tests a message is in its `seen` before
the message is in a readPump's hand, only one hand per node holds a message, and
who has put a message on a wire has its id in `seen`. `WithinTTL` needs
`CopiesInRange`: a copy with a TTL of `t` is on a link to a node within
`MaxTTL - t + 1` links of its origin. A TTL of zero is taken for a missing one and
would start anew: only the condition for announces lets it through, and an announce
is found in `seen`, so it is not forwarded at all. `Ball` is defined by recursion
over the distance; its equations, and that balls grow, are proved by induction on a
set of numbers (`SetInduction`, from the well-foundedness of `<` on the naturals).

*MessageStore.* `IdsIncrease` follows from `IdInv`, which says for the middle of a
rewrite that every line written has a smaller id than every line to be written.
`IdsAgree` is inductive together with `IdInv`: an id is given out again only when no line
of the file has it any more.
`RewriteIsPrefix` and `MemoryOnDisk` follow from `DiskInv`: the file that a rewrite
has open has the lines of the slice up to the one that comes next, and the slice
ends the file while nothing failed.

*RoomFeed.* `HandlerInv` says that an author's requests are handled one by one: a post
is requested and stored once, and while it is being sent it is the last stored of its
author. `AuthorOrder` follows from `ShownInv`, which is about `Coming`, what a
browser will show when all that is under way to it has arrived: it is stored and, the
repetitions of histories included, in the order of the store for each author. That is
stronger than `AuthorOrder`, which asks for first places only, and needs no more than
`HandlerInv`. `NoGap` is inductive with both. `After`, the fold behind
`Coming`, is a recursive function over the events under way, treated as `Ball` is.

*Delivery.* `ReadIsTrue` is about stores and views; the claim that a DM was read
travels through requests, effects of handlers, events, copies between servers and
histories. `WiresTrue` says of each of them that it is true of what has been seen;
as nothing that was seen becomes unseen, what is under way stays true whatever
overtakes it. The only assumption of its own is that there are finitely many DMs.
`DeliveredIsTrue` follows from `HandoverInv` in the same way, for "handed over or
dropped" in place of "seen". `NoneStuck` is about an end in which nothing is under way,
and so needs an invariant of every state before it, `MovesOn`: for a DM that was sent
and of which nothing was lost there is always a request, an effect of a handler, an event or a copy
between servers that is going to store it, to confirm it to the sender's server, and to
show that to the sender, or it has been done (`Progress`; the last two only if the
servers are peers, `Linked`); throttling the request, or losing a copy, puts the DM
into `lost`, and no other step may break the chain; what speaks of a DM
speaks of one that was sent (`AboutBegun`); a handler that is about to store a DM has
the rest of its effects before it (`SaveFirst`); and a history that shows a DM
without a tick is not preceded, on its way or in the view, by a tick it would take
back (`MissesFirst`).

*Call.* `ButtonsFitState` is inductive with the type invariant: every handler that
changes the state sets modal, overlay and peer with it (`Shows`), and `cleanup`
sets all four. `ConnectionHasMedia` likewise: stream and connection are set in one
step and cleared in one. `FirstCallIsAgreed` needs `FirstCallInv`: until the second
call, every state, signal and handler is of the call between the first caller and the
one he called, and an accept, an offer and what follows from them exist only once the
one who was called has agreed. `FirstCallAgrees` is about an end in which nothing is
under way, and so needs an invariant of every state of that call, `AgreementInv`: of
an accept, an offer and an answer only one is being worked at (`OneAtATime`), and both
connections are as far as that one says (`CallerConnects`, `CalleeConnects`); who has
said that it is over is out (`OverIsOver`); before the call is accepted, the caller
waits for a request, a ringing callee, or a reply on its way (`Ringing`); after, who is
in the call has the other in it, or is about to hear that it is over, or gets a
connection whose far end is gone (`Together`). That two signals of one browser
arrive in the order they were sent matters once: the request comes before
everything else the caller says (`Wires`).

*E2EEKeys.* `FingerprintIsOfKeyInUse` needs `RestoreInv`: a page that restores has not
joined and imports nothing, and what it still has to restore is what is saved; so
an import and a restore of one name never overlap, and each sets the saved and the
shared key together, unless the saving failed. `KeyIsKept` needs `SealedInv`: for whom
a tab has encrypted, it has the key of, or both halves are in `sessionStorage` and will
be restored before it joins. `SealsWithPublished` needs `PairInv`, which follows one
key pair through memory, `sessionStorage`, the shared keys and the hub: a page whose
storage took everything has one pair until it is wiped or its tab is closed. All are
proved for either value of `EnforcesUsages`; with `TRUE`, which is every platform that
follows the standard, there are no shared keys and the three say nothing.

*BrowserSession.* `NeverStranded` and `ConnectionsConserved` need `NamedInv`: who has a
socket or a timer has typed a name, so `onclose` always has one of its two
branches to take, each of which leaves a timer or the login form. For the second, a
closed socket is exchanged for at most one timer, and a timer for one socket; the
counting uses the theorems on finite sets. `RoomShownIsJoined` follows from
`FirstConnection`: until the first loss, refresh or second login a page has one socket,
and whatever room it keeps, or is going to keep when what is under way arrives, is
joined, or its request is on the way, or it was left (`RoomsAreIn`).

*Only model-checked.* Liveness (`DeadSocketFreesName`, `KickedIsTornDown`,
`GossipEnds`, `ChatsArrive`, `NobodyStaysAlone`, `JoinsAgain`): fairness is about
`ENABLED`, which is out of the prover's reach.

## Not modelled

* *The bookkeeping of mesh peers and their user lists* (`ConnectPeer`, `AcceptPeer`,
  `SyncUsers`, `remoteUsers`): `MeshGossip` has links that fail and return as wholes.
  The hazards there (a pump that deletes its successor's entry, users who are
  never removed) are in `PROJECT.json` without a property.
* *Discovery*: a table with a timeout that calls `ConnectPeer`.
* *The rate limiter* (hub.go:144) outside `Delivery`: in the other models a throttled
  request is one that was never sent. A throttled join of a browser, which is sent
  once per socket, cannot occur: the limiter knows only connections that have a name.
* *`SendJSON` against `CloseSend`* (client.go:112): `SendJSON` tests `closed`, unlocks,
  and sends; a close in between makes it panic. In the models both are atomic.
* *A second join of one connection under another name* (hub.go:250) leaves the
  first name behind. `Hub` has it under `Rejoin`; the invariants of names exclude it.
* *The store-and-forward outbox*: nothing ever enters it (`EnqueueForUser` has no
  caller). *The pruning of `seen`*: five minutes of delay.
* *In the browser*: uploads and link previews, unread badges, notifications,
  typing, disappearing messages, the order in which DMs are decrypted, ICE
  candidates, mute and camera switches, `codeformat.js`, `sw.js`: layout, requests
  without shared state, or the platform's own scheduling.
* *Static files, health checks, flags, formatting; time*, beyond the end of a
  cooldown and the firing of a timer.
* Compositions: `Delivery` and `RoomFeed` over a mesh that repeats messages, or with
  disconnections; `Call` with users who disconnect. Their instances would be
  beyond what TLC explores in minutes.

## Order of the work

`Hub` with `NameRegistry`, `MeshGossip`, `MessageStore`, `RoomFeed`, `Delivery` came
first: what many users share. `Call`, `E2EEKeys` and `BrowserSession` followed: what
one browser does between its awaits. Proofs were written for a module once TLC had
checked its inductive invariant on the instance of its run. What would add most
next: the connections and user lists of the mesh (`AcceptPeer` against `readPump`,
`SyncUsers`), and `SendJSON` with the test and the send apart.
