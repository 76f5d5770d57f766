----------------------------- MODULE MeshGossip -----------------------------
(***************************************************************************)
(* Relay of messages between servers: internal/mesh/mesh.go, Propagate,    *)
(* readPump, propagateExcept, alreadySeen.                                 *)
(*                                                                         *)
(* A link is one WebSocket between two nodes; auto-discovery makes two     *)
(* links between the same two nodes, since each dials the other.  A port   *)
(* <<l, n>> is n's end of link l: it has an entry in n's peers table, and  *)
(* a readPump goroutine that works on one message at a time, concurrently  *)
(* with the readPumps of n's other ports.  wire[p] holds what travels to   *)
(* port p: the sender's Send channel (bounded, full means dropped) and the *)
(* socket, first in first out.                                             *)
(*                                                                         *)
(* A message carries two identifiers: id, which Propagate generates when   *)
(* it is empty, and message_id, which Propagate copies from id when it is  *)
(* empty.  The hub sets message_id and leaves id empty for room messages   *)
(* and DMs, so that they differ; for call signals, key exchanges, typing,  *)
(* receipts and announces the two are equal.  The dedup set "seen" holds   *)
(* identifiers of both sorts.                                              *)
(*                                                                         *)
(* Abstracted: contents, hop_path and hops (never read), and the pruning   *)
(* of "seen" (more than 10000 entries, and then only those older than five *)
(* minutes).  Both ends of a link notice its failure at once, and a link   *)
(* that comes back is a new connection under the old keys.                 *)
(***************************************************************************)
EXTENDS Integers, Sequences

CONSTANTS
    Node,      \* servers (nodeID)
    Link,      \* connections between two servers
    Ends,      \* Ends[l]: the two servers of link l
    Chat,      \* room messages and DMs (message_id set by the hub)
    Signal,    \* calls, keys, typing, receipts (message_id = id)
    Announce,  \* announces of broadcastAnnounce (message_id = id)
    MaxTTL,    \* mesh.go MaxTTL
    Cap,       \* capacity of a peer's Send channel
    MaxFails,  \* bound on link failures
    NoNode,    \* a message nobody has published
    NoCopy     \* a readPump that waits in ReadMessage

Msg == Chat \cup Signal \cup Announce

ASSUME EndsAssumption ==
    /\ Ends \in [Link -> SUBSET Node]
    /\ \A l \in Link : \E m, n \in Node : m # n /\ Ends[l] = {m, n}
    /\ NoNode \notin Node
ASSUME KindAssumption ==
    Chat \cap Signal = {} /\ Chat \cap Announce = {} /\ Signal \cap Announce = {}
ASSUME BoundAssumption ==
    MaxTTL \in Nat \ {0} /\ Cap \in Nat \ {0} /\ MaxFails \in Nat

Port == {p \in Link \X Node : p[2] \in Ends[p[1]]}
Copy == [msg : Msg, ttl : 0..MaxTTL]

ASSUME CopyAssumption == NoCopy \notin Copy

\* The two identifiers of a message
Id(m) == <<m, "id">>

MessageId(m) == IF m \in Chat THEN <<m, "message_id">> ELSE Id(m)
Ident == Msg \X {"id", "message_id"}

VARIABLES
    up,         \* links that are connected
    fails,      \* number of link failures so far
    seen,       \* seen[n]: Mesh.seen
    wire,       \* wire[p]: copies on their way to port p
    hand,       \* hand[p]: the copy p's readPump has taken and not yet relayed
    origin,     \* origin[m]: the node whose hub published m
    delivered,  \* history: delivered[n][m], times n's hub was handed m
    carried,    \* history: carried[p][m], times m was put on wire[p]
    lost        \* history: a copy was dropped or a link failed

vars == <<up, fails, seen, wire, hand, origin, delivered, carried, lost>>

\* The values of the variables.
TypeOK ==
    /\ up \subseteq Link
    /\ fails \in 0..MaxFails
    /\ seen \in [Node -> SUBSET Ident]
    /\ wire \in [Port -> Seq(Copy)]
    /\ hand \in [Port -> Copy \cup {NoCopy}]
    /\ origin \in [Msg -> Node \cup {NoNode}]
    /\ delivered \in [Node -> [Msg -> Nat]]
    /\ carried \in [Port -> [Msg -> Nat]]
    /\ lost \in BOOLEAN

Init ==
    /\ up = Link
    /\ fails = 0
    /\ seen = [n \in Node |-> {}]
    /\ wire = [p \in Port |-> <<>>]
    /\ hand = [p \in Port |-> NoCopy]
    /\ origin = [m \in Msg |-> NoNode]
    /\ delivered = [n \in Node |-> [m \in Msg |-> 0]]
    /\ carried = [p \in Port |-> [m \in Msg |-> 0]]
    /\ lost = FALSE

\* The far ends of n's peers, without the peer on link "except"
Peers(n, except) ==
    {p \in Port : p[2] # n /\ n \in Ends[p[1]] /\ p[1] \in up \ except}

\* The loop over m.peers with its select/default: a full channel drops.
SendTo(ports, m, ttl) ==
    LET room == {p \in ports : Len(wire[p]) < Cap}
    IN  /\ wire' = [p \in Port |-> IF p \in room
                                   THEN Append(wire[p], [msg |-> m, ttl |-> ttl])
                                   ELSE wire[p]]
        /\ carried' = [p \in Port |-> IF p \in room
                                      THEN [carried[p] EXCEPT ![m] = @ + 1]
                                      ELSE carried[p]]
        /\ lost' = (lost \/ room # ports)

\* A handler of the hub has served its own clients and calls Propagate, or
\* the announce loop ticks.  The fresh id is never in seen.
Publish(n, m) ==
    /\ origin[m] = NoNode
    /\ origin' = [origin EXCEPT ![m] = n]
    /\ delivered' = [delivered EXCEPT ![n][m] = @ + 1]
    /\ seen' = [seen EXCEPT ![n] = @ \cup {Id(m)}]
    /\ SendTo(Peers(n, {}), m, MaxTTL)
    /\ UNCHANGED <<up, fails, hand>>

\* Mutant: readPump tests the identifier and leaves the set to propagateExcept.
TakeUnmarked(p) ==
    /\ hand[p] = NoCopy
    /\ wire[p] # <<>>
    /\ wire' = [wire EXCEPT ![p] = Tail(@)]
    /\ LET copy == Head(wire[p])
       IN  hand' = IF MessageId(copy.msg) \in seen[p[2]]
                   THEN hand ELSE [hand EXCEPT ![p] = copy]
    /\ UNCHANGED <<up, fails, seen, origin, delivered, carried, lost>>

\* readPump: read a copy and test-and-set its identifier (alreadySeen).
Take(p) ==
    /\ hand[p] = NoCopy
    /\ wire[p] # <<>>
    /\ wire' = [wire EXCEPT ![p] = Tail(@)]
    /\ LET copy == Head(wire[p])
           key  == MessageId(copy.msg)
       IN  IF key \in seen[p[2]]
           THEN UNCHANGED <<seen, hand>>
           ELSE /\ seen' = [seen EXCEPT ![p[2]] = @ \cup {key}]
                /\ hand' = [hand EXCEPT ![p] = copy]
    /\ UNCHANGED <<up, fails, origin, delivered, carried, lost>>

\* Mutant: the TTL is not decremented.
KeepTTL(ttl) == ttl

Decrement(ttl) == IF ttl > 0 THEN ttl - 1 ELSE 0

\* Mutant: off by one.
MayForwardLess(copy) == Decrement(copy.ttl) > 1

\* An announce is forwarded if its TTL was positive on arrival, anything else
\* if it is positive after the decrement.
MayForward(copy) ==
    IF copy.msg \in Announce THEN copy.ttl > 0 ELSE Decrement(copy.ttl) > 0

\* Mutant: the TTL counts up.
RaiseTTL(copy) == copy.ttl + 1

\* propagateExcept: a TTL of zero is taken for "not set".
ForwardTTL(copy) ==
    IF Decrement(copy.ttl) = 0 THEN MaxTTL ELSE Decrement(copy.ttl)

\* Mutant: the pump hangs when its link is gone.
RelayHangs(p) ==
    LET copy == hand[p]
    IN  /\ copy # NoCopy
        /\ p[1] \in up
        /\ hand' = [hand EXCEPT ![p] = NoCopy]
        /\ delivered' = [delivered EXCEPT ![p[2]][copy.msg] = @ + 1]
        /\ IF MayForward(copy) /\ Id(copy.msg) \notin seen[p[2]]
           THEN /\ seen' = [seen EXCEPT ![p[2]] = @ \cup {Id(copy.msg)}]
                /\ SendTo(Peers(p[2], {p[1]}), copy.msg, ForwardTTL(copy))
           ELSE UNCHANGED <<seen, wire, carried, lost>>
        /\ UNCHANGED <<up, fails, origin>>

\* readPump, continued: hand the copy to the hub, then propagateExcept, which
\* tests and sets the id.
Relay(p) ==
    LET copy == hand[p]
        n    == p[2]
        m    == copy.msg
    IN  /\ copy # NoCopy
        /\ hand' = [hand EXCEPT ![p] = NoCopy]
        /\ delivered' = [delivered EXCEPT ![n][m] = @ + 1]
        /\ IF MayForward(copy) /\ Id(m) \notin seen[n]
           THEN /\ seen' = [seen EXCEPT ![n] = @ \cup {Id(m)}]
                /\ SendTo(Peers(n, {p[1]}), m, ForwardTTL(copy))
           ELSE UNCHANGED <<seen, wire, carried, lost>>
        /\ UNCHANGED <<up, fails, origin>>

\* The socket of a link fails: both Send channels and what was in transit go.
LinkFails(l) ==
    /\ l \in up
    /\ fails < MaxFails
    /\ fails' = fails + 1
    /\ up' = up \ {l}
    /\ wire' = [p \in Port |-> IF p[1] = l THEN <<>> ELSE wire[p]]
    /\ lost' = TRUE
    /\ UNCHANGED <<seen, hand, origin, delivered, carried>>

\* The dial loop of ConnectPeer succeeds again.
LinkReturns(l) ==
    /\ l \notin up
    /\ up' = up \cup {l}
    /\ UNCHANGED <<fails, seen, wire, hand, origin, delivered, carried, lost>>

Next ==
    \/ \E n \in Node, m \in Msg : Publish(n, m)
    \/ \E p \in Port : Take(p) \/ Relay(p)
    \/ \E l \in Link : LinkFails(l) \/ LinkReturns(l)

Spec == Init /\ [][Next]_vars

\* The pumps run; nobody has to publish and no link has to fail or return.
FairSpec == Spec /\ \A p \in Port : WF_vars(Take(p)) /\ WF_vars(Relay(p))

(***************************************************************************)
(* Safety                                                                  *)
(***************************************************************************)

\* No hub but the origin's is handed a message twice, over whatever cycles,
\* double links, failures and concurrent readPumps (alreadySeen of readPump);
\* and the origin's is handed it back at most once.
DeliveredOnce ==
    \A n \in Node, m \in Msg :
        delivered[n][m] <= IF n = origin[m] THEN 2 ELSE 1

\* A call signal, key, receipt or announce does not come back to its origin.
SignalsNotReturned ==
    \A n \in Node : \A m \in Signal \cup Announce : delivered[n][m] <= 1

\* No message passes twice in the same direction of a link, so gossip ends
\* (alreadySeen of Propagate and propagateExcept).
CarriedOnce == \A p \in Port, m \in Msg : carried[p][m] <= 1

\* A set of nodes and their neighbours
Around(nodes) ==
    nodes \cup UNION {Ends[l] : l \in {x \in Link : Ends[x] \cap nodes # {}}}

\* Ball(n)[k]: the nodes within k links of n
Ball(n) ==
    LET ball[k \in 0..MaxTTL] == IF k = 0 THEN {n} ELSE Around(ball[k - 1])
    IN  ball

\* The TTL bounds how far a message travels, though propagateExcept takes a
\* TTL of zero for a missing one.
WithinTTL ==
    \A n \in Node, m \in Msg :
        delivered[n][m] > 0 => n \in Ball(origin[m])[MaxTTL]

Quiet == \A p \in Port : wire[p] = <<>> /\ hand[p] = NoCopy

(***************************************************************************)
(* The inductive invariant behind DeliveredOnce and CarriedOnce.           *)
(***************************************************************************)

\* Nothing is known anywhere of a message before it is published.
FreshIsUnknown ==
    \A m \in Msg : origin[m] = NoNode =>
        /\ \A n \in Node : delivered[n][m] = 0
        /\ \A p \in Port : carried[p][m] = 0

\* What travels or is being handled was published.
CopiesArePublished ==
    \A p \in Port :
        /\ \A i \in 1..Len(wire[p]) : origin[wire[p][i].msg] # NoNode
        /\ hand[p] # NoCopy => origin[hand[p].msg] # NoNode

\* The times a hub may know of a message without having received it
AtHome(n, m) == IF origin[m] = n THEN 1 ELSE 0

Holds(p, m) == hand[p] # NoCopy /\ hand[p].msg = m

\* A copy in a readPump's hand is the only one at its node and the first: the
\* others met its message_id in seen.
HandIsFirst ==
    \A p \in Port, m \in Msg : Holds(p, m) =>
        /\ MessageId(m) \in seen[p[2]]
        /\ delivered[p[2]][m] = AtHome(p[2], m)
        /\ \A q \in Port : q # p /\ q[2] = p[2] => ~Holds(q, m)

\* A message is handed to a hub once its message_id is in seen, and once only.
UnseenIsUndelivered ==
    \A n \in Node, m \in Msg :
        /\ delivered[n][m] <= AtHome(n, m) + 1
        /\ MessageId(m) \notin seen[n] => delivered[n][m] = AtHome(n, m)

\* The origin of a message whose two identifiers agree will not take it back.
SignalsAreSeenAtHome ==
    \A m \in Signal \cup Announce, n \in Node : origin[m] = n =>
        /\ Id(m) \in seen[n]
        /\ delivered[n][m] = 1
        /\ \A p \in Port : p[2] = n => ~Holds(p, m)

\* A message was put on a wire by a node that has its id in seen.
CarriedIsSeen ==
    \A p \in Port, m \in Msg :
        /\ carried[p][m] <= 1
        /\ carried[p][m] # 0 => \A n \in Ends[p[1]] : n # p[2] => Id(m) \in seen[n]

IInv ==
    /\ TypeOK
    /\ FreshIsUnknown
    /\ CopiesArePublished
    /\ HandIsFirst
    /\ UnseenIsUndelivered
    /\ SignalsAreSeenAtHome
    /\ CarriedIsSeen

(***************************************************************************)
(* Liveness                                                                *)
(***************************************************************************)

\* Gossip ends, also after failures and on topologies with cycles.
GossipEnds == []<>Quiet

\* The nodes a copy may have come to over MaxTTL links, no node twice, and that
\* do not forward it then, since it has no TTL left
Spent(o) ==
    {r[MaxTTL] : r \in {x \in [0..MaxTTL -> Node] :
        /\ x[0] = o
        /\ \A i, j \in 0..MaxTTL : x[i] = x[j] => i = j
        /\ \A i \in 1..MaxTTL : \E l \in Link : Ends[l] = {x[i - 1], x[i]}}}

\* Served[o]: the nodes that o's messages reach whichever copy comes first: the
\* neighbours of o, and those of every node that is served and never spent.
Served ==
    [o \in Node |->
        LET served[k \in 0..MaxTTL] ==
                IF k = 0 THEN {o} ELSE served[k - 1] \cup Around(served[k - 1] \ Spent(o))
        IN  served[MaxTTL]]

\* A room message or DM is handed to the hub of every node that is served,
\* unless something was lost.  Being within MaxTTL links is not enough: the copy
\* that comes first fixes the remaining TTL, and it may have come the long way.
ChatsArrive ==
    \A m \in Chat, o \in Node : origin[m] = o ~>
        lost \/ \A n \in Served[o] : delivered[n][m] > 0

(***************************************************************************)
(* What the documentation says, and the code does not do                   *)
(***************************************************************************)

\* README.md:54, "Messages propagate across the mesh with deduplication by
\* message ID": no hub is handed a message it already had (Propagate marks the
\* id, readPump looks for the message_id).
NotReturned == \A n \in Node, m \in Msg : delivered[n][m] <= 1

\* ARCHITECTURE.md:650, "Both receipt types are propagated through the mesh for
\* multi-hop scenarios", and 722 for keys: a signal that met no full channel and
\* no failure is, once the gossip has ended, with every node within MaxTTL links
\* of its origin.
SignalsReached ==
    Quiet /\ ~lost => \A m \in Signal : origin[m] # NoNode =>
        \A n \in Ball(origin[m])[MaxTTL] : delivered[n][m] > 0

\* README.md:54 and ARCHITECTURE.md:331, "Maximum hop count for multi-hop relay":
\* the same for room messages and DMs.  It fails where the copy that comes first
\* to a node has come the long way (Spent).
ChatsReached ==
    Quiet /\ ~lost => \A m \in Chat : origin[m] # NoNode =>
        \A n \in Ball(origin[m])[MaxTTL] : delivered[n][m] > 0
=============================================================================
