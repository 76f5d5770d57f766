-------------------------- MODULE MeshGossipProofs --------------------------
(***************************************************************************)
(* Theorems about MeshGossip, for any topology, TTL, channel capacity and  *)
(* number of link failures.                                                *)
(***************************************************************************)
EXTENDS MeshGossip, WellFoundedInduction, TLAPS

\* The identifiers of a message tell it from every other message.
LEMMA Identifiers ==
    /\ \A m \in Msg : Id(m) \in Ident /\ MessageId(m) \in Ident
    /\ \A m, k \in Msg : Id(m) = Id(k) => m = k
    /\ \A m, k \in Msg : MessageId(m) = MessageId(k) => m = k
    /\ \A m, k \in Msg : Id(m) = MessageId(k) => m = k /\ m \notin Chat
    /\ \A m \in Msg \ Chat : MessageId(m) = Id(m)
BY KindAssumption DEF Id, MessageId, Ident, Msg

\* A port belongs to one of the two nodes of its link.
LEMMA Ports == \A p \in Port : p[1] \in Link /\ p[2] \in Node /\ p[2] \in Ends[p[1]]
BY DEF Port

\* What a send leaves on the wires: the old copies and new ones of m only.
LEMMA SendEffect ==
    ASSUME TypeOK, NEW ports \in SUBSET Port, NEW m \in Msg, NEW ttl \in 0..MaxTTL,
           SendTo(ports, m, ttl)
    PROVE  /\ wire' \in [Port -> Seq(Copy)]
           /\ carried' \in [Port -> [Msg -> Nat]]
           /\ lost' \in BOOLEAN
           /\ \A p \in Port : \A i \in 1..Len(wire'[p]) :
                  \/ wire'[p][i].msg = m
                  \/ i \in 1..Len(wire[p]) /\ wire'[p][i] = wire[p][i]
           /\ \A p \in Port, k \in Msg :
                  carried'[p][k] = IF k = m /\ p \in ports /\ Len(wire[p]) < Cap
                                   THEN carried[p][k] + 1 ELSE carried[p][k]
<1> DEFINE copy == [msg |-> m, ttl |-> ttl]
           room == {p \in ports : Len(wire[p]) < Cap}
<1>1. copy \in Copy /\ copy.msg = m
  BY DEF Copy
<1>2. /\ wire' = [p \in Port |-> IF p \in room THEN Append(wire[p], copy) ELSE wire[p]]
      /\ carried' = [p \in Port |-> IF p \in room
                                    THEN [carried[p] EXCEPT ![m] = @ + 1]
                                    ELSE carried[p]]
      /\ lost' = (lost \/ room # ports)
  BY DEF SendTo
<1>3. \A p \in Port : /\ wire[p] \in Seq(Copy)
                      /\ Append(wire[p], copy) \in Seq(Copy)
                      /\ carried[p] \in [Msg -> Nat]
  BY <1>1 DEF TypeOK
<1>4. wire' \in [Port -> Seq(Copy)]
  BY <1>2, <1>3
<1>5. \A p \in Port : [carried[p] EXCEPT ![m] = @ + 1] \in [Msg -> Nat]
  BY <1>3
<1>6. carried' \in [Port -> [Msg -> Nat]]
  BY <1>2, <1>3, <1>5
<1>7. ASSUME NEW p \in Port, NEW i \in 1..Len(wire'[p])
      PROVE  \/ wire'[p][i].msg = m
             \/ i \in 1..Len(wire[p]) /\ wire'[p][i] = wire[p][i]
  <2>1. CASE p \in room
    <3>1. wire'[p] = Append(wire[p], copy)
      BY <1>2, <2>1
    <3>2. CASE i = Len(wire[p]) + 1
      BY <1>1, <1>3, <3>1, <3>2
    <3>3. CASE i \in 1..Len(wire[p])
      BY <1>3, <3>1, <3>3
    <3> QED
      BY <1>3, <3>1, <3>2, <3>3
  <2>2. CASE p \notin room
    BY <1>2, <2>2
  <2> QED
    BY <2>1, <2>2
<1>8. lost' \in BOOLEAN
  BY <1>2
<1>9. ASSUME NEW p \in Port, NEW k \in Msg
      PROVE  carried'[p][k] = IF k = m /\ p \in ports /\ Len(wire[p]) < Cap
                              THEN carried[p][k] + 1 ELSE carried[p][k]
  BY <1>2, <1>3
<1> QED
  BY <1>4, <1>6, <1>7, <1>8, <1>9

\* What travels on a wire is a copy of a message.
LEMMA WireHoldsCopies ==
    ASSUME TypeOK, NEW p \in Port, NEW i \in 1..Len(wire[p])
    PROVE  wire[p][i] \in Copy /\ wire[p][i].msg \in Msg
<1>1. wire[p] \in Seq(Copy)
  BY DEF TypeOK
<1>2. wire[p][i] \in Copy
  BY <1>1
<1> QED
  BY <1>2 DEF Copy

\* The far ends of a node's peers are ports.
LEMMA PeersArePorts == \A n, except : Peers(n, except) \subseteq Port
BY DEF Peers

\* Every action keeps the types.
LEMMA TypeStep ==
    ASSUME TypeOK, [Next]_vars
    PROVE  TypeOK'
<1> USE DEF TypeOK
<1>1. ASSUME NEW n \in Node, NEW m \in Msg, Publish(n, m) PROVE TypeOK'
  <2>1. SendTo(Peers(n, {}), m, MaxTTL) /\ MaxTTL \in 0..MaxTTL
    BY <1>1, BoundAssumption DEF Publish
  <2>2. /\ wire' \in [Port -> Seq(Copy)]
        /\ carried' \in [Port -> [Msg -> Nat]]
        /\ lost' \in BOOLEAN
    BY <2>1, SendEffect, PeersArePorts
  <2>3. seen' \in [Node -> SUBSET Ident]
    BY <1>1, Identifiers DEF Publish
  <2>4. delivered' \in [Node -> [Msg -> Nat]]
    BY <1>1 DEF Publish
  <2> QED
    BY <1>1, <2>2, <2>3, <2>4 DEF Publish
<1>2. ASSUME NEW p \in Port, Take(p) PROVE TypeOK'
  <2>1. wire[p] \in Seq(Copy) /\ Head(wire[p]) \in Copy /\ Tail(wire[p]) \in Seq(Copy)
    BY <1>2 DEF Take
  <2>2. Head(wire[p]).msg \in Msg
    BY <2>1 DEF Copy
  <2>3. wire' \in [Port -> Seq(Copy)]
    BY <1>2, <2>1 DEF Take
  <2>4. seen' \in [Node -> SUBSET Ident] /\ hand' \in [Port -> Copy \cup {NoCopy}]
    <3> DEFINE copy == Head(wire[p])
               key  == MessageId(copy.msg)
    <3>1. key \in Ident /\ p[2] \in Node /\ copy \in Copy
      BY <2>1, <2>2, Identifiers, Ports
    <3>2. \/ UNCHANGED <<seen, hand>>
          \/ /\ seen' = [seen EXCEPT ![p[2]] = @ \cup {key}]
             /\ hand' = [hand EXCEPT ![p] = copy]
      BY <1>2 DEF Take
    <3>3. seen[p[2]] \cup {key} \in SUBSET Ident
      BY <3>1
    <3> HIDE DEF copy, key
    <3>4. CASE UNCHANGED <<seen, hand>>
      BY <3>4
    <3>5. CASE /\ seen' = [seen EXCEPT ![p[2]] = @ \cup {key}]
               /\ hand' = [hand EXCEPT ![p] = copy]
      BY <3>1, <3>3, <3>5
    <3> QED
      BY <3>2, <3>4, <3>5
  <2> QED
    BY <1>2, <2>3, <2>4 DEF Take
<1>3. ASSUME NEW p \in Port, Relay(p) PROVE TypeOK'
  <2> DEFINE n == p[2]
             m == hand[p].msg
  <2>1. hand[p] \in Copy /\ m \in Msg /\ hand[p].ttl \in 0..MaxTTL /\ n \in Node
    BY <1>3, Ports DEF Relay, Copy
  <2>2. ForwardTTL(hand[p]) \in 0..MaxTTL
    BY <2>1, BoundAssumption DEF ForwardTTL, Decrement
  <2>3. /\ wire' \in [Port -> Seq(Copy)]
        /\ carried' \in [Port -> [Msg -> Nat]]
        /\ lost' \in BOOLEAN
    <3>1. CASE SendTo(Peers(n, {p[1]}), m, ForwardTTL(hand[p]))
      BY <2>1, <2>2, <3>1, SendEffect, PeersArePorts
    <3>2. CASE UNCHANGED <<wire, carried, lost>>
      BY <3>2
    <3> QED
      BY <1>3, <3>1, <3>2 DEF Relay
  <2>4. seen' \in [Node -> SUBSET Ident]
    <3>1. Id(m) \in Ident
      BY <2>1, Identifiers
    <3>2. seen' = seen \/ seen' = [seen EXCEPT ![n] = @ \cup {Id(m)}]
      BY <1>3 DEF Relay
    <3>3. seen[n] \cup {Id(m)} \in SUBSET Ident
      BY <2>1, <3>1
    <3> QED
      BY <2>1, <3>2, <3>3
  <2>5. delivered' \in [Node -> [Msg -> Nat]]
    BY <1>3, <2>1 DEF Relay
  <2>6. hand' \in [Port -> Copy \cup {NoCopy}]
    BY <1>3 DEF Relay
  <2> QED
    BY <1>3, <2>3, <2>4, <2>5, <2>6 DEF Relay
<1>4. ASSUME NEW l \in Link, LinkFails(l) PROVE TypeOK'
  <2>1. wire' \in [Port -> Seq(Copy)]
    BY <1>4 DEF LinkFails
  <2> QED
    BY <1>4, <2>1, BoundAssumption DEF LinkFails
<1>5. ASSUME NEW l \in Link, LinkReturns(l) PROVE TypeOK'
  BY <1>5 DEF LinkReturns
<1>6. CASE UNCHANGED vars
  BY <1>6 DEF vars
<1> QED
  BY <1>1, <1>2, <1>3, <1>4, <1>5, <1>6 DEF Next

\* The initial state has the types.
LEMMA InitTypes ==
    ASSUME Init
    PROVE  TypeOK
<1>1. <<>> \in Seq(Copy)
  OBVIOUS
<1>2. wire \in [Port -> Seq(Copy)]
  BY <1>1 DEF Init
<1>3. delivered \in [Node -> [Msg -> Nat]] /\ carried \in [Port -> [Msg -> Nat]]
  BY DEF Init
<1>4. seen \in [Node -> SUBSET Ident] /\ fails \in 0..MaxFails
  BY BoundAssumption DEF Init
<1>5. hand \in [Port -> Copy \cup {NoCopy}] /\ origin \in [Msg -> Node \cup {NoNode}]
  BY DEF Init
<1> QED
  BY <1>2, <1>3, <1>4, <1>5 DEF Init, TypeOK

\* The state of the mesh keeps its types in every behaviour.
THEOREM TypeCorrect == Spec => []TypeOK
<1>1. Init => TypeOK
  BY InitTypes
<1>2. TypeOK /\ [Next]_vars => TypeOK'
  BY TypeStep
<1> QED
  BY <1>1, <1>2, PTL DEF Spec

(***************************************************************************)
(* Deduplication.  readPump's alreadySeen is a test-and-set: the copy that *)
(* passes it is alone at its node (HandIsFirst), every later one fails it  *)
(* (UnseenIsUndelivered).  The alreadySeen of Propagate and propagateExcept*)
(* guards the sends in the same way (CarriedIsSeen).                       *)
(***************************************************************************)

\* A node that may send into port q is the only other end of q's link.
LEMMA OtherEnd ==
    ASSUME NEW n \in Node, NEW except, NEW q \in Peers(n, except)
    PROVE  q \in Port /\ n \in Ends[q[1]] /\ n # q[2]
           /\ \A x \in Ends[q[1]] : x # q[2] => x = n
BY EndsAssumption DEF Peers, Port

\* Sending m from n after putting its id in seen keeps CarriedIsSeen, if the
\* id was not there.
LEMMA SendOnce ==
    ASSUME TypeOK, CarriedIsSeen, NEW n \in Node, NEW except, NEW m \in Msg,
           NEW ttl \in 0..MaxTTL,
           SendTo(Peers(n, except), m, ttl),
           seen' = [seen EXCEPT ![n] = @ \cup {Id(m)}],
           \A q \in Peers(n, except) : carried[q][m] = 0
    PROVE  CarriedIsSeen'
<1>1. \A p \in Port, k \in Msg :
          carried'[p][k] = IF k = m /\ p \in Peers(n, except) /\ Len(wire[p]) < Cap
                           THEN carried[p][k] + 1 ELSE carried[p][k]
  BY SendEffect, PeersArePorts
<1>2. \A x \in Node : seen[x] \subseteq seen'[x]
  BY DEF TypeOK
<1>3. Id(m) \in seen'[n]
  BY DEF TypeOK
<1> SUFFICES ASSUME NEW p \in Port, NEW k \in Msg
             PROVE  /\ carried'[p][k] <= 1
                    /\ carried'[p][k] # 0 =>
                          \A x \in Ends[p[1]] : x # p[2] => Id(k) \in seen'[x]
  BY DEF CarriedIsSeen
<1>4. Ends[p[1]] \subseteq Node
  BY Ports, EndsAssumption
<1>5. CASE k = m /\ p \in Peers(n, except)
  BY <1>1, <1>3, <1>5, OtherEnd
<1>6. CASE ~(k = m /\ p \in Peers(n, except))
  BY <1>1, <1>2, <1>4, <1>6 DEF CarriedIsSeen
<1> QED
  BY <1>5, <1>6

\* Publishing keeps the inductive invariant.
LEMMA PublishStep ==
    ASSUME IInv, NEW n \in Node, NEW m \in Msg, Publish(n, m), TypeOK'
    PROVE  IInv'
<1> USE DEF IInv
<1>1. /\ origin[m] = NoNode /\ origin' = [origin EXCEPT ![m] = n]
      /\ delivered' = [delivered EXCEPT ![n][m] = @ + 1]
      /\ seen' = [seen EXCEPT ![n] = @ \cup {Id(m)}]
      /\ SendTo(Peers(n, {}), m, MaxTTL)
      /\ hand' = hand
  BY DEF Publish
<1>2. /\ \A x \in Node : delivered[x][m] = 0
      /\ \A p \in Port : carried[p][m] = 0
      /\ \A p \in Port : hand[p] # NoCopy => hand[p] \in Copy /\ hand[p].msg \in Msg
      /\ \A p \in Port : hand[p] # NoCopy => hand[p].msg # m
  BY <1>1 DEF FreshIsUnknown, CopiesArePublished, TypeOK, Copy
<1>3. /\ n # NoNode
      /\ \A k \in Msg : origin'[k] = IF k = m THEN n ELSE origin[k]
      /\ \A x \in Node, k \in Msg :
             delivered'[x][k] = IF x = n /\ k = m THEN 1 ELSE delivered[x][k]
      /\ \A x \in Node : seen[x] \subseteq seen'[x]
      /\ Id(m) \in seen'[n]
  BY <1>1, <1>2, EndsAssumption DEF TypeOK
<1>4. /\ \A p \in Port : \A i \in 1..Len(wire'[p]) :
             \/ wire'[p][i].msg = m
             \/ i \in 1..Len(wire[p]) /\ wire'[p][i] = wire[p][i]
      /\ \A p \in Port, k \in Msg \ {m} : carried'[p][k] = carried[p][k]
  <2> DEFINE ports == Peers(n, {})
  <2>1. /\ MaxTTL \in 0..MaxTTL /\ ports \in SUBSET Port /\ SendTo(ports, m, MaxTTL)
        /\ TypeOK
    BY <1>1, BoundAssumption, PeersArePorts
  <2> HIDE DEF ports
  <2>2. \A p \in Port : \A i \in 1..Len(wire'[p]) :
           \/ wire'[p][i].msg = m
           \/ i \in 1..Len(wire[p]) /\ wire'[p][i] = wire[p][i]
    BY <2>1, SendEffect
  <2>3. \A p \in Port, k \in Msg :
           carried'[p][k] = IF k = m /\ p \in ports /\ Len(wire[p]) < Cap
                            THEN carried[p][k] + 1 ELSE carried[p][k]
    BY <2>1, SendEffect
  <2>4. \A p \in Port, k \in Msg \ {m} : carried'[p][k] = carried[p][k]
    BY <2>3
  <2> QED
    BY <2>2, <2>4
<1>5. \A p \in Port : \A i \in 1..Len(wire[p]) : wire[p][i].msg \in Msg
  BY WireHoldsCopies
<1>6. FreshIsUnknown'
  BY <1>3, <1>4 DEF FreshIsUnknown
<1>7. CopiesArePublished'
  BY <1>1, <1>2, <1>3, <1>4, <1>5 DEF CopiesArePublished
<1>8. \A x \in Node, k \in Msg :
          AtHome(x, k)' = IF x = n /\ k = m THEN 1 ELSE AtHome(x, k)
  BY <1>1, <1>3, EndsAssumption DEF AtHome
<1>9. HandIsFirst'
  BY <1>1, <1>2, <1>3, <1>8, Ports DEF HandIsFirst, Holds
<1>10. UnseenIsUndelivered'
  BY <1>2, <1>3, <1>8 DEF UnseenIsUndelivered
<1>11. SignalsAreSeenAtHome'
  BY <1>1, <1>2, <1>3 DEF SignalsAreSeenAtHome, Msg, Holds
<1>12. CarriedIsSeen'
  <2>1. MaxTTL \in 0..MaxTTL /\ \A q \in Peers(n, {}) : carried[q][m] = 0
    BY <1>2, BoundAssumption, PeersArePorts
  <2> QED
    BY <1>1, <2>1, SendOnce
<1> QED
  BY <1>6, <1>7, <1>9, <1>10, <1>11, <1>12

\* Reading a copy keeps the inductive invariant.
LEMMA TakeStep ==
    ASSUME IInv, NEW p \in Port, Take(p), TypeOK'
    PROVE  IInv'
<1> USE DEF IInv
<1> DEFINE n == p[2]
           copy == Head(wire[p])
           m == copy.msg
<1>1. /\ wire[p] \in Seq(Copy) /\ wire[p] # <<>> /\ hand[p] = NoCopy
      /\ wire' = [wire EXCEPT ![p] = Tail(wire[p])]
      /\ UNCHANGED <<origin, delivered, carried>>
  BY DEF Take, TypeOK
<1>2. copy = wire[p][1] /\ copy \in Copy /\ m \in Msg /\ 1 \in 1..Len(wire[p])
      /\ copy # NoCopy /\ n \in Node
  <2>1. 1 \in 1..Len(wire[p]) /\ copy = wire[p][1]
    BY <1>1
  <2>2. copy \in Copy /\ m \in Msg
    BY <2>1, WireHoldsCopies
  <2> QED
    BY <2>1, <2>2, Ports, CopyAssumption
<1>3. \A q \in Port : \A i \in 1..Len(wire'[q]) :
          \E j \in 1..Len(wire[q]) : wire'[q][i] = wire[q][j]
  <2> SUFFICES ASSUME NEW q \in Port, NEW i \in 1..Len(wire'[q])
               PROVE  \E j \in 1..Len(wire[q]) : wire'[q][i] = wire[q][j]
    OBVIOUS
  <2>1. CASE q = p
    <3>1. wire'[p] = Tail(wire[p])
      BY <1>1 DEF TypeOK
    <3>2. i + 1 \in 1..Len(wire[p]) /\ Tail(wire[p])[i] = wire[p][i + 1]
      <4>1. Len(Tail(wire[p])) = Len(wire[p]) - 1 /\ i \in 1..Len(Tail(wire[p]))
        <5>1. Len(Tail(wire[p])) = Len(wire[p]) - 1
          BY <1>1
        <5> QED
          BY <2>1, <3>1, <5>1
      <4> QED
        BY <1>1, <4>1
    <3> QED
      BY <2>1, <3>1, <3>2
  <2>2. CASE q # p
    BY <1>1, <2>2 DEF TypeOK
  <2> QED
    BY <2>1, <2>2
<1>4. FreshIsUnknown'
  BY <1>1 DEF FreshIsUnknown
<1>5. origin[m] # NoNode
  BY <1>2 DEF CopiesArePublished
<1>6. CASE MessageId(m) \in seen[n]
  <2>1. seen' = seen /\ hand' = hand
    BY <1>6 DEF Take
  <2>2. CopiesArePublished'
    BY <1>1, <1>3, <2>1 DEF CopiesArePublished
  <2>3. (HandIsFirst /\ UnseenIsUndelivered /\ SignalsAreSeenAtHome /\ CarriedIsSeen)'
    BY <1>1, <2>1 DEF HandIsFirst, UnseenIsUndelivered, SignalsAreSeenAtHome,
                      CarriedIsSeen, AtHome, Holds
  <2> QED
    BY <1>4, <2>2, <2>3
<1>7. CASE MessageId(m) \notin seen[n]
  <2>1. /\ seen' = [seen EXCEPT ![n] = @ \cup {MessageId(m)}]
        /\ hand' = [hand EXCEPT ![p] = copy]
    BY <1>7 DEF Take
  <2>2. /\ \A x \in Node : seen[x] \subseteq seen'[x]
        /\ MessageId(m) \in seen'[n]
        /\ \A x \in Node, k \in Ident : k \in seen'[x] =>
               k \in seen[x] \/ (x = n /\ k = MessageId(m))
        /\ hand'[p] = copy /\ \A q \in Port \ {p} : hand'[q] = hand[q]
    BY <1>2, <2>1 DEF TypeOK
  <2>3. CopiesArePublished'
    BY <1>1, <1>3, <1>5, <2>2 DEF CopiesArePublished
  <2>4. \A x \in Node, k \in Msg : AtHome(x, k)' = AtHome(x, k)
    BY <1>1 DEF AtHome
  <2>5. \A q \in Port : q[2] = n => ~Holds(q, m)
    BY <1>2, <1>7 DEF HandIsFirst
  <2>6. delivered[n][m] = AtHome(n, m)
    BY <1>2, <1>7 DEF UnseenIsUndelivered
  <2>7. \A q \in Port, k \in Msg : Holds(q, k)' <=> IF q = p THEN k = m ELSE Holds(q, k)
    BY <1>2, <2>2 DEF Holds
  <2>8. HandIsFirst'
    BY <1>1, <1>2, <2>2, <2>4, <2>5, <2>6, <2>7, Ports DEF HandIsFirst
  <2>9. UnseenIsUndelivered'
    BY <1>1, <2>2, <2>4 DEF UnseenIsUndelivered
  <2>10. SignalsAreSeenAtHome'
    <3>1. m \in Signal \cup Announce => origin[m] # n
      BY <1>2, <1>7, Identifiers, KindAssumption DEF SignalsAreSeenAtHome
    <3> QED
      BY <1>1, <2>2, <2>7, <3>1 DEF SignalsAreSeenAtHome, Msg
  <2>11. CarriedIsSeen'
    BY <1>1, <2>2, Ports, EndsAssumption DEF CarriedIsSeen
  <2> QED
    BY <1>4, <2>3, <2>8, <2>9, <2>10, <2>11
<1> QED
  BY <1>6, <1>7

\* Delivering and forwarding a copy keeps the inductive invariant.
LEMMA RelayStep ==
    ASSUME IInv, NEW p \in Port, Relay(p), TypeOK'
    PROVE  IInv'
<1> USE DEF IInv
<1> DEFINE n == p[2]
<1>0. PICK m \in Msg, ttl \in 0..MaxTTL : m = hand[p].msg /\ ttl = ForwardTTL(hand[p])
  <2>1. hand[p] \in Copy /\ hand[p].msg \in Msg /\ hand[p].ttl \in 0..MaxTTL
    BY DEF Relay, TypeOK, Copy
  <2>2. ForwardTTL(hand[p]) \in 0..MaxTTL
    BY <2>1, BoundAssumption DEF ForwardTTL, Decrement
  <2> QED
    BY <2>1, <2>2
<1>1. /\ hand[p] # NoCopy /\ Holds(p, m) /\ n \in Node
      /\ hand' = [hand EXCEPT ![p] = NoCopy]
      /\ delivered' = [delivered EXCEPT ![n][m] = @ + 1]
      /\ UNCHANGED origin
  BY <1>0, Ports DEF Relay, Holds
<1>2. /\ origin[m] # NoNode
      /\ MessageId(m) \in seen[n]
      /\ delivered[n][m] = AtHome(n, m)
      /\ \A q \in Port : q # p /\ q[2] = n => ~Holds(q, m)
      /\ m \in Signal \cup Announce => origin[m] # n
  BY <1>0, <1>1 DEF CopiesArePublished, HandIsFirst, SignalsAreSeenAtHome
<1>3. \/ /\ Id(m) \notin seen[n]
         /\ seen' = [seen EXCEPT ![n] = @ \cup {Id(m)}]
         /\ SendTo(Peers(n, {p[1]}), m, ttl)
      \/ UNCHANGED <<seen, wire, carried, lost>>
  BY <1>0 DEF Relay
<1>4. \A x \in Node : seen[x] \subseteq seen'[x]
  BY <1>3 DEF TypeOK
<1>5. \A x \in Node, k \in Msg :
          delivered'[x][k] = IF x = n /\ k = m THEN AtHome(n, m) + 1 ELSE delivered[x][k]
  <2>1. delivered \in [Node -> [Msg -> Nat]]
    BY DEF TypeOK
  <2>2. \A x \in Node, k \in Msg :
            delivered'[x][k] = IF x = n /\ k = m THEN delivered[n][m] + 1 ELSE delivered[x][k]
    <3> HIDE DEF IInv, n
    <3> QED
      BY <1>1, <2>1
  <2>3. delivered[n][m] = AtHome(n, m)
    BY <1>2
  <2> HIDE DEF IInv, n
  <2> QED
    BY <2>2, <2>3
<1>6. \A q \in Port, k \in Msg : Holds(q, k)' <=> q # p /\ Holds(q, k)
  BY <1>1 DEF Holds, TypeOK
<1>7. \A x \in Node, k \in Msg : AtHome(x, k)' = AtHome(x, k)
  BY <1>1 DEF AtHome
<1>8. /\ \A q \in Port : \A i \in 1..Len(wire'[q]) :
             \/ wire'[q][i].msg = m
             \/ i \in 1..Len(wire[q]) /\ wire'[q][i] = wire[q][i]
      /\ \A q \in Port, k \in Msg \ {m} : carried'[q][k] = carried[q][k]
  <2>1. CASE SendTo(Peers(n, {p[1]}), m, ttl)
    <3> DEFINE ports == Peers(n, {p[1]})
    <3>1. ports \in SUBSET Port /\ SendTo(ports, m, ttl) /\ TypeOK
      BY <2>1, PeersArePorts
    <3> HIDE DEF ports
    <3>2. /\ \A q \in Port : \A i \in 1..Len(wire'[q]) :
                 \/ wire'[q][i].msg = m
                 \/ i \in 1..Len(wire[q]) /\ wire'[q][i] = wire[q][i]
          /\ \A q \in Port, k \in Msg :
                 carried'[q][k] = IF k = m /\ q \in ports /\ Len(wire[q]) < Cap
                                  THEN carried[q][k] + 1 ELSE carried[q][k]
      BY <3>1, SendEffect
    <3> QED
      BY <3>2
  <2>2. CASE UNCHANGED <<seen, wire, carried, lost>>
    BY <2>2
  <2> QED
    BY <1>3, <2>1, <2>2
<1>9. FreshIsUnknown'
  <2>1. origin' = origin /\ \A k \in Msg : origin[k] = NoNode => k # m
    BY <1>1, <1>2
  <2>2. \A q \in Port, k \in Msg : k # m => carried'[q][k] = carried[q][k]
    BY <1>8
  <2> QED
    BY <1>5, <2>1, <2>2 DEF FreshIsUnknown
<1>10. CopiesArePublished'
  <2>1. origin' = origin /\ origin[m] # NoNode
    BY <1>1, <1>2
  <2>2. \A q \in Port : hand'[q] # NoCopy => hand'[q] = hand[q]
    BY <1>1 DEF TypeOK
  <2>3. \A q \in Port : \A i \in 1..Len(wire'[q]) : origin[wire'[q][i].msg] # NoNode
    BY <1>8, <2>1 DEF CopiesArePublished
  <2> QED
    BY <2>1, <2>2, <2>3 DEF CopiesArePublished
<1>11. HandIsFirst'
  BY <1>2, <1>4, <1>5, <1>6, <1>7, Ports DEF HandIsFirst
<1>12. UnseenIsUndelivered'
  <2>1. \A x \in Node, k \in Msg : AtHome(x, k) \in Nat
    BY DEF AtHome
  <2> QED
    BY <1>1, <1>2, <1>4, <1>5, <1>7, <2>1 DEF UnseenIsUndelivered
<1>13. SignalsAreSeenAtHome'
  BY <1>1, <1>2, <1>4, <1>5, <1>6 DEF SignalsAreSeenAtHome, Msg
<1>14. CarriedIsSeen'
  <2>1. CASE UNCHANGED <<seen, wire, carried, lost>>
    BY <2>1 DEF CarriedIsSeen
  <2>2. CASE /\ Id(m) \notin seen[n]
             /\ seen' = [seen EXCEPT ![n] = @ \cup {Id(m)}]
             /\ SendTo(Peers(n, {p[1]}), m, ttl)
    <3>1. \A q \in Peers(n, {p[1]}) : carried[q][m] = 0
      BY <1>1, <2>2, OtherEnd DEF CarriedIsSeen
    <3> QED
      BY <1>1, <2>2, <3>1, SendOnce
  <2> QED
    BY <1>3, <2>1, <2>2
<1> QED
  BY <1>9, <1>10, <1>11, <1>12, <1>13, <1>14

\* A link that fails or returns keeps the inductive invariant: seen survives.
LEMMA LinkStep ==
    ASSUME IInv, NEW l \in Link, LinkFails(l) \/ LinkReturns(l), TypeOK'
    PROVE  IInv'
<1> USE DEF IInv
<1>1. UNCHANGED <<seen, hand, origin, delivered, carried>>
  BY DEF LinkFails, LinkReturns
<1>2. \A p \in Port : wire'[p] = <<>> \/ wire'[p] = wire[p]
  BY DEF LinkFails, LinkReturns
<1>3. CopiesArePublished'
  BY <1>1, <1>2 DEF CopiesArePublished
<1> QED
  BY <1>1, <1>3 DEF FreshIsUnknown, HandIsFirst, Holds, AtHome, UnseenIsUndelivered,
                    SignalsAreSeenAtHome, CarriedIsSeen

\* The inductive invariant of the gossip holds on every topology.
THEOREM GossipInvariant == Spec => []IInv
<1>1. ASSUME Init PROVE IInv
  <2>1. TypeOK
    BY <1>1, InitTypes
  <2> QED
    BY <1>1, <2>1, EndsAssumption
       DEF Init, IInv, FreshIsUnknown, CopiesArePublished, HandIsFirst, Holds, AtHome,
           UnseenIsUndelivered, SignalsAreSeenAtHome, CarriedIsSeen, Msg
<1>2. ASSUME IInv, [Next]_vars PROVE IInv'
  <2>1. TypeOK'
    BY <1>2, TypeStep DEF IInv
  <2>2. CASE UNCHANGED vars
    BY <1>2, <2>1, <2>2
       DEF vars, IInv, FreshIsUnknown, CopiesArePublished, HandIsFirst, Holds, AtHome,
           UnseenIsUndelivered, SignalsAreSeenAtHome, CarriedIsSeen
  <2> QED
    BY <1>2, <2>1, <2>2, PublishStep, TakeStep, RelayStep, LinkStep DEF Next
<1> QED
  BY <1>1, <1>2, PTL DEF Spec

\* On every topology, with any losses and failures, no hub is handed a message
\* twice, except the origin's, which is handed it back at most once.
THEOREM DeliveredOnceHolds == Spec => []DeliveredOnce
<1>1. IInv => DeliveredOnce
  BY DEF IInv, UnseenIsUndelivered, AtHome, DeliveredOnce, TypeOK
<1> QED
  BY <1>1, GossipInvariant, PTL

\* Messages whose id and message_id agree never come back to their origin.
THEOREM SignalsNotReturnedHolds == Spec => []SignalsNotReturned
<1>1. IInv => SignalsNotReturned
  BY DEF IInv, UnseenIsUndelivered, SignalsAreSeenAtHome, AtHome, SignalsNotReturned,
         TypeOK, Msg
<1> QED
  BY <1>1, GossipInvariant, PTL

\* A message crosses a link at most once in each direction, so that the gossip
\* of finitely many messages ends whatever cycles the topology has.
THEOREM CarriedOnceHolds == Spec => []CarriedOnce
<1>1. IInv => CarriedOnce
  BY DEF IInv, CarriedIsSeen, CarriedOnce
<1> QED
  BY <1>1, GossipInvariant, PTL

(***************************************************************************)
(* The reach of a message.  Ball is a recursive function, so its equations *)
(* and its monotony are proved by induction, on the set of the numbers     *)
(* they hold for.                                                          *)
(***************************************************************************)

\* A set with 0 that has the successor of each of its numbers has them all.
LEMMA SetInduction ==
    ASSUME NEW S, 0 \in S, \A n \in Nat : n \in S => n + 1 \in S
    PROVE  Nat \subseteq S
<1> DEFINE R == OpToRel(<, Nat)
           T == Nat \ S
<1> SUFFICES ASSUME T # {} PROVE FALSE
  OBVIOUS
<1>1. IsWellFoundedOn(R, Nat)
  BY NatLessThanWellFounded
<1>2. T \subseteq Nat
  OBVIOUS
<1>3. PICK x \in T : \A y \in T : ~(<<y, x>> \in R)
  <2> HIDE DEF R, T
  <2> QED
    BY <1>1, <1>2, WFMin
<1>4. x \in Nat /\ x \notin S /\ x # 0
  BY <1>3
<1>5. x - 1 \in Nat /\ (x - 1) + 1 = x /\ x - 1 < x
  BY <1>4
<1>6. x - 1 \in T
  BY <1>4, <1>5
<1>7. <<x - 1, x>> \in R
  BY <1>4, <1>5 DEF OpToRel
<1> QED
  BY <1>3, <1>6, <1>7

\* The function Ball(n) exists and satisfies its equations.
LEMMA BallEquations ==
    ASSUME NEW n
    PROVE  /\ Ball(n)[0] = {n}
           /\ \A k \in 1..MaxTTL : Ball(n)[k] = Around(Ball(n)[k - 1])
<1> DEFINE Solves(f, K) == f = [k \in 0..K |-> IF k = 0 THEN {n} ELSE Around(f[k - 1])]
           S == {K \in Nat : \E f : Solves(f, K)}
<1>1. 0 \in S
  <2> DEFINE f == [k \in 0..0 |-> {n}]
  <2>1. Solves(f, 0)
    OBVIOUS
  <2> QED
    BY <2>1
<1>2. ASSUME NEW K \in Nat, K \in S PROVE K + 1 \in S
  <2>1. PICK f : Solves(f, K)
    BY <1>2
  <2> DEFINE g == [k \in 0..(K + 1) |-> IF k \in 0..K THEN f[k] ELSE Around(f[K])]
             h == [k \in 0..(K + 1) |-> IF k = 0 THEN {n} ELSE Around(g[k - 1])]
  <2>2. ASSUME NEW k \in 0..(K + 1) PROVE g[k] = h[k]
    <3>1. CASE k = 0
      BY <2>1, <3>1
    <3>2. CASE k \in 1..K
      <4>1. k \in 0..K /\ k - 1 \in 0..K /\ k - 1 \in 0..(K + 1) /\ k # 0
        BY <3>2
      <4>2. f[k] = Around(f[k - 1])
        BY <2>1, <4>1
      <4>3. g[k] = f[k] /\ g[k - 1] = f[k - 1]
        BY <4>1
      <4> QED
        BY <4>1, <4>2, <4>3
    <3>3. CASE k = K + 1
      <4>1. k \notin 0..K /\ k # 0 /\ k - 1 = K /\ K \in 0..K /\ K \in 0..(K + 1)
        BY <3>3
      <4>2. g[k] = Around(f[K]) /\ g[K] = f[K]
        BY <4>1
      <4> QED
        BY <4>1, <4>2
    <3> QED
      BY <3>1, <3>2, <3>3
  <2>3. g = h
    BY <2>2
  <2>4. Solves(g, K + 1)
    BY <2>3
  <2> HIDE DEF Solves, g
  <2> QED
    BY <2>4
<1>3. MaxTTL \in S
  <2> HIDE DEF S
  <2> QED
    BY <1>1, <1>2, SetInduction, BoundAssumption
<1>4. Ball(n) = CHOOSE f : Solves(f, MaxTTL)
  BY DEF Ball
<1>5. \E f : Solves(f, MaxTTL)
  <2> HIDE DEF Solves
  <2> QED
    BY <1>3
<1>6. Solves(Ball(n), MaxTTL)
  <2> HIDE DEF Solves
  <2> QED
    BY <1>4, <1>5
<1> DEFINE b == Ball(n)
<1>7. b = [k \in 0..MaxTTL |-> IF k = 0 THEN {n} ELSE Around(b[k - 1])]
  BY <1>6
<1> HIDE DEF b
<1>8. b[0] = {n} /\ \A k \in 1..MaxTTL : b[k] = Around(b[k - 1])
  <2>1. \A k \in 0..MaxTTL : b[k] = IF k = 0 THEN {n} ELSE Around(b[k - 1])
    BY <1>7, Zenon
  <2>2. 0 \in 0..MaxTTL /\ \A k \in 1..MaxTTL : k \in 0..MaxTTL /\ k # 0
    BY BoundAssumption
  <2> QED
    BY <2>1, <2>2
<1> QED
  BY <1>8 DEF b

\* A larger radius loses no node.
LEMMA BallGrows ==
    ASSUME NEW n, NEW j \in 0..MaxTTL
    PROVE  Ball(n)[j] \subseteq Ball(n)[MaxTTL]
<1> DEFINE b == Ball(n)
           S == {i \in Nat : j + i <= MaxTTL => b[j] \subseteq b[j + i]}
<1>1. 0 \in S
  BY BoundAssumption
<1>2. ASSUME NEW i \in Nat, i \in S PROVE i + 1 \in S
  <2> SUFFICES ASSUME j + (i + 1) <= MaxTTL PROVE b[j] \subseteq b[j + (i + 1)]
    OBVIOUS
  <2>1. /\ j + (i + 1) \in 1..MaxTTL /\ (j + (i + 1)) - 1 = j + i
        /\ j + i <= MaxTTL
    BY BoundAssumption
  <2>2. b[j + (i + 1)] = Around(b[j + i])
    BY <2>1, BallEquations
  <2>3. b[j + i] \subseteq Around(b[j + i])
    BY DEF Around
  <2> QED
    BY <1>2, <2>1, <2>2, <2>3
<1>3. MaxTTL - j \in Nat /\ j + (MaxTTL - j) = MaxTTL /\ j + (MaxTTL - j) <= MaxTTL
  BY BoundAssumption
<1>4. MaxTTL - j \in S
  <2> HIDE DEF S
  <2> QED
    BY <1>1, <1>2, <1>3, SetInduction
<1> QED
  BY <1>3, <1>4

\* A copy at a port has come as many links as its TTL has lost.
InRange(o, p, copy) ==
    copy.ttl # 0 /\ p[2] \in Ball(o)[MaxTTL - copy.ttl + 1]

CopiesInRange ==
    \A p \in Port :
        /\ \A i \in 1..Len(wire[p]) : InRange(origin[wire[p][i].msg], p, wire[p][i])
        /\ hand[p] # NoCopy => InRange(origin[hand[p].msg], p, hand[p])

ReachInv == CopiesInRange /\ WithinTTL

\* The new copies of a send carry its message and its TTL, on the given ports.
LEMMA SendCopies ==
    ASSUME TypeOK, NEW ports \in SUBSET Port, NEW m \in Msg, NEW ttl \in 0..MaxTTL,
           SendTo(ports, m, ttl), NEW p \in Port, NEW i \in 1..Len(wire'[p])
    PROVE  \/ p \in ports /\ wire'[p][i] = [msg |-> m, ttl |-> ttl]
           \/ i \in 1..Len(wire[p]) /\ wire'[p][i] = wire[p][i]
<1> DEFINE copy == [msg |-> m, ttl |-> ttl]
<1>1. copy \in Copy /\ wire[p] \in Seq(Copy)
  BY DEF Copy, TypeOK
<1>2. \/ p \in ports /\ wire'[p] = Append(wire[p], copy)
      \/ wire'[p] = wire[p]
  BY DEF SendTo
<1> HIDE DEF copy
<1>3. CASE p \in ports /\ wire'[p] = Append(wire[p], copy)
  <2>0. Len(wire[p]) \in Nat /\ Len(wire'[p]) = Len(wire[p]) + 1
    BY <1>1, <1>3
  <2>1. i = Len(wire[p]) + 1 \/ i \in 1..Len(wire[p])
    BY <2>0
  <2> QED
    BY <1>1, <1>3, <2>1 DEF copy
<1> QED
  BY <1>2, <1>3

\* A node that is a peer of one in the ball is in the next larger ball.
LEMMA PeerIsAround ==
    ASSUME NEW o, NEW k \in 1..MaxTTL, NEW n \in Ball(o)[k - 1], NEW except,
           NEW p \in Peers(n, except)
    PROVE  p[2] \in Ball(o)[k]
<1>1. p[1] \in Link /\ n \in Ends[p[1]] /\ p[2] \in Ends[p[1]]
  BY DEF Peers, Port
<1>2. p[2] \in Around(Ball(o)[k - 1])
  BY <1>1 DEF Around
<1> QED
  BY <1>2, BallEquations

\* A publisher's copies have all of their TTL and have come one link.
LEMMA PublishReach ==
    ASSUME IInv, ReachInv, NEW n \in Node, NEW m \in Msg, Publish(n, m)
    PROVE  ReachInv'
<1>1. /\ TypeOK /\ origin[m] = NoNode /\ n # NoNode
      /\ SendTo(Peers(n, {}), m, MaxTTL) /\ hand' = hand
      /\ origin' = [origin EXCEPT ![m] = n]
      /\ delivered' = [delivered EXCEPT ![n][m] = @ + 1]
  BY EndsAssumption DEF IInv, Publish
<1>2. /\ origin'[m] = n
      /\ \A k \in Msg : origin[k] # NoNode => origin'[k] = origin[k]
      /\ \A k \in Msg : k # m => origin'[k] = origin[k]
  BY <1>1 DEF TypeOK
<1>3. MaxTTL \in 0..MaxTTL /\ MaxTTL # 0 /\ MaxTTL - MaxTTL + 1 = 1 /\ 1 \in 1..MaxTTL
      /\ 1 - 1 = 0 /\ 0 \in 0..MaxTTL
  BY BoundAssumption
<1>5. ASSUME NEW p \in Port, NEW i \in 1..Len(wire'[p])
      PROVE  InRange(origin'[wire'[p][i].msg], p, wire'[p][i])
  <2>1. CASE p \in Peers(n, {}) /\ wire'[p][i] = [msg |-> m, ttl |-> MaxTTL]
    <3>1. n \in Ball(n)[1 - 1]
      BY <1>3, BallEquations
    <3>2. p[2] \in Ball(n)[1]
      BY <1>3, <2>1, <3>1, PeerIsAround
    <3> QED
      BY <1>2, <1>3, <2>1, <3>2 DEF InRange
  <2>2. CASE i \in 1..Len(wire[p]) /\ wire'[p][i] = wire[p][i]
    <3> DEFINE copy == wire[p][i]
    <3>1. /\ copy.msg \in Msg /\ origin[copy.msg] # NoNode
          /\ InRange(origin[copy.msg], p, copy)
      BY <1>1, <2>2, WireHoldsCopies DEF ReachInv, CopiesInRange, IInv, CopiesArePublished
    <3> QED
      BY <1>2, <2>2, <3>1
  <2> DEFINE ports == Peers(n, {})
  <2>3. ports \in SUBSET Port /\ SendTo(ports, m, MaxTTL) /\ TypeOK
    BY <1>1, PeersArePorts
  <2> HIDE DEF ports
  <2>4. \/ p \in ports /\ wire'[p][i] = [msg |-> m, ttl |-> MaxTTL]
        \/ i \in 1..Len(wire[p]) /\ wire'[p][i] = wire[p][i]
    BY <1>3, <2>3, SendCopies
  <2> QED
    BY <2>1, <2>2, <2>4 DEF ports
<1>6. ASSUME NEW p \in Port, hand'[p] # NoCopy
      PROVE  InRange(origin'[hand'[p].msg], p, hand'[p])
  <2>1. hand'[p] = hand[p] /\ hand[p] \in Copy
    BY <1>1, <1>6 DEF TypeOK
  <2>2. /\ hand[p].msg \in Msg /\ origin[hand[p].msg] # NoNode
        /\ InRange(origin[hand[p].msg], p, hand[p])
    BY <1>6, <2>1 DEF ReachInv, CopiesInRange, IInv, CopiesArePublished, Copy
  <2> QED
    BY <1>2, <2>1, <2>2
<1>7. CopiesInRange'
  BY <1>5, <1>6 DEF CopiesInRange
<1>8. WithinTTL'
  <2> SUFFICES ASSUME NEW x \in Node, NEW k \in Msg, delivered'[x][k] > 0
               PROVE  x \in Ball(origin'[k])[MaxTTL]
    BY DEF WithinTTL
  <2>1. CASE k # m
    <3>1. delivered'[x][k] = delivered[x][k]
      BY <1>1, <2>1 DEF TypeOK
    <3> QED
      BY <1>2, <2>1, <3>1 DEF ReachInv, WithinTTL
  <2>2. CASE k = m /\ x = n
    <3>1. n \in Ball(n)[0]
      BY BallEquations
    <3> QED
      BY <1>2, <1>3, <2>2, <3>1, BallGrows
  <2>3. CASE k = m /\ x # n
    <3>1. delivered[x][m] = 0
      BY <1>1 DEF IInv, FreshIsUnknown
    <3>2. delivered'[x][m] = delivered[x][m]
      BY <1>1, <2>3 DEF TypeOK
    <3> QED
      BY <2>3, <3>1, <3>2
  <2> QED
    BY <2>1, <2>2, <2>3
<1> QED
  BY <1>7, <1>8 DEF ReachInv

\* A pump takes a copy from its own port.
LEMMA TakeReach ==
    ASSUME IInv, ReachInv, NEW p \in Port, Take(p)
    PROVE  ReachInv'
<1>1. /\ TypeOK /\ CopiesInRange /\ WithinTTL
      /\ wire[p] # <<>> /\ wire' = [wire EXCEPT ![p] = Tail(@)]
      /\ hand' = hand \/ hand' = [hand EXCEPT ![p] = Head(wire[p])]
      /\ origin' = origin /\ delivered' = delivered
  BY DEF IInv, ReachInv, Take
<1>2. wire[p] \in Seq(Copy) /\ 1 \in 1..Len(wire[p]) /\ Head(wire[p]) = wire[p][1]
  <2>1. wire[p] \in Seq(Copy)
    BY <1>1 DEF TypeOK
  <2> QED
    BY <1>1, <2>1
<1>3. ASSUME NEW q \in Port, NEW i \in 1..Len(wire'[q])
      PROVE  InRange(origin[wire'[q][i].msg], q, wire'[q][i])
  <2>1. CASE q = p
    <3>1. wire'[p] = Tail(wire[p])
      BY <1>1 DEF TypeOK
    <3>2. i + 1 \in 1..Len(wire[p]) /\ wire'[p][i] = wire[p][i + 1]
      <4>1. Len(Tail(wire[p])) = Len(wire[p]) - 1 /\ i \in 1..Len(Tail(wire[p]))
        <5>1. Len(Tail(wire[p])) = Len(wire[p]) - 1
          BY <1>1, <1>2
        <5> QED
          BY <2>1, <3>1, <5>1
      <4> QED
        BY <1>2, <3>1, <4>1
    <3> QED
      BY <1>1, <2>1, <3>2 DEF CopiesInRange
  <2>2. CASE q # p
    <3>1. wire'[q] = wire[q]
      BY <1>1, <2>2 DEF TypeOK
    <3> QED
      BY <1>1, <3>1 DEF CopiesInRange
  <2> QED
    BY <2>1, <2>2
<1>4. ASSUME NEW q \in Port, hand'[q] # NoCopy
      PROVE  InRange(origin[hand'[q].msg], q, hand'[q])
  <2>1. hand'[q] = hand[q] \/ (q = p /\ hand'[q] = wire[p][1])
    BY <1>1, <1>2 DEF TypeOK
  <2> QED
    BY <1>1, <1>2, <1>4, <2>1 DEF CopiesInRange
<1> QED
  BY <1>1, <1>3, <1>4 DEF ReachInv, CopiesInRange, WithinTTL

\* Only a room message or DM is ever forwarded, since the id of anything else
\* is in seen when propagateExcept looks for it: its TTL is never reset.
LEMMA RelayReach ==
    ASSUME IInv, ReachInv, NEW p \in Port, Relay(p)
    PROVE  ReachInv'
<1> DEFINE n == p[2]
           copy == hand[p]
           m == copy.msg
           o == origin[m]
<1>1. /\ TypeOK /\ CopiesInRange /\ WithinTTL /\ HandIsFirst
      /\ copy # NoCopy /\ hand' = [hand EXCEPT ![p] = NoCopy]
      /\ delivered' = [delivered EXCEPT ![n][m] = @ + 1]
      /\ origin' = origin
  BY DEF IInv, ReachInv, Relay
<1>2. copy \in Copy /\ m \in Msg /\ copy.ttl \in 0..MaxTTL /\ n \in Node
  BY <1>1, Ports DEF TypeOK, Copy
<1>3. copy.ttl # 0 /\ n \in Ball(o)[MaxTTL - copy.ttl + 1]
  BY <1>1 DEF CopiesInRange, InRange
<1>4. MessageId(m) \in seen[n]
  BY <1>1, <1>2 DEF HandIsFirst, Holds
<1>5. ASSUME NEW q \in Port, NEW i \in 1..Len(wire'[q])
      PROVE  InRange(origin[wire'[q][i].msg], q, wire'[q][i])
  <2>1. CASE i \in 1..Len(wire[q]) /\ wire'[q][i] = wire[q][i]
    BY <1>1, <2>1 DEF CopiesInRange
  <2>2. CASE ~(i \in 1..Len(wire[q]) /\ wire'[q][i] = wire[q][i])
    <3>1. wire' # wire
      BY <2>2
    <3>2. /\ MayForward(copy) /\ Id(m) \notin seen[n]
          /\ SendTo(Peers(n, {p[1]}), m, ForwardTTL(copy))
      BY <3>1 DEF Relay
    <3>3. m \in Chat
      BY <1>2, <1>4, <3>2, Identifiers
    <3>4. m \notin Announce
      BY <3>3, KindAssumption
    <3> DEFINE ttl == copy.ttl - 1
    <3>5. ForwardTTL(copy) = ttl /\ ttl # 0 /\ ttl \in 0..MaxTTL
      <4>1. Decrement(copy.ttl) = ttl /\ ttl \in 0..MaxTTL
        BY <1>2, <1>3, BoundAssumption DEF Decrement
      <4>2. Decrement(copy.ttl) > 0
        BY <3>2, <3>4 DEF MayForward
      <4> QED
        BY <4>1, <4>2 DEF ForwardTTL
    <3>6. q \in Peers(n, {p[1]}) /\ wire'[q][i] = [msg |-> m, ttl |-> ttl]
      <4> DEFINE ports == Peers(n, {p[1]})
      <4>1. /\ TypeOK /\ ports \in SUBSET Port /\ m \in Msg /\ ttl \in 0..MaxTTL
            /\ SendTo(ports, m, ttl)
        BY <1>1, <1>2, <3>2, <3>5, PeersArePorts
      <4> HIDE DEF ttl, m, n, ports
      <4>2. \/ q \in ports /\ wire'[q][i] = [msg |-> m, ttl |-> ttl]
            \/ i \in 1..Len(wire[q]) /\ wire'[q][i] = wire[q][i]
        BY <4>1, SendCopies
      <4>3. q \in ports /\ wire'[q][i] = [msg |-> m, ttl |-> ttl]
        BY <2>2, <4>2
      <4> QED
        BY <4>3 DEF ports
    <3>7. /\ MaxTTL - ttl + 1 \in 1..MaxTTL
          /\ (MaxTTL - ttl + 1) - 1 = MaxTTL - copy.ttl + 1
      <4> DEFINE t == copy.ttl
      <4>1. t \in 0..MaxTTL /\ t - 1 # 0 /\ t - 1 \in 0..MaxTTL /\ MaxTTL \in Nat
        BY <1>2, <3>5, BoundAssumption
      <4> HIDE DEF t
      <4>2. /\ MaxTTL - (t - 1) + 1 \in 1..MaxTTL
            /\ (MaxTTL - (t - 1) + 1) - 1 = MaxTTL - t + 1
        BY <4>1
      <4> QED
        BY <4>2 DEF t
    <3>8. q[2] \in Ball(o)[MaxTTL - ttl + 1]
      BY <1>3, <3>6, <3>7, PeerIsAround
    <3> QED
      BY <3>5, <3>6, <3>8 DEF InRange
  <2> QED
    BY <2>1, <2>2
<1>6. ASSUME NEW q \in Port, hand'[q] # NoCopy
      PROVE  InRange(origin[hand'[q].msg], q, hand'[q])
  <2>1. hand'[q] = hand[q]
    BY <1>1, <1>6 DEF TypeOK
  <2> QED
    BY <1>1, <1>6, <2>1 DEF CopiesInRange
<1>7. ASSUME NEW x \in Node, NEW k \in Msg, delivered'[x][k] > 0
      PROVE  x \in Ball(origin[k])[MaxTTL]
  <2>1. CASE x = n /\ k = m
    <3>1. MaxTTL - copy.ttl + 1 \in 0..MaxTTL
      BY <1>2, <1>3, BoundAssumption
    <3> QED
      BY <1>3, <2>1, <3>1, BallGrows
  <2>2. CASE ~(x = n /\ k = m)
    <3>1. delivered'[x][k] = delivered[x][k]
      BY <1>1, <2>2 DEF TypeOK
    <3> QED
      BY <1>1, <1>7, <3>1 DEF WithinTTL
  <2> QED
    BY <2>1, <2>2
<1> QED
  BY <1>1, <1>5, <1>6, <1>7 DEF ReachInv, CopiesInRange, WithinTTL

\* No hub is handed a message from beyond its TTL, on every topology and for
\* every MaxTTL, though propagateExcept takes a TTL of zero for a missing one.
THEOREM WithinTTLHolds == Spec => []WithinTTL
<1>1. ASSUME Init PROVE ReachInv
  <2>1. /\ \A p \in Port : wire[p] = <<>> /\ hand[p] = NoCopy
        /\ \A n \in Node, m \in Msg : delivered[n][m] = 0
    BY <1>1 DEF Init
  <2> QED
    BY <2>1 DEF ReachInv, CopiesInRange, WithinTTL
<1>2. ASSUME IInv, ReachInv, [Next]_vars PROVE ReachInv'
  <2>1. ASSUME NEW l \in Link, LinkFails(l) \/ LinkReturns(l) PROVE ReachInv'
    <3>1. UNCHANGED <<hand, origin, delivered>>
      BY <2>1 DEF LinkFails, LinkReturns
    <3>2. \A p \in Port : wire'[p] = <<>> \/ wire'[p] = wire[p]
      BY <2>1 DEF LinkFails, LinkReturns
    <3> QED
      BY <1>2, <3>1, <3>2 DEF ReachInv, CopiesInRange, WithinTTL
  <2>2. CASE UNCHANGED vars
    BY <1>2, <2>2 DEF vars, ReachInv, CopiesInRange, WithinTTL
  <2> QED
    BY <1>2, <2>1, <2>2, PublishReach, TakeReach, RelayReach DEF Next
<1>3. ReachInv => WithinTTL
  BY DEF ReachInv
<1> QED
  BY <1>1, <1>2, <1>3, GossipInvariant, PTL DEF Spec
=============================================================================
