--------------------------- MODULE DeliveryProofs ---------------------------
(***************************************************************************)
(* For any number of users, servers and direct messages, and channels of   *)
(* any length: two blue ticks are true, since whatever says on its way     *)
(* that a DM was read, a request, an effect, an event or a history, says   *)
(* so of a DM that its recipient has seen; two grey ticks are true, since  *)
(* a DM is confirmed after it was handed over, or dropped; and a DM is     *)
(* stuck at one tick only if it was refused, if a request, a copy or a     *)
(* receipt of it was dropped, or if no receipt can come: otherwise what is *)
(* to move it on is always somewhere.                                      *)
(***************************************************************************)
EXTENDS Delivery, SequenceTheorems, FiniteSetTheorems, TLAPS

\* The requests, events, histories and effects that are true if the DMs in S
\* have been seen.
TrueRequest(S) == {r \in Request : r.type = "read" => r.dm \in S}
TrueEvent(S)   == {e \in Event : e.type = "read" => e.dm \in S}
TrueHistory(S) == {h \in History : \A d \in DM : h.status[d] = "read" => d \in S}

TrueEffect(S) ==
    [op : {"save"}, dm : DM]
    \cup {e \in [op : {"status"}, dm : DM, status : Receipt] : e.status = "read" => e.dm \in S}
    \cup [op : {"send"}, to : User, event : TrueEvent(S) \cup TrueHistory(S)]
    \cup [op : {"propagate"}, event : TrueEvent(S)]

\* What is on its way is true.
WiresTrue ==
    /\ inbox \in [User -> Seq(TrueRequest(seen))]
    /\ send \in [User -> Seq(TrueEvent(seen) \cup TrueHistory(seen))]
    /\ mesh \in [Link -> Seq(TrueEvent(seen))]
    /\ job \in [Worker -> Seq(TrueEffect(seen))]

\* What is kept has its type.
KeptTyped ==
    /\ stored \in [Server -> [DM -> Stored]]
    /\ view \in [User -> [DM -> Shown]]
    /\ viewing \in [User -> User \cup {NoUser}]
    /\ posted \subseteq DM /\ lost \subseteq DM /\ handed \subseteq DM /\ seen \subseteq DM
    /\ dropped \subseteq User
    /\ switches \in 0..MaxSwitches

IInv == WiresTrue /\ KeptTyped /\ ReadIsTrue

-----------------------------------------------------------------------------
\* A sequence over a set is one over a larger set.
LEMMA SeqMonotone ==
    ASSUME NEW S, NEW T, S \subseteq T, NEW q \in Seq(S)
    PROVE  q \in Seq(T)
<1>1. q \in [1..Len(q) -> S] /\ Len(q) \in Nat
  OBVIOUS
<1>2. q \in [1..Len(q) -> T]
  BY <1>1
<1> QED
  BY <1>1, <1>2

\* SetToSeq lists the elements of a finite set.
LEMMA SetToSeqType ==
    ASSUME NEW S, IsFiniteSet(S)
    PROVE  SetToSeq(S) \in Seq(S)
<1> DEFINE n == Cardinality(S)
<1>1. n \in Nat /\ ExistsBijection(1..n, S)
  BY FS_CardinalityType
<1>2. PICK f \in Bijection(1..n, S) : TRUE
  BY <1>1 DEF ExistsBijection
<1>3. f \in [1..n -> S] /\ IsInjective(f)
  BY <1>2 DEF Bijection, Injection, IsInjective
<1>4. SetToSeq(S) \in [1..n -> S]
  BY <1>3 DEF SetToSeq
<1> QED
  BY <1>1, <1>4

\* What was true stays true when more has been seen.
LEMMA TruthGrows ==
    ASSUME NEW S, NEW T, S \subseteq T
    PROVE  /\ TrueRequest(S) \subseteq TrueRequest(T)
           /\ TrueEvent(S) \subseteq TrueEvent(T)
           /\ TrueHistory(S) \subseteq TrueHistory(T)
           /\ TrueEffect(S) \subseteq TrueEffect(T)
<1>1. TrueRequest(S) \subseteq TrueRequest(T)
  BY DEF TrueRequest
<1>2. TrueEvent(S) \subseteq TrueEvent(T)
  BY DEF TrueEvent
<1>3. TrueHistory(S) \subseteq TrueHistory(T)
  BY DEF TrueHistory
<1>4. TrueEffect(S) \subseteq TrueEffect(T)
  BY <1>2, <1>3 DEF TrueEffect
<1> QED
  BY <1>1, <1>2, <1>3, <1>4

\* So the wires stay true.
LEMMA WiresStayTrue ==
    ASSUME WiresTrue, seen \subseteq seen'
    PROVE  /\ inbox \in [User -> Seq(TrueRequest(seen'))]
           /\ send \in [User -> Seq(TrueEvent(seen') \cup TrueHistory(seen'))]
           /\ mesh \in [Link -> Seq(TrueEvent(seen'))]
           /\ job \in [Worker -> Seq(TrueEffect(seen'))]
<1>1. /\ TrueRequest(seen) \subseteq TrueRequest(seen')
      /\ TrueEvent(seen) \subseteq TrueEvent(seen')
      /\ TrueHistory(seen) \subseteq TrueHistory(seen')
      /\ TrueEffect(seen) \subseteq TrueEffect(seen')
  BY TruthGrows
<1>2. \A u \in User : inbox[u] \in Seq(TrueRequest(seen'))
  BY <1>1, SeqMonotone DEF WiresTrue
<1>3. \A u \in User : send[u] \in Seq(TrueEvent(seen') \cup TrueHistory(seen'))
  <2>1. TrueEvent(seen) \cup TrueHistory(seen) \subseteq TrueEvent(seen') \cup TrueHistory(seen')
    BY <1>1
  <2> QED
    BY <2>1, SeqMonotone DEF WiresTrue
<1>4. \A l \in Link : mesh[l] \in Seq(TrueEvent(seen'))
  BY <1>1, SeqMonotone DEF WiresTrue
<1>5. \A w \in Worker : job[w] \in Seq(TrueEffect(seen'))
  BY <1>1, SeqMonotone DEF WiresTrue
<1> QED
  BY <1>2, <1>3, <1>4, <1>5 DEF WiresTrue

\* The effects of the handlers are true if what they begin with is.
LEMMA EffectsTrue ==
    ASSUME NEW S, NEW d \in DM
    PROVE  /\ Save(d) \in TrueEffect(S)
           /\ \A status \in Receipt : (status = "read" => d \in S) =>
                 /\ Status(d, status) \in TrueEffect(S)
                 /\ About(d, status) \in TrueEvent(S)
           /\ About(d, "dm") \in TrueEvent(S)
           /\ \A u \in User : \A e \in TrueEvent(S) \cup TrueHistory(S) :
                 Send(u, e) \in TrueEffect(S)
           /\ \A e \in TrueEvent(S) : Propagate(e) \in TrueEffect(S)
<1> USE DEF Receipt
<1>1. Save(d) \in TrueEffect(S)
  BY DEF Save, TrueEffect
<1>2. \A status \in Receipt : (status = "read" => d \in S) =>
          Status(d, status) \in TrueEffect(S)
  BY DEF Status, TrueEffect
<1>3. \A status \in Receipt : (status = "read" => d \in S) =>
          About(d, status) \in TrueEvent(S)
  BY DEF About, TrueEvent, Event
<1>4. About(d, "dm") \in TrueEvent(S)
  BY DEF About, TrueEvent, Event
<1>5. \A u \in User : \A e \in TrueEvent(S) \cup TrueHistory(S) :
          Send(u, e) \in TrueEffect(S)
  BY DEF Send, TrueEffect
<1>6. \A e \in TrueEvent(S) : Propagate(e) \in TrueEffect(S)
  BY DEF Propagate, TrueEffect
<1> QED
  BY <1>1, <1>2, <1>3, <1>4, <1>5, <1>6

\* The handlers' effects are true if what they were asked is.
LEMMA JobsTrue ==
    ASSUME NEW S, NEW d \in DM
    PROVE  /\ Local(d) \in Seq(TrueEffect(S))
           /\ Injected(d) \in Seq(TrueEffect(S))
           /\ <<Save(d), Propagate(About(d, "dm"))>> \in Seq(TrueEffect(S))
           /\ <<Save(d)>> \in Seq(TrueEffect(S))
           /\ \A s \in Server : \A status \in Receipt : (status = "read" => d \in S) =>
                 /\ Receipted(s, d, status) \in Seq(TrueEffect(S))
                 /\ Propagate(About(d, status)) \in TrueEffect(S)
<1>1. /\ Save(d) \in TrueEffect(S)
      /\ Status(d, "delivered") \in TrueEffect(S)
      /\ Propagate(About(d, "dm")) \in TrueEffect(S)
      /\ Propagate(About(d, "delivered")) \in TrueEffect(S)
      /\ Send(To[d], About(d, "dm")) \in TrueEffect(S)
      /\ Send(From[d], About(d, "delivered")) \in TrueEffect(S)
  BY EffectsTrue, EndsAssumption DEF Receipt
<1>2. ASSUME NEW s \in Server, NEW status \in Receipt, status = "read" => d \in S
      PROVE  /\ Receipted(s, d, status) \in Seq(TrueEffect(S))
             /\ Propagate(About(d, status)) \in TrueEffect(S)
  <2>1. /\ Status(d, status) \in TrueEffect(S)
        /\ Send(From[d], About(d, status)) \in TrueEffect(S)
        /\ Propagate(About(d, status)) \in TrueEffect(S)
    BY <1>2, EffectsTrue, EndsAssumption
  <2> QED
    BY <2>1 DEF Receipted
<1>3. Local(d) \in Seq(TrueEffect(S))
  BY <1>1 DEF Local
<1>4. Injected(d) \in Seq(TrueEffect(S))
  BY <1>1 DEF Injected
<1> QED
  BY <1>1, <1>2, <1>3, <1>4

-----------------------------------------------------------------------------
\* What arrives at a browser.
LEMMA Arriving ==
    ASSUME IInv, NEW u \in User, NEW type, Arrives(u, type)
    PROVE  LET event == Head(send[u])
           IN  /\ type = "dm_history" => event \in TrueHistory(seen)
               /\ type # "dm_history" => event \in TrueEvent(seen)
               /\ event.type = type
               /\ send' \in [User -> Seq(TrueEvent(seen) \cup TrueHistory(seen))]
<1>1. send[u] \in Seq(TrueEvent(seen) \cup TrueHistory(seen)) /\ send[u] # <<>>
  BY DEF IInv, WiresTrue, Arrives
<1>2. Head(send[u]) \in TrueEvent(seen) \cup TrueHistory(seen)
  BY <1>1
<1>3. Tail(send[u]) \in Seq(TrueEvent(seen) \cup TrueHistory(seen))
  BY <1>1
<1>4. \A e \in TrueEvent(seen) : e.type # "dm_history"
  BY DEF TrueEvent, Event, Receipt
<1>5. \A h \in TrueHistory(seen) : h.type = "dm_history"
  BY DEF TrueHistory, History
<1>6. Head(send[u]).type = type /\ send' = [send EXCEPT ![u] = Tail(@)]
  BY DEF Arrives
<1>7. send' \in [User -> Seq(TrueEvent(seen) \cup TrueHistory(seen))]
  BY <1>3, <1>6 DEF IInv, WiresTrue
<1> QED
  BY <1>2, <1>4, <1>5, <1>6, <1>7

\* The steps of a user.
LEMMA UserStep ==
    ASSUME IInv, NEW u \in User,
           \/ \E d \in DM : SendDM(d)
           \/ SwitchToRoom(u)
           \/ \E peer \in User : SwitchToDM(u, peer)
    PROVE  IInv'
<1> USE DEF browserVars, serverVars
<1>1. ASSUME NEW d \in DM, SendDM(d)
      PROVE  IInv'
  <2>1. From[d] \in User
    BY EndsAssumption
  <2>2. [type |-> "dm", dm |-> d] \in TrueRequest(seen)
    BY DEF TrueRequest, Request
  <2>3. inbox' \in [User -> Seq(TrueRequest(seen))]
    BY <1>1, <2>1, <2>2 DEF SendDM, IInv, WiresTrue
  <2>4. WiresTrue'
    BY <1>1, <2>3 DEF SendDM, IInv, WiresTrue
  <2>5. KeptTyped'
    BY <1>1, <2>1 DEF SendDM, IInv, KeptTyped, Shown
  <2>6. \A v \in User : \A x \in DM : view'[v][x] = "read" => view[v][x] = "read"
    BY <1>1, <2>1 DEF SendDM, IInv, KeptTyped
  <2>7. ReadIsTrue'
    BY <1>1, <2>6, EndsAssumption DEF SendDM, IInv, ReadIsTrue
  <2> QED
    BY <2>4, <2>5, <2>7 DEF IInv
<1>2. CASE SwitchToRoom(u)
  <2>1. WiresTrue'
    BY <1>2 DEF SwitchToRoom, IInv, WiresTrue
  <2>2. KeptTyped'
    BY <1>2, BoundAssumption DEF SwitchToRoom, IInv, KeptTyped
  <2>3. ReadIsTrue'
    BY <1>2 DEF SwitchToRoom, IInv, ReadIsTrue
  <2> QED
    BY <2>1, <2>2, <2>3 DEF IInv
<1>3. ASSUME NEW peer \in User, SwitchToDM(u, peer)
      PROVE  IInv'
  <2> DEFINE unread == {d \in Kept(u, peer) : To[d] = u /\ view[u][d] # "read"}
             receipts == {[type |-> "read", dm |-> d] : d \in unread}
  <2>1. unread \subseteq DM
    BY DEF Kept, Conversation
  <2>2. seen' = seen \cup unread
    BY <1>3 DEF SwitchToDM
  <2>3. \A r \in receipts : r \in TrueRequest(seen')
    BY <2>1, <2>2 DEF TrueRequest, Request
  <2>4. SetToSeq(receipts) \in Seq(TrueRequest(seen'))
    <3>1. IsFiniteSet(unread)
      BY <2>1, DMAssumption, FS_Subset
    <3>2. IsFiniteSet(receipts)
      <4> DEFINE f == [d \in unread |-> [type |-> "read", dm |-> d]]
      <4>1. f \in Surjection(unread, receipts)
        BY DEF Surjection
      <4> HIDE DEF f, receipts
      <4> QED
        BY <3>1, <4>1, FS_Surjection
    <3>3. SetToSeq(receipts) \in Seq(receipts)
      BY <3>2, SetToSeqType
    <3> QED
      BY <2>3, <3>3, SeqMonotone
  <2>5. <<[type |-> "get_dm_history", peer |-> peer]>> \in Seq(TrueRequest(seen'))
    <3>1. [type |-> "get_dm_history", peer |-> peer] \in TrueRequest(seen')
      BY DEF TrueRequest, Request
    <3> QED
      BY <3>1
  <2>6. /\ inbox \in [User -> Seq(TrueRequest(seen'))]
        /\ send \in [User -> Seq(TrueEvent(seen') \cup TrueHistory(seen'))]
        /\ mesh \in [Link -> Seq(TrueEvent(seen'))]
        /\ job \in [Worker -> Seq(TrueEffect(seen'))]
    BY <2>2, WiresStayTrue DEF IInv
  <2>7. inbox' \in [User -> Seq(TrueRequest(seen'))]
    <3>1. inbox' = [inbox EXCEPT ![u] = @ \o
              IF Kept(u, peer) = {} THEN <<[type |-> "get_dm_history", peer |-> peer]>>
              ELSE SetToSeq(receipts)]
      BY <1>3 DEF SwitchToDM
    <3>2. inbox[u] \o (IF Kept(u, peer) = {} THEN <<[type |-> "get_dm_history", peer |-> peer]>>
              ELSE SetToSeq(receipts)) \in Seq(TrueRequest(seen'))
      BY <2>4, <2>5, <2>6
    <3> HIDE DEF receipts
    <3> QED
      BY <2>6, <3>1, <3>2
  <2>8. WiresTrue'
    BY <1>3, <2>6, <2>7 DEF SwitchToDM, WiresTrue
  <2>9. view' = [view EXCEPT ![u] = [d \in DM |-> IF d \in unread THEN "read" ELSE view[u][d]]]
    BY <1>3 DEF SwitchToDM
  <2>10. view' \in [User -> [DM -> Shown]]
    BY <2>9 DEF IInv, KeptTyped, Shown, Receipt
  <2>11. KeptTyped'
    <3>1. UNCHANGED <<stored, posted, lost, handed, dropped>>
      BY <1>3 DEF SwitchToDM
    <3>2. viewing' \in [User -> User \cup {NoUser}]
      BY <1>3 DEF SwitchToDM, IInv, KeptTyped
    <3>3. switches' \in 0..MaxSwitches
      BY <1>3, BoundAssumption DEF SwitchToDM, IInv, KeptTyped
    <3>4. seen' \subseteq DM
      BY <2>1, <2>2 DEF IInv, KeptTyped
    <3> HIDE DEF unread
    <3> QED
      BY <2>10, <3>1, <3>2, <3>3, <3>4 DEF IInv, KeptTyped
  <2>12. \A d \in DM : view'[From[d]][d] = "read" => view[From[d]][d] = "read" \/ d \in unread
    BY <2>9, EndsAssumption DEF IInv, KeptTyped
  <2>13. ReadIsTrue'
    BY <1>3, <2>2, <2>12 DEF SwitchToDM, IInv, ReadIsTrue
  <2> QED
    BY <2>8, <2>11, <2>13 DEF IInv
<1> QED
  BY <1>1, <1>2, <1>3

\* The steps of a browser when something arrives.
LEMMA ArrivalStep ==
    ASSUME IInv, NEW u \in User,
           ReceiveDM(u) \/ ReceiveHistory(u) \/ \E status \in Receipt : ReceiveReceipt(u, status)
    PROVE  IInv'
<1> USE DEF serverVars
<1> DEFINE event == Head(send[u])
<1>1. CASE ReceiveDM(u)
  <2> DEFINE d == event.dm
  <2>1. Arrives(u, "dm")
    BY <1>1 DEF ReceiveDM
  <2>2. /\ d \in DM
        /\ send' \in [User -> Seq(TrueEvent(seen) \cup TrueHistory(seen))]
    BY <2>1, Arriving DEF TrueEvent, Event
  <2>3. /\ view' = [view EXCEPT ![u][d] = "delivered"]
        /\ seen' = seen \cup {x \in {d} : viewing[u] = From[x]}
        /\ inbox' = IF LooksAt(u, d)
                    THEN [inbox EXCEPT ![u] = Append(@, [type |-> "read", dm |-> d])]
                    ELSE inbox
    BY <1>1 DEF ReceiveDM
  <2>4. seen \subseteq seen' /\ seen' \subseteq DM
    BY <2>2, <2>3 DEF IInv, KeptTyped
  <2>5. /\ inbox \in [User -> Seq(TrueRequest(seen'))]
        /\ mesh \in [Link -> Seq(TrueEvent(seen'))]
        /\ job \in [Worker -> Seq(TrueEffect(seen'))]
    BY <2>4, WiresStayTrue DEF IInv
  <2>6. send' \in [User -> Seq(TrueEvent(seen') \cup TrueHistory(seen'))]
    <3>1. TrueEvent(seen) \cup TrueHistory(seen) \subseteq TrueEvent(seen') \cup TrueHistory(seen')
      BY <2>4, TruthGrows
    <3> QED
      BY <2>2, <3>1, SeqMonotone
  <2>7. inbox' \in [User -> Seq(TrueRequest(seen'))]
    <3>1. LooksAt(u, d) => [type |-> "read", dm |-> d] \in TrueRequest(seen')
      BY <2>2, <2>3 DEF LooksAt, TrueRequest, Request
    <3> QED
      BY <2>3, <2>5, <3>1
  <2>8. WiresTrue'
    BY <2>1, <2>5, <2>6, <2>7 DEF Arrives, WiresTrue
  <2>9. KeptTyped'
    BY <2>1, <2>2, <2>3, <2>4 DEF Arrives, IInv, KeptTyped, Shown, Receipt
  <2>10. \A x \in DM : view'[From[x]][x] = "read" => view[From[x]][x] = "read"
    BY <2>2, <2>3, EndsAssumption DEF IInv, KeptTyped
  <2>11. ReadIsTrue'
    BY <2>1, <2>4, <2>10 DEF Arrives, IInv, ReadIsTrue
  <2> QED
    BY <2>8, <2>9, <2>11 DEF IInv
<1>2. CASE ReceiveHistory(u)
  <2> DEFINE talk == Conversation(u, event.peer)
  <2>1. Arrives(u, "dm_history")
    BY <1>2 DEF ReceiveHistory
  <2>2. /\ event \in TrueHistory(seen)
        /\ send' \in [User -> Seq(TrueEvent(seen) \cup TrueHistory(seen))]
    BY <2>1, Arriving
  <2>3. /\ event.status \in [DM -> Stored]
        /\ \A d \in DM : event.status[d] = "read" => d \in seen
    BY <2>2 DEF TrueHistory, History
  <2>4. talk \subseteq DM
    BY DEF Conversation
  <2>5. /\ view' = [view EXCEPT ![u] = [d \in DM |->
              IF d \in talk THEN Merged(view[u][d], event.status[d]) ELSE view[u][d]]]
        /\ seen' = seen \cup {d \in talk : /\ To[d] = u /\ viewing[u] = event.peer
                                          /\ view'[u][d] # "none"}
        /\ inbox' = inbox
    BY <1>2 DEF ReceiveHistory
  <2>6. seen \subseteq seen' /\ seen' \subseteq DM
    BY <2>4, <2>5 DEF IInv, KeptTyped
  <2>7. /\ inbox \in [User -> Seq(TrueRequest(seen'))]
        /\ mesh \in [Link -> Seq(TrueEvent(seen'))]
        /\ job \in [Worker -> Seq(TrueEffect(seen'))]
    BY <2>6, WiresStayTrue DEF IInv
  <2>8. send' \in [User -> Seq(TrueEvent(seen') \cup TrueHistory(seen'))]
    <3>1. TrueEvent(seen) \cup TrueHistory(seen) \subseteq TrueEvent(seen') \cup TrueHistory(seen')
      BY <2>6, TruthGrows
    <3> QED
      BY <2>2, <3>1, SeqMonotone
  <2>9. WiresTrue'
    BY <2>1, <2>5, <2>7, <2>8 DEF Arrives, WiresTrue
  <2>10. \A kept \in Shown : \A status \in Stored :
             /\ Merged(kept, status) \in Shown
             /\ Merged(kept, status) = "read" => status = "read"
    BY DEF Merged, Shown, Stored, Receipt
  <2>11. view' \in [User -> [DM -> Shown]]
    BY <2>3, <2>5, <2>10 DEF IInv, KeptTyped
  <2>12. KeptTyped'
    BY <2>1, <2>6, <2>11 DEF Arrives, IInv, KeptTyped
  <2>13. \A d \in DM : view'[From[d]][d] = "read" => view[From[d]][d] = "read" \/ d \in seen
    BY <2>3, <2>5, <2>10, EndsAssumption DEF IInv, KeptTyped
  <2>14. ReadIsTrue'
    BY <2>1, <2>6, <2>13 DEF Arrives, IInv, ReadIsTrue
  <2> QED
    BY <2>9, <2>12, <2>14 DEF IInv
<1>3. ASSUME NEW status \in Receipt, ReceiveReceipt(u, status)
      PROVE  IInv'
  <2> DEFINE d == event.dm
  <2>1. Arrives(u, status)
    BY <1>3 DEF ReceiveReceipt
  <2>2. /\ event \in TrueEvent(seen)
        /\ event.type = status
        /\ send' \in [User -> Seq(TrueEvent(seen) \cup TrueHistory(seen))]
    BY <2>1, Arriving DEF Receipt
  <2>3. d \in DM /\ (status = "read" => d \in seen)
    BY <2>2 DEF TrueEvent, Event
  <2>4. /\ view' = [view EXCEPT ![u][d] = IF view[u][d] = "none" THEN view[u][d] ELSE status]
        /\ seen' = seen /\ inbox' = inbox
    BY <1>3 DEF ReceiveReceipt
  <2>5. WiresTrue'
    BY <2>1, <2>2, <2>4 DEF Arrives, IInv, WiresTrue
  <2>6. view' \in [User -> [DM -> Shown]]
    BY <2>3, <2>4 DEF IInv, KeptTyped, Shown
  <2>7. KeptTyped'
    BY <2>1, <2>4, <2>6 DEF Arrives, IInv, KeptTyped
  <2>8. \A x \in DM : view'[From[x]][x] = "read" => view[From[x]][x] = "read" \/ x \in seen
    BY <2>3, <2>4, EndsAssumption DEF IInv, KeptTyped
  <2>9. ReadIsTrue'
    BY <2>1, <2>4, <2>8 DEF Arrives, IInv, ReadIsTrue
  <2> QED
    BY <2>5, <2>7, <2>9 DEF IInv
<1> QED
  BY <1>1, <1>2, <1>3

\* The ReadPumps and the mesh's readPump: beginning a handler.
LEMMA HandlerStep ==
    ASSUME IInv,
           \/ \E u \in User : Handle(u)
           \/ \E l \in Link : InjectFromMesh(l)
    PROVE  IInv'
<1> USE DEF browserVars
<1>1. ASSUME NEW u \in User, NEW type, Begins(u, type)
      PROVE  /\ Head(inbox[u]) \in TrueRequest(seen) /\ Head(inbox[u]).type = type
             /\ inbox' \in [User -> Seq(TrueRequest(seen))]
             /\ UNCHANGED <<view, viewing, posted, seen, switches, stored, send, mesh, handed,
                            dropped>>
  <2>1. inbox[u] \in Seq(TrueRequest(seen)) /\ inbox[u] # <<>>
    BY <1>1 DEF IInv, WiresTrue, Begins
  <2>2. Head(inbox[u]) \in TrueRequest(seen) /\ Tail(inbox[u]) \in Seq(TrueRequest(seen))
    BY <2>1
  <2> QED
    BY <1>1, <2>2 DEF Begins, IInv, WiresTrue
<1>2. ASSUME WiresTrue', lost' \subseteq DM,
             UNCHANGED <<view, viewing, posted, seen, switches, stored, handed, dropped>>
      PROVE  IInv'
  BY <1>2 DEF IInv, KeptTyped, ReadIsTrue
<1>3. ASSUME NEW u \in User, HandleDM(u)
      PROVE  IInv'
  <2> DEFINE d == Head(inbox[u]).dm
  <2>1. Begins(u, "dm")
    BY <1>3 DEF HandleDM
  <2>2. d \in DM
    BY <1>1, <2>1 DEF TrueRequest, Request
  <2>3. u \in Worker
    BY DEF Worker
  <2>4. job' \in [Worker -> Seq(TrueEffect(seen))] /\ lost' \subseteq DM
    <3>1. CASE job' = [job EXCEPT ![u] = Local(d)] /\ lost' = lost
      BY <2>2, <2>3, <3>1, JobsTrue DEF IInv, WiresTrue, KeptTyped
    <3>2. CASE job' = [job EXCEPT ![u] = <<Save(d), Propagate(About(d, "dm"))>>] /\ lost' = lost
      BY <2>2, <2>3, <3>2, JobsTrue DEF IInv, WiresTrue, KeptTyped
    <3>3. CASE job' = job /\ lost' = lost \cup {d}
      BY <2>2, <3>3 DEF IInv, WiresTrue, KeptTyped
    <3> QED
      BY <1>3, <3>1, <3>2, <3>3 DEF HandleDM
  <2>5. WiresTrue'
    BY <1>1, <2>1, <2>4 DEF IInv, WiresTrue
  <2> QED
    BY <1>1, <1>2, <2>1, <2>4, <2>5
<1>7. ASSUME NEW u \in User, Throttled(u)
      PROVE  IInv'
  <2>1. PICK type : Begins(u, type)
    BY <1>7 DEF Throttled
  <2>2. job' = job /\ lost' \subseteq DM
    BY <1>7 DEF Throttled, IInv, KeptTyped
  <2>3. WiresTrue'
    BY <1>1, <2>1, <2>2 DEF IInv, WiresTrue
  <2> QED
    BY <1>1, <1>2, <2>1, <2>2, <2>3
<1>4. ASSUME NEW u \in User, HandleDeliveryReceipt(u)
      PROVE  IInv'
  <2> DEFINE d == Head(inbox[u]).dm
  <2>1. Begins(u, "read") /\ lost' = lost
    BY <1>4 DEF HandleDeliveryReceipt
  <2>2. d \in DM /\ d \in seen
    BY <1>1, <2>1 DEF TrueRequest, Request
  <2>3. u \in Worker /\ Home[u] \in Server
    BY HomeAssumption DEF Worker
  <2>4. /\ Receipted(Home[u], d, "read") \in Seq(TrueEffect(seen))
        /\ Propagate(About(d, "read")) \in TrueEffect(seen)
    BY <2>2, <2>3, JobsTrue DEF Receipt
  <2>5. job' = [job EXCEPT ![u] =
                  Append(Receipted(Home[u], d, "read"), Propagate(About(d, "read")))]
    BY <1>4 DEF HandleDeliveryReceipt
  <2>6. job' \in [Worker -> Seq(TrueEffect(seen))]
    BY <2>3, <2>4, <2>5 DEF IInv, WiresTrue
  <2>7. WiresTrue'
    BY <1>1, <2>1, <2>6 DEF IInv, WiresTrue
  <2>8. lost' \subseteq DM
    BY <2>1 DEF IInv, KeptTyped
  <2> QED
    BY <1>1, <1>2, <2>1, <2>7, <2>8
<1>5. ASSUME NEW u \in User, HandleGetDMHistory(u)
      PROVE  IInv'
  <2> DEFINE peer == Head(inbox[u]).peer
             status == [d \in DM |-> IF d \in Conversation(u, peer) THEN stored[Home[u]][d] ELSE "none"]
             answer == [type |-> "dm_history", peer |-> peer, status |-> status]
  <2>1. Begins(u, "get_dm_history") /\ lost' = lost
    BY <1>5 DEF HandleGetDMHistory
  <2>2. peer \in User
    BY <1>1, <2>1 DEF TrueRequest, Request
  <2>3. u \in Worker /\ Home[u] \in Server
    BY HomeAssumption DEF Worker
  <2>4. status \in [DM -> Stored] /\ \A d \in DM : status[d] = "read" => d \in seen
    BY <2>3 DEF IInv, KeptTyped, ReadIsTrue, Stored
  <2>5. answer \in TrueHistory(seen)
    BY <2>2, <2>4 DEF TrueHistory, History
  <2>6. Send(u, answer) \in TrueEffect(seen)
    BY <2>5 DEF Send, TrueEffect
  <2>7. job' = [job EXCEPT ![u] = IF \A d \in DM : status[d] = "none" THEN <<>>
                                  ELSE <<Send(u, answer)>>]
    BY <1>5 DEF HandleGetDMHistory
  <2>8. job' \in [Worker -> Seq(TrueEffect(seen))]
    <3>1. <<>> \in Seq(TrueEffect(seen)) /\ <<Send(u, answer)>> \in Seq(TrueEffect(seen))
      BY <2>6
    <3> HIDE DEF answer, status
    <3> QED
      BY <2>3, <2>7, <3>1 DEF IInv, WiresTrue
  <2>9. WiresTrue'
    BY <1>1, <2>1, <2>8 DEF IInv, WiresTrue
  <2>10. lost' \subseteq DM
    BY <2>1 DEF IInv, KeptTyped
  <2> QED
    BY <1>1, <1>2, <2>1, <2>9, <2>10
<1>6. ASSUME NEW l \in Link, InjectFromMesh(l)
      PROVE  IInv'
  <2> DEFINE event == Head(mesh[l])
             d == event.dm
             effects == IF event.type # "dm" THEN Receipted(l[2], d, event.type)
                        ELSE IF Home[To[d]] # l[2] THEN <<Save(d)>>
                        ELSE Injected(d)
  <2>1. mesh[l] \in Seq(TrueEvent(seen)) /\ mesh[l] # <<>>
    BY <1>6 DEF InjectFromMesh, IInv, WiresTrue
  <2>2. event \in TrueEvent(seen) /\ Tail(mesh[l]) \in Seq(TrueEvent(seen))
    BY <2>1
  <2>3. d \in DM /\ event.type \in {"dm"} \cup Receipt /\ (event.type = "read" => d \in seen)
    BY <2>2 DEF TrueEvent, Event
  <2>4. l[2] \in Server /\ l \in Worker
    BY DEF Link, Worker
  <2>5. effects \in Seq(TrueEffect(seen))
    <3>1. CASE event.type # "dm"
      <4>1. event.type \in Receipt
        BY <2>3, <3>1
      <4> QED
        BY <2>3, <2>4, <3>1, <4>1, JobsTrue
    <3>2. CASE event.type = "dm"
      BY <2>3, <3>2, JobsTrue
    <3> QED
      BY <3>1, <3>2
  <2>6. /\ job' = [job EXCEPT ![l] = effects]
        /\ mesh' = [mesh EXCEPT ![l] = Tail(@)]
        /\ UNCHANGED <<view, viewing, posted, seen, switches, stored, inbox, send, lost,
                       handed, dropped>>
    BY <1>6 DEF InjectFromMesh
  <2>7. /\ job' \in [Worker -> Seq(TrueEffect(seen))]
        /\ mesh' \in [Link -> Seq(TrueEvent(seen))]
    <3> HIDE DEF effects
    <3> QED
      BY <2>2, <2>4, <2>5, <2>6 DEF IInv, WiresTrue
  <2>8. WiresTrue'
    BY <2>6, <2>7 DEF IInv, WiresTrue
  <2>9. lost' \subseteq DM
    BY <2>6 DEF IInv, KeptTyped
  <2> QED
    BY <1>2, <2>6, <2>8, <2>9
<1> QED
  BY <1>3, <1>4, <1>5, <1>6, <1>7 DEF Handle

\* The effects of handlers.
LEMMA EffectStep ==
    ASSUME IInv, NEW w \in Worker, Work(w)
    PROVE  IInv'
<1> USE DEF browserVars
<1> DEFINE effect == Head(job[w])
<1>1. job[w] \in Seq(TrueEffect(seen)) /\ job[w] # <<>>
  BY DEF IInv, WiresTrue, Work, SaveDM, UpdateDMStatus, SendJSON, MeshPropagate, Does
<1>2. effect \in TrueEffect(seen) /\ Tail(job[w]) \in Seq(TrueEffect(seen))
  BY <1>1
<1>3. /\ job' \in [Worker -> Seq(TrueEffect(seen))]
      /\ UNCHANGED <<view, viewing, posted, seen, switches, inbox>>
      /\ lost' \subseteq DM
  <2>1. /\ job' = [job EXCEPT ![w] = Tail(@)]
        /\ UNCHANGED <<view, viewing, posted, seen, switches, inbox>>
    BY DEF Work, SaveDM, UpdateDMStatus, SendJSON, MeshPropagate, Does
  <2>2. lost' \subseteq DM
    <3>1. CASE lost' = lost
      BY <3>1 DEF IInv, KeptTyped
    <3>2. CASE MeshPropagate(w)
      <4>1. effect.event.dm \in DM
        BY <1>2, <3>2 DEF MeshPropagate, Does, TrueEffect, TrueEvent, Event
      <4>2. lost' = lost \/ lost' = lost \cup {effect.event.dm}
        BY <3>2 DEF MeshPropagate
      <4> QED
        BY <4>1, <4>2 DEF IInv, KeptTyped
    <3> QED
      BY <3>1, <3>2 DEF Work, SaveDM, UpdateDMStatus, SendJSON
  <2> QED
    BY <1>2, <2>1, <2>2 DEF IInv, WiresTrue
<1>4. HomeOf(w) \in Server
  BY HomeAssumption DEF HomeOf, Worker, Link
<1>5. ASSUME UNCHANGED <<send, mesh, handed, dropped>>, stored' \in [Server -> [DM -> Stored]],
             \A s \in Server : \A d \in DM :
                 stored'[s][d] = "read" => stored[s][d] = "read" \/ d \in seen
      PROVE  IInv'
  <2>1. WiresTrue'
    BY <1>3, <1>5 DEF IInv, WiresTrue
  <2>2. KeptTyped'
    BY <1>3, <1>5 DEF IInv, KeptTyped
  <2>3. ReadIsTrue'
    BY <1>3, <1>5 DEF IInv, ReadIsTrue
  <2> QED
    BY <2>1, <2>2, <2>3 DEF IInv
<1>6. CASE SaveDM(w)
  <2>1. effect.dm \in DM
    BY <1>2, <1>6 DEF SaveDM, Does, TrueEffect
  <2>2. /\ stored' = [stored EXCEPT ![HomeOf(w)][effect.dm] = "saved"]
        /\ UNCHANGED <<send, mesh, handed, dropped>>
    BY <1>6 DEF SaveDM
  <2>3. /\ stored' \in [Server -> [DM -> Stored]]
        /\ \A s \in Server : \A d \in DM : stored'[s][d] = "read" => stored[s][d] = "read"
    BY <1>4, <2>1, <2>2 DEF IInv, KeptTyped, Stored
  <2> QED
    BY <1>5, <2>2, <2>3
<1>7. CASE UpdateDMStatus(w)
  <2>1. effect.dm \in DM /\ effect.status \in Receipt /\ (effect.status = "read" => effect.dm \in seen)
    BY <1>2, <1>7 DEF UpdateDMStatus, Does, TrueEffect
  <2>2. /\ stored' = [stored EXCEPT ![HomeOf(w)][effect.dm] =
                         IF stored[HomeOf(w)][effect.dm] = "none" THEN stored[HomeOf(w)][effect.dm]
                         ELSE effect.status]
        /\ UNCHANGED <<send, mesh, handed, dropped>>
    BY <1>7 DEF UpdateDMStatus
  <2>3. /\ stored' \in [Server -> [DM -> Stored]]
        /\ \A s \in Server : \A d \in DM :
               stored'[s][d] = "read" => stored[s][d] = "read" \/ d \in seen
    <3> HIDE DEF effect
    <3> QED
      BY <1>4, <2>1, <2>2 DEF IInv, KeptTyped, Stored
  <2> QED
    BY <1>5, <2>2, <2>3
<1>8. CASE SendJSON(w)
  <2>1. effect.to \in User /\ effect.event \in TrueEvent(seen) \cup TrueHistory(seen)
    BY <1>2, <1>8 DEF SendJSON, Does, TrueEffect
  <2>2. send' \in [User -> Seq(TrueEvent(seen) \cup TrueHistory(seen))]
    <3>1. \/ send' = [send EXCEPT ![effect.to] = Append(@, effect.event)]
          \/ send' = send
      BY <1>8 DEF SendJSON
    <3>2. send \in [User -> Seq(TrueEvent(seen) \cup TrueHistory(seen))]
      BY DEF IInv, WiresTrue
    <3>3. Append(send[effect.to], effect.event) \in Seq(TrueEvent(seen) \cup TrueHistory(seen))
      BY <2>1, <3>2
    <3> HIDE DEF effect
    <3> QED
      BY <2>1, <3>1, <3>2, <3>3
  <2>3. handed' \subseteq DM /\ dropped' \subseteq User
    <3>1. \/ /\ handed' = handed \cup {d \in Carried(effect.event) : To[d] = effect.to}
             /\ dropped' = dropped
          \/ /\ dropped' = dropped \cup {effect.to}
             /\ handed' = handed
      BY <1>8 DEF SendJSON
    <3>2. Carried(effect.event) \subseteq DM
      BY <2>1 DEF Carried, TrueEvent, TrueHistory, Event, History, Receipt
    <3> HIDE DEF effect
    <3> QED
      BY <2>1, <3>1, <3>2 DEF IInv, KeptTyped
  <2>4. UNCHANGED <<stored, mesh>>
    BY <1>8 DEF SendJSON
  <2>5. WiresTrue'
    BY <1>3, <2>2, <2>4 DEF IInv, WiresTrue
  <2>6. KeptTyped'
    BY <1>3, <2>3, <2>4 DEF IInv, KeptTyped
  <2>7. ReadIsTrue'
    BY <1>3, <2>4 DEF IInv, ReadIsTrue
  <2> QED
    BY <2>5, <2>6, <2>7 DEF IInv
<1>9. CASE MeshPropagate(w)
  <2>1. effect.event \in TrueEvent(seen)
    BY <1>2, <1>9 DEF MeshPropagate, Does, TrueEffect
  <2>2. /\ \E got : mesh' = [l \in Link |-> IF l \in got THEN Append(mesh[l], effect.event)
                                            ELSE mesh[l]]
        /\ UNCHANGED <<stored, send, handed, dropped>>
    BY <1>9 DEF MeshPropagate
  <2>3. mesh' \in [Link -> Seq(TrueEvent(seen))]
    <3> HIDE DEF effect
    <3> QED
      BY <2>1, <2>2 DEF IInv, WiresTrue
  <2>4. WiresTrue'
    BY <1>3, <2>2, <2>3 DEF IInv, WiresTrue
  <2>5. KeptTyped' /\ ReadIsTrue'
    BY <1>3, <2>2 DEF IInv, KeptTyped, ReadIsTrue
  <2> QED
    BY <2>4, <2>5 DEF IInv
<1> QED
  BY <1>6, <1>7, <1>8, <1>9 DEF Work

-----------------------------------------------------------------------------
\* What is kept has its type, what is on its way is true, and so are two blue ticks.
THEOREM DeliveryInvariant == Spec => []IInv
<1>1. ASSUME Init PROVE IInv
  <2>1. WiresTrue
    BY <1>1 DEF Init, WiresTrue
  <2>2. KeptTyped
    BY <1>1, BoundAssumption DEF Init, KeptTyped, Stored, Shown
  <2>3. ReadIsTrue
    BY <1>1, EndsAssumption DEF Init, ReadIsTrue
  <2> QED
    BY <2>1, <2>2, <2>3 DEF IInv
<1>2. ASSUME IInv, [Next]_vars PROVE IInv'
  <2>1. CASE Next
    <3>1. ASSUME NEW d \in DM, SendDM(d) PROVE IInv'
      <4>1. From[d] \in User
        BY EndsAssumption
      <4> QED
        BY <1>2, <3>1, <4>1, UserStep
    <3>2. ASSUME NEW u \in User, Browser(u) PROVE IInv'
      BY <1>2, <3>2, UserStep, ArrivalStep DEF Browser
    <3>3. CASE \/ \E u \in User : Handle(u)
               \/ \E l \in Link : InjectFromMesh(l)
      BY <1>2, <3>3, HandlerStep
    <3>4. ASSUME NEW w \in Worker, Work(w) PROVE IInv'
      BY <1>2, <3>4, EffectStep
    <3> QED
      BY <2>1, <3>1, <3>2, <3>3, <3>4 DEF Next
  <2>2. CASE UNCHANGED vars
    BY <1>2, <2>2 DEF vars, IInv, WiresTrue, KeptTyped, ReadIsTrue
  <2> QED
    BY <1>2, <2>1, <2>2
<1> QED
  BY <1>1, <1>2, PTL DEF Spec

\* Type correctness: what is true has its type.
THEOREM TypeCorrect == Spec => []TypeOK
<1>1. ASSUME IInv PROVE TypeOK
  <2>1. /\ TrueRequest(seen) \subseteq Request
        /\ TrueEvent(seen) \subseteq Event
        /\ TrueHistory(seen) \subseteq History
    BY DEF TrueRequest, TrueEvent, TrueHistory
  <2>2. TrueEffect(seen) \subseteq Effect
    BY <2>1 DEF TrueEffect, Effect
  <2>3. inbox \in [User -> Seq(Request)]
    BY <1>1, <2>1, SeqMonotone DEF IInv, WiresTrue
  <2>4. send \in [User -> Seq(Event \cup History)]
    <3>1. TrueEvent(seen) \cup TrueHistory(seen) \subseteq Event \cup History
      BY <2>1
    <3> QED
      BY <1>1, <3>1, SeqMonotone DEF IInv, WiresTrue
  <2>5. mesh \in [Link -> Seq(Event)]
    BY <1>1, <2>1, SeqMonotone DEF IInv, WiresTrue
  <2>6. job \in [Worker -> Seq(Effect)]
    BY <1>1, <2>2, SeqMonotone DEF IInv, WiresTrue
  <2> QED
    BY <1>1, <2>3, <2>4, <2>5, <2>6 DEF IInv, KeptTyped, TypeOK
<1> QED
  BY <1>1, DeliveryInvariant, PTL

\* A DM counts as read, in a store or with its sender, only if its recipient had
\* it before his eyes: receipts, histories and mesh copies in any order
\* (hub.go:503, 530, 972) never make it up.
THEOREM ReadIsTrueHolds == Spec => []ReadIsTrue
BY DeliveryInvariant, PTL DEF IInv

-----------------------------------------------------------------------------
(***************************************************************************)
(* Two ticks are true.  A DM is over if it was handed to its recipient, or *)
(* his channel was full; its handler has begun if no request for it waits  *)
(* with its sender.  Until a DM is over its sender is shown one tick, for  *)
(* nothing that reaches him says more: not a receipt, which a handler      *)
(* sends after the DM, and not a history, which was asked for before the   *)
(* DM was sent.                                                            *)
(***************************************************************************)
Over == {d \in DM : d \in handed \/ To[d] \in dropped}

AskDM(d) == [type |-> "dm", dm |-> d]

Begun == {d \in posted : \A i \in DOMAIN inbox[From[d]] : inbox[From[d]][i] # AskDM(d)}

\* In the following, P are the DMs posted, B those begun, H those handed over
\* and O those that are over.

\* A read request is about a DM that is over; a DM is sent once, by its sender;
\* a history is asked for before the DMs are sent that it must not speak of.
GoodInbox(u, q, P, O) ==
    \A i \in DOMAIN q :
        /\ q[i].type = "read" => q[i].dm \in O
        /\ q[i].type = "dm" =>
              /\ From[q[i].dm] = u /\ q[i].dm \in P
              /\ \A j \in DOMAIN q : q[j] = q[i] => j = i
        /\ q[i].type = "get_dm_history" =>
              \A d \in P \ O : From[d] = u /\ To[d] = q[i].peer =>
                  \E j \in DOMAIN q : i < j /\ q[j] = AskDM(d)

\* Events that may be on their way to the browser of u
EventsFor(u, H, O) ==
    {e \in Event \cup History :
        /\ e.type = "dm" => To[e.dm] = u /\ e.dm \in H
        /\ e.type \in Receipt => e.dm \in O
        /\ e.type = "dm_history" => \A d \in DM : e.status[d] # "none" =>
               (To[d] = u /\ d \in H) \/ (From[d] = u /\ d \in O)}

\* Events that may be on their way to a server
Copies(B, O) ==
    {e \in Event : (e.type = "dm" => e.dm \in B) /\ (e.type \in Receipt => e.dm \in O)}

\* d is over before effect i of the job q.
Told(q, i, d, O) == d \in O \/ \E j \in 1..(i - 1) : q[j] = Send(To[d], About(d, "dm"))

GoodJob(q, B, O) ==
    \A i \in DOMAIN q :
        /\ q[i].op = "save" => q[i].dm \in B
        /\ q[i].op = "propagate" =>
              /\ q[i].event.type = "dm" => q[i].event.dm \in B
              /\ q[i].event.type \in Receipt => Told(q, i, q[i].event.dm, O)
        /\ q[i].op = "send" =>
              /\ q[i].event.type = "dm" => q[i].to = To[q[i].event.dm]
              /\ q[i].event.type \in Receipt => Told(q, i, q[i].event.dm, O)
              /\ q[i].event.type = "dm_history" =>
                    \A d \in DM : q[i].event.status[d] # "none" =>
                        To[d] = q[i].to \/ (From[d] = q[i].to /\ d \in O)

OneTick ==
    \A d \in DM \ Over : view[From[d]][d] = IF d \in posted THEN "sent" ELSE "none"

\* Who has a DM was handed it; a server that has it has begun with it.
HasIt ==
    /\ \A d \in DM : view[To[d]][d] # "none" => d \in handed
    /\ \A s \in Server, d \in DM : stored[s][d] # "none" => d \in Begun

InboxGood == \A u \in User : GoodInbox(u, inbox[u], posted, Over)
SendGood  == \A u \in User : send[u] \in Seq(EventsFor(u, handed, Over))
MeshGood  == \A l \in Link : mesh[l] \in Seq(Copies(Begun, Over))
JobGood   == \A w \in Worker : GoodJob(job[w], Begun, Over)

HandoverInv == OneTick /\ HasIt /\ InboxGood /\ SendGood /\ MeshGood /\ JobGood

-----------------------------------------------------------------------------
\* What was good stays good when more has begun and more is over.
LEMMA GoodGrows ==
    ASSUME NEW B, NEW H, NEW O, NEW B2, NEW H2, NEW O2,
           B \subseteq B2, H \subseteq H2, O \subseteq O2
    PROVE  /\ \A u \in User : EventsFor(u, H, O) \subseteq EventsFor(u, H2, O2)
           /\ Copies(B, O) \subseteq Copies(B2, O2)
           /\ \A q \in Seq(Effect) : GoodJob(q, B, O) => GoodJob(q, B2, O2)
           /\ \A u \in User : \A P, q : GoodInbox(u, q, P, O) => GoodInbox(u, q, P, O2)
<1>1. \A u \in User : EventsFor(u, H, O) \subseteq EventsFor(u, H2, O2)
  BY DEF EventsFor
<1>2. Copies(B, O) \subseteq Copies(B2, O2)
  BY DEF Copies
<1>3. ASSUME NEW q \in Seq(Effect), GoodJob(q, B, O) PROVE GoodJob(q, B2, O2)
  <2>1. \A i \in DOMAIN q : \A d : Told(q, i, d, O) => Told(q, i, d, O2)
    BY DEF Told
  <2> QED
    BY <1>3, <2>1 DEF GoodJob
<1>4. ASSUME NEW u \in User, NEW P, NEW q, GoodInbox(u, q, P, O) PROVE GoodInbox(u, q, P, O2)
  BY <1>4 DEF GoodInbox
<1> QED
  BY <1>1, <1>2, <1>3, <1>4

\* So is what is on its way, as long as it stays where it is.
LEMMA WiresStayGood ==
    ASSUME TypeOK, SendGood, MeshGood, JobGood,
           NEW B2, NEW H2, NEW O2, Begun \subseteq B2, handed \subseteq H2, Over \subseteq O2
    PROVE  /\ \A u \in User : send[u] \in Seq(EventsFor(u, H2, O2))
           /\ \A l \in Link : mesh[l] \in Seq(Copies(B2, O2))
           /\ \A w \in Worker : GoodJob(job[w], B2, O2)
<1>1. \A u \in User : send[u] \in Seq(EventsFor(u, H2, O2))
  <2> SUFFICES ASSUME NEW u \in User PROVE send[u] \in Seq(EventsFor(u, H2, O2))
    OBVIOUS
  <2>1. EventsFor(u, handed, Over) \subseteq EventsFor(u, H2, O2)
    BY DEF EventsFor
  <2> QED
    BY <2>1, SeqMonotone DEF SendGood
<1>2. \A l \in Link : mesh[l] \in Seq(Copies(B2, O2))
  <2>1. Copies(Begun, Over) \subseteq Copies(B2, O2)
    BY DEF Copies
  <2> QED
    BY <2>1, SeqMonotone DEF MeshGood
<1>3. \A w \in Worker : GoodJob(job[w], B2, O2)
  <2> SUFFICES ASSUME NEW w \in Worker PROVE GoodJob(job[w], B2, O2)
    OBVIOUS
  <2>1. job[w] \in Seq(Effect)
    BY DEF TypeOK
  <2>2. GoodJob(job[w], Begun, Over)
    BY DEF JobGood
  <2> QED
    BY <2>1, <2>2, GoodGrows
<1> QED
  BY <1>1, <1>2, <1>3

\* The rest of an inbox is good.
LEMMA InboxTail ==
    ASSUME NEW u \in User, NEW q \in Seq(Request), q # <<>>, NEW P, NEW O,
           GoodInbox(u, q, P, O)
    PROVE  GoodInbox(u, Tail(q), P, O)
<1> DEFINE t == Tail(q)
<1>1. /\ t \in Seq(Request) /\ Len(t) = Len(q) - 1
      /\ \A i \in DOMAIN t : i + 1 \in DOMAIN q /\ t[i] = q[i + 1]
      /\ \A i \in DOMAIN q : i # 1 => i - 1 \in DOMAIN t /\ t[i - 1] = q[i]
      /\ DOMAIN t \subseteq Nat /\ DOMAIN q \subseteq Nat
  OBVIOUS
<1> HIDE DEF t
<1> SUFFICES ASSUME NEW i \in DOMAIN t
             PROVE  /\ t[i].type = "read" => t[i].dm \in O
                    /\ t[i].type = "dm" =>
                          /\ From[t[i].dm] = u /\ t[i].dm \in P
                          /\ \A j \in DOMAIN t : t[j] = t[i] => j = i
                    /\ t[i].type = "get_dm_history" =>
                          \A d \in P \ O : From[d] = u /\ To[d] = t[i].peer =>
                              \E j \in DOMAIN t : i < j /\ t[j] = AskDM(d)
  BY DEF t, GoodInbox
<1>2. i + 1 \in DOMAIN q /\ t[i] = q[i + 1] /\ i \in Nat
  BY <1>1
<1>3. t[i].type = "read" => t[i].dm \in O
  BY <1>2 DEF GoodInbox
<1>4. ASSUME t[i].type = "dm"
      PROVE  /\ From[t[i].dm] = u /\ t[i].dm \in P
             /\ \A j \in DOMAIN t : t[j] = t[i] => j = i
  <2>1. /\ From[t[i].dm] = u /\ t[i].dm \in P
        /\ \A j \in DOMAIN q : q[j] = q[i + 1] => j = i + 1
    BY <1>2, <1>4 DEF GoodInbox
  <2>2. ASSUME NEW j \in DOMAIN t, t[j] = t[i] PROVE j = i
    <3>1. j + 1 \in DOMAIN q /\ q[j + 1] = q[i + 1] /\ j \in Nat
      BY <1>1, <1>2, <2>2
    <3>2. j + 1 = i + 1
      BY <2>1, <3>1
    <3> QED
      BY <1>2, <3>1, <3>2
  <2> QED
    BY <2>1, <2>2
<1>5. ASSUME t[i].type = "get_dm_history", NEW d \in P \ O, From[d] = u, To[d] = t[i].peer
      PROVE  \E j \in DOMAIN t : i < j /\ t[j] = AskDM(d)
  <2>1. PICK j \in DOMAIN q : i + 1 < j /\ q[j] = AskDM(d)
    BY <1>2, <1>5 DEF GoodInbox
  <2>2. j # 1 /\ j \in Nat /\ i < j - 1
    BY <1>1, <1>2, <2>1
  <2>3. j - 1 \in DOMAIN t /\ t[j - 1] = AskDM(d)
    BY <1>1, <2>1, <2>2
  <2> QED
    BY <2>2, <2>3
<1> QED
  BY <1>3, <1>4, <1>5

\* So is an inbox with more read requests, or a request for a history in which
\* no DM of u that is not over can appear.
LEMMA InboxConcat ==
    ASSUME NEW u \in User, NEW q \in Seq(Request), NEW s \in Seq(Request), NEW P, NEW O,
           GoodInbox(u, q, P, O),
           \A i \in DOMAIN s :
               \/ s[i].type = "read" /\ s[i].dm \in O
               \/ /\ s[i].type = "get_dm_history"
                  /\ \A d \in P \ O : From[d] = u => To[d] # s[i].peer
    PROVE  GoodInbox(u, q \o s, P, O)
<1> DEFINE t == q \o s
<1>1. /\ t \in Seq(Request) /\ Len(t) = Len(q) + Len(s)
      /\ Len(q) \in Nat /\ Len(s) \in Nat /\ DOMAIN t \subseteq Nat
      /\ \A i \in DOMAIN q : i \in DOMAIN t /\ t[i] = q[i]
      /\ \A i \in DOMAIN t : i \notin DOMAIN q => i - Len(q) \in DOMAIN s /\ t[i] = s[i - Len(q)]
  OBVIOUS
<1> HIDE DEF t
<1>2. ASSUME NEW i \in DOMAIN t, i \notin DOMAIN q
      PROVE  \/ t[i].type = "read" /\ t[i].dm \in O
             \/ /\ t[i].type = "get_dm_history"
                /\ \A d \in P \ O : From[d] = u => To[d] # t[i].peer
  BY <1>1, <1>2
<1>3. ASSUME NEW i \in DOMAIN q
      PROVE  /\ t[i].type = "read" => t[i].dm \in O
             /\ t[i].type = "dm" =>
                   /\ From[t[i].dm] = u /\ t[i].dm \in P
                   /\ \A j \in DOMAIN t : t[j] = t[i] => j = i
             /\ t[i].type = "get_dm_history" =>
                   \A d \in P \ O : From[d] = u /\ To[d] = t[i].peer =>
                       \E j \in DOMAIN t : i < j /\ t[j] = AskDM(d)
  <2>1. t[i] = q[i]
    BY <1>1
  <2>2. ASSUME t[i].type = "dm", NEW j \in DOMAIN t, t[j] = t[i] PROVE j = i
    <3>1. j \in DOMAIN q
      BY <1>2, <2>2
    <3>2. q[j] = q[i] /\ q[i].type = "dm"
      BY <1>1, <2>1, <2>2, <3>1
    <3> QED
      BY <3>1, <3>2 DEF GoodInbox
  <2>3. ASSUME t[i].type = "get_dm_history", NEW d \in P \ O, From[d] = u, To[d] = t[i].peer
        PROVE  \E j \in DOMAIN t : i < j /\ t[j] = AskDM(d)
    <3>1. PICK j \in DOMAIN q : i < j /\ q[j] = AskDM(d)
      BY <2>1, <2>3 DEF GoodInbox
    <3> QED
      BY <1>1, <3>1
  <2>4. /\ t[i].type = "read" => t[i].dm \in O
        /\ t[i].type = "dm" => From[t[i].dm] = u /\ t[i].dm \in P
    BY <2>1 DEF GoodInbox
  <2> QED
    BY <2>2, <2>3, <2>4
<1>4. GoodInbox(u, t, P, O)
  <2> SUFFICES ASSUME NEW i \in DOMAIN t
               PROVE  /\ t[i].type = "read" => t[i].dm \in O
                      /\ t[i].type = "dm" =>
                            /\ From[t[i].dm] = u /\ t[i].dm \in P
                            /\ \A j \in DOMAIN t : t[j] = t[i] => j = i
                      /\ t[i].type = "get_dm_history" =>
                            \A d \in P \ O : From[d] = u /\ To[d] = t[i].peer =>
                                \E j \in DOMAIN t : i < j /\ t[j] = AskDM(d)
    BY DEF GoodInbox
  <2>1. CASE i \in DOMAIN q
    BY <1>3, <2>1
  <2>2. CASE i \notin DOMAIN q
    <3>1. t[i].type # "dm"
      BY <1>2, <2>2
    <3>2. t[i].type = "read" => t[i].dm \in O
      BY <1>2, <2>2
    <3>3. t[i].type = "get_dm_history" => \A d \in P \ O : From[d] = u => To[d] # t[i].peer
      BY <1>2, <2>2
    <3> QED
      BY <3>1, <3>2, <3>3
  <2> QED
    BY <2>1, <2>2
<1> QED
  BY <1>4 DEF t

\* So is one with a DM that was not posted before.
LEMMA InboxSend ==
    ASSUME NEW u \in User, NEW q \in Seq(Request), NEW P, NEW O, GoodInbox(u, q, P, O),
           NEW d \in DM, From[d] = u, d \notin P
    PROVE  GoodInbox(u, Append(q, AskDM(d)), P \cup {d}, O)
<1> DEFINE t == Append(q, AskDM(d))
           n == Len(q) + 1
<1>1. /\ Len(q) \in Nat /\ n \in DOMAIN t /\ t[n] = AskDM(d) /\ DOMAIN t \subseteq Nat
      /\ \A i \in DOMAIN q : i \in DOMAIN t /\ t[i] = q[i] /\ i < n
      /\ \A i \in DOMAIN t : i = n \/ i \in DOMAIN q
  OBVIOUS
<1>2. AskDM(d).type = "dm" /\ AskDM(d).dm = d
  BY DEF AskDM
<1> HIDE DEF t, n
<1>3. \A i \in DOMAIN q : q[i] # AskDM(d)
  BY <1>2 DEF GoodInbox
<1>4. GoodInbox(u, t, P \cup {d}, O)
  <2> SUFFICES ASSUME NEW i \in DOMAIN t
               PROVE  /\ t[i].type = "read" => t[i].dm \in O
                      /\ t[i].type = "dm" =>
                            /\ From[t[i].dm] = u /\ t[i].dm \in P \cup {d}
                            /\ \A j \in DOMAIN t : t[j] = t[i] => j = i
                      /\ t[i].type = "get_dm_history" =>
                            \A x \in (P \cup {d}) \ O : From[x] = u /\ To[x] = t[i].peer =>
                                \E j \in DOMAIN t : i < j /\ t[j] = AskDM(x)
    BY DEF GoodInbox
  <2>1. CASE i = n
    <3>1. t[i] = AskDM(d) /\ \A j \in DOMAIN t : t[j] = t[i] => j = i
      BY <1>1, <1>3, <2>1
    <3> QED
      BY <1>2, <3>1
  <2>2. CASE i \in DOMAIN q
    <3>1. t[i] = q[i]
      BY <1>1, <2>2
    <3>2. t[i].type = "read" => t[i].dm \in O
      BY <2>2, <3>1 DEF GoodInbox
    <3>3. ASSUME t[i].type = "dm"
          PROVE  /\ From[t[i].dm] = u /\ t[i].dm \in P
                 /\ \A j \in DOMAIN t : t[j] = t[i] => j = i
      <4>1. /\ From[t[i].dm] = u /\ t[i].dm \in P
            /\ \A j \in DOMAIN q : q[j] = q[i] => j = i
        BY <2>2, <3>1, <3>3 DEF GoodInbox
      <4>2. ASSUME NEW j \in DOMAIN t, t[j] = t[i] PROVE j = i
        <5>1. j # n
          BY <1>1, <1>3, <2>2, <3>1, <4>2
        <5> QED
          BY <1>1, <3>1, <4>1, <4>2, <5>1
      <4> QED
        BY <4>1, <4>2
    <3>4. ASSUME t[i].type = "get_dm_history", NEW x \in (P \cup {d}) \ O,
                 From[x] = u, To[x] = t[i].peer
          PROVE  \E j \in DOMAIN t : i < j /\ t[j] = AskDM(x)
      <4>1. CASE x = d
        BY <1>1, <2>2, <4>1
      <4>2. CASE x # d
        <5>1. PICK j \in DOMAIN q : i < j /\ q[j] = AskDM(x)
          BY <2>2, <3>1, <3>4, <4>2 DEF GoodInbox
        <5> QED
          BY <1>1, <5>1
      <4> QED
        BY <4>1, <4>2
    <3> QED
      BY <3>2, <3>3, <3>4
  <2> QED
    BY <1>1, <2>1, <2>2
<1> QED
  BY <1>4 DEF t

\* The rest of a job is good once its first effect is done.
LEMMA JobTail ==
    ASSUME NEW q \in Seq(Effect), q # <<>>, NEW B, NEW O, NEW B2, NEW O2,
           B \subseteq B2, O \subseteq O2, GoodJob(q, B, O),
           \A d \in DM : Head(q) = Send(To[d], About(d, "dm")) => d \in O2
    PROVE  GoodJob(Tail(q), B2, O2)
<1> DEFINE t == Tail(q)
<1>1. /\ t \in Seq(Effect) /\ Head(q) = q[1] /\ DOMAIN q \subseteq Nat
      /\ \A i \in DOMAIN t : i \in Nat /\ i + 1 \in DOMAIN q /\ t[i] = q[i + 1]
      /\ \A i \in DOMAIN q : i # 1 => i - 1 \in DOMAIN t /\ t[i - 1] = q[i]
      /\ \A i \in DOMAIN t : \A j \in 1..i : j # 1 => j - 1 \in 1..(i - 1) /\ t[j - 1] = q[j]
  OBVIOUS
<1> HIDE DEF t
<1>2. ASSUME NEW i \in DOMAIN t, NEW d \in DM, Told(q, i + 1, d, O) PROVE Told(t, i, d, O2)
  <2>1. CASE d \in O
    BY <2>1 DEF Told
  <2>2. CASE d \notin O
    <3>1. PICK j \in 1..i : q[j] = Send(To[d], About(d, "dm"))
      <4>1. (i + 1) - 1 = i
        BY <1>1
      <4> QED
        BY <1>2, <2>2, <4>1 DEF Told
    <3>2. CASE j = 1
      BY <1>1, <3>1, <3>2 DEF Told
    <3>3. CASE j # 1
      <4>1. j - 1 \in 1..(i - 1) /\ t[j - 1] = Send(To[d], About(d, "dm"))
        BY <1>1, <3>1, <3>3
      <4> QED
        BY <4>1 DEF Told
    <3> QED
      BY <3>2, <3>3
  <2> QED
    BY <2>1, <2>2
<1>3. ASSUME NEW i \in DOMAIN t
      PROVE  /\ t[i].op = "save" => t[i].dm \in B2
             /\ t[i].op = "propagate" =>
                   /\ t[i].event.type = "dm" => t[i].event.dm \in B2
                   /\ t[i].event.type \in Receipt => Told(t, i, t[i].event.dm, O2)
             /\ t[i].op = "send" =>
                   /\ t[i].event.type = "dm" => t[i].to = To[t[i].event.dm]
                   /\ t[i].event.type \in Receipt => Told(t, i, t[i].event.dm, O2)
                   /\ t[i].event.type = "dm_history" =>
                         \A d \in DM : t[i].event.status[d] # "none" =>
                             To[d] = t[i].to \/ (From[d] = t[i].to /\ d \in O2)
  <2>1. t[i] = q[i + 1] /\ i + 1 \in DOMAIN q /\ t[i] \in Effect
    BY <1>1
  <2>2. ASSUME t[i].op \in {"propagate", "send"}, t[i].event.type \in Receipt
        PROVE  t[i].event.dm \in DM
    BY <2>1, <2>2 DEF Effect, Event, History, Receipt
  <2>3. /\ t[i].op = "save" => t[i].dm \in B
        /\ t[i].op = "propagate" =>
              /\ t[i].event.type = "dm" => t[i].event.dm \in B
              /\ t[i].event.type \in Receipt => Told(q, i + 1, t[i].event.dm, O)
        /\ t[i].op = "send" =>
              /\ t[i].event.type = "dm" => t[i].to = To[t[i].event.dm]
              /\ t[i].event.type \in Receipt => Told(q, i + 1, t[i].event.dm, O)
              /\ t[i].event.type = "dm_history" =>
                    \A d \in DM : t[i].event.status[d] # "none" =>
                        To[d] = t[i].to \/ (From[d] = t[i].to /\ d \in O)
    BY <2>1 DEF GoodJob
  <2> QED
    BY <1>2, <2>2, <2>3
<1>4. GoodJob(t, B2, O2)
  BY <1>3 DEF GoodJob
<1> QED
  BY <1>4 DEF t

\* Nothing is before the first effect.
LEMMA JobHead ==
    ASSUME NEW q \in Seq(Effect), q # <<>>, NEW B, NEW O, GoodJob(q, B, O)
    PROVE  /\ Head(q) \in Effect
           /\ Head(q).op = "save" => Head(q).dm \in B
           /\ Head(q).op = "propagate" => Head(q).event \in Copies(B, O)
           /\ Head(q).op = "send" =>
                 /\ Head(q).to \in User /\ Head(q).event \in Event \cup History
                 /\ Head(q).event.type = "dm" => Head(q).to = To[Head(q).event.dm]
                 /\ Head(q).event.type \in Receipt => Head(q).event.dm \in O
                 /\ Head(q).event.type = "dm_history" =>
                       \A d \in DM : Head(q).event.status[d] # "none" =>
                           To[d] = Head(q).to \/ (From[d] = Head(q).to /\ d \in O)
<1>1. 1 \in DOMAIN q /\ Head(q) = q[1] /\ q[1] \in Effect
  OBVIOUS
<1>2. \A d : Told(q, 1, d, O) => d \in O
  BY DEF Told
<1>3. /\ q[1].op = "save" => q[1].dm \in B
      /\ q[1].op = "propagate" =>
            /\ q[1].event.type = "dm" => q[1].event.dm \in B
            /\ q[1].event.type \in Receipt => q[1].event.dm \in O
      /\ q[1].op = "send" =>
            /\ q[1].event.type = "dm" => q[1].to = To[q[1].event.dm]
            /\ q[1].event.type \in Receipt => q[1].event.dm \in O
            /\ q[1].event.type = "dm_history" =>
                  \A d \in DM : q[1].event.status[d] # "none" =>
                      To[d] = q[1].to \/ (From[d] = q[1].to /\ d \in O)
  BY <1>1, <1>2 DEF GoodJob
<1>4. q[1].op = "propagate" => q[1].event \in Event
  BY <1>1 DEF Effect
<1>5. q[1].op = "send" => q[1].to \in User /\ q[1].event \in Event \cup History
  BY <1>1 DEF Effect
<1> QED
  BY <1>1, <1>3, <1>4, <1>5 DEF Copies

\* The last of two effects queued one after the other.
LEMMA AppendSecond ==
    ASSUME NEW a, NEW b
    PROVE  Append(<<a>>, b) = <<a, b>>
<1> DEFINE S == {a, b}
<1>1. <<a>> \in Seq(S) /\ <<a, b>> \in Seq(S) /\ Len(<<a>>) = 1 /\ Len(<<a, b>>) = 2
  OBVIOUS
<1>2. Append(<<a>>, b) \in Seq(S)
  BY <1>1
<1>3. Len(Append(<<a>>, b)) = 2
  BY <1>1
<1>4. \A i \in 1..2 : Append(<<a>>, b)[i] = <<a, b>>[i]
  BY <1>1
<1> QED
  BY <1>1, <1>2, <1>3, <1>4, SeqEqual

\* The last of three effects queued one after the other.
LEMMA AppendThird ==
    ASSUME NEW a, NEW b, NEW c
    PROVE  Append(<<a, b>>, c) = <<a, b, c>>
<1> DEFINE S == {a, b, c}
<1>1. /\ <<a, b>> \in Seq(S) /\ <<a, b, c>> \in Seq(S)
      /\ Len(<<a, b>>) = 2 /\ Len(<<a, b, c>>) = 3
  OBVIOUS
<1>2. Append(<<a, b>>, c) \in Seq(S)
  BY <1>1
<1>3. Len(Append(<<a, b>>, c)) = 3
  BY <1>1
<1>4. \A i \in 1..3 : Append(<<a, b>>, c)[i] = <<a, b, c>>[i]
  BY <1>1
<1> QED
  BY <1>1, <1>2, <1>3, <1>4, SeqEqual

\* The jobs of the handlers are good.
LEMMA JobsGood ==
    ASSUME NEW d \in DM, NEW B, NEW O
    PROVE  /\ d \in B => /\ GoodJob(Local(d), B, O)
                         /\ GoodJob(Injected(d), B, O)
                         /\ GoodJob(<<Save(d), Propagate(About(d, "dm"))>>, B, O)
                         /\ GoodJob(<<Save(d)>>, B, O)
           /\ \A s \in Server, status \in Receipt : d \in O =>
                 /\ GoodJob(Receipted(s, d, status), B, O)
                 /\ GoodJob(Append(Receipted(s, d, status), Propagate(About(d, status))), B, O)
<1> DEFINE put == Send(To[d], About(d, "dm"))
           ack == Send(From[d], About(d, "delivered"))
           pass == Propagate(About(d, "dm"))
           back == Propagate(About(d, "delivered"))
<1>1. /\ Save(d).op = "save" /\ Save(d).dm = d
      /\ put.op = "send" /\ put.to = To[d] /\ put.event.type = "dm" /\ put.event.dm = d
      /\ ack.op = "send" /\ ack.event.type = "delivered" /\ ack.event.dm = d
      /\ pass.op = "propagate" /\ pass.event.type = "dm" /\ pass.event.dm = d
      /\ back.op = "propagate" /\ back.event.type = "delivered" /\ back.event.dm = d
  BY DEF Save, Send, Propagate, About
<1>2. \A status : /\ Status(d, status).op = "status"
                  /\ Send(From[d], About(d, status)).op = "send"
                  /\ Send(From[d], About(d, status)).event.type = status
                  /\ Send(From[d], About(d, status)).event.dm = d
                  /\ Propagate(About(d, status)).op = "propagate"
                  /\ Propagate(About(d, status)).event.type = status
                  /\ Propagate(About(d, status)).event.dm = d
  BY DEF Status, Send, Propagate, About
<1>3. "dm" \notin Receipt /\ "dm_history" \notin Receipt /\ "delivered" \in Receipt
  BY DEF Receipt
<1>4. ASSUME d \in B PROVE GoodJob(Local(d), B, O)
  <2> DEFINE q == Local(d)
  <2>1. /\ DOMAIN q = 1..5 /\ q[1] = Save(d) /\ q[2] = put /\ q[3] = Status(d, "delivered")
        /\ q[4] = ack /\ q[5] = pass
    BY DEF Local
  <2>2. Told(q, 4, d, O)
    BY <2>1 DEF Told
  <2> HIDE DEF q, put, ack, pass
  <2>3. \A i \in DOMAIN q : i = 1 \/ i = 2 \/ i = 3 \/ i = 4 \/ i = 5
    BY <2>1
  <2>4. GoodJob(q, B, O)
    BY <1>1, <1>2, <1>3, <1>4, <2>1, <2>2, <2>3 DEF GoodJob
  <2> QED
    BY <2>4 DEF q
<1>5. ASSUME d \in B PROVE GoodJob(Injected(d), B, O)
  <2> DEFINE q == Injected(d)
  <2>1. DOMAIN q = 1..3 /\ q[1] = put /\ q[2] = back /\ q[3] = Save(d)
    BY DEF Injected
  <2>2. Told(q, 2, d, O)
    BY <2>1 DEF Told
  <2> HIDE DEF q, put, back
  <2>3. \A i \in DOMAIN q : i = 1 \/ i = 2 \/ i = 3
    BY <2>1
  <2>4. GoodJob(q, B, O)
    BY <1>1, <1>3, <1>5, <2>1, <2>2, <2>3 DEF GoodJob
  <2> QED
    BY <2>4 DEF q
<1>6. ASSUME d \in B PROVE GoodJob(<<Save(d), pass>>, B, O) /\ GoodJob(<<Save(d)>>, B, O)
  <2> HIDE DEF pass
  <2> QED
    BY <1>1, <1>3, <1>6 DEF GoodJob
<1>7. ASSUME NEW s \in Server, NEW status \in Receipt, d \in O
      PROVE  /\ GoodJob(Receipted(s, d, status), B, O)
             /\ GoodJob(Append(Receipted(s, d, status), Propagate(About(d, status))), B, O)
  <2> DEFINE st == Status(d, status)
             se == Send(From[d], About(d, status))
             pr == Propagate(About(d, status))
  <2>1. /\ st.op = "status" /\ se.op = "send" /\ se.event.type = status /\ se.event.dm = d
        /\ pr.op = "propagate" /\ pr.event.type = status /\ pr.event.dm = d
    BY <1>2
  <2>2. Receipted(s, d, status) = <<st, se>> \/ Receipted(s, d, status) = <<st>>
    BY DEF Receipted
  <2> HIDE DEF st, se, pr
  <2>3. status # "dm" /\ status # "dm_history"
    BY <1>3
  <2>4. \A q, i : Told(q, i, d, O)
    BY <1>7 DEF Told
  <2>5. GoodJob(<<st>>, B, O)
    BY <2>1 DEF GoodJob
  <2>6. GoodJob(<<st, se>>, B, O)
    BY <2>1, <2>3, <2>4 DEF GoodJob
  <2>7. GoodJob(<<st, pr>>, B, O)
    BY <2>1, <2>3, <2>4 DEF GoodJob
  <2>8. GoodJob(<<st, se, pr>>, B, O)
    BY <2>1, <2>3, <2>4 DEF GoodJob
  <2>9. Append(<<st>>, pr) = <<st, pr>>
    BY AppendSecond
  <2>11. Append(<<st, se>>, pr) = <<st, se, pr>>
    BY AppendThird
  <2>10. /\ GoodJob(Receipted(s, d, status), B, O)
         /\ GoodJob(Append(Receipted(s, d, status), pr), B, O)
    BY <2>2, <2>5, <2>6, <2>7, <2>8, <2>9, <2>11
  <2> QED
    BY <2>10 DEF pr
<1> QED
  BY <1>4, <1>5, <1>6, <1>7

-----------------------------------------------------------------------------
\* A handler that has begun has begun for good: nobody sends a DM again.
LEMMA BegunGrows ==
    ASSUME TypeOK, posted \subseteq posted',
           \A u \in User : \A i \in DOMAIN inbox'[u] :
               \/ \E j \in DOMAIN inbox[u] : inbox'[u][i] = inbox[u][j]
               \/ inbox'[u][i].type # "dm"
               \/ inbox'[u][i].dm \notin posted
    PROVE  Begun \subseteq Begun'
<1> SUFFICES ASSUME NEW d \in Begun PROVE d \in Begun'
  OBVIOUS
<1>1. d \in posted /\ d \in DM /\ From[d] \in User
  BY EndsAssumption DEF Begun, TypeOK
<1>2. AskDM(d).type = "dm" /\ AskDM(d).dm = d
  BY DEF AskDM
<1>3. ASSUME NEW i \in DOMAIN inbox'[From[d]] PROVE inbox'[From[d]][i] # AskDM(d)
  BY <1>1, <1>2, <1>3 DEF Begun
<1> QED
  BY <1>1, <1>3 DEF Begun

\* A handover that is over stays over.
LEMMA OverGrows ==
    ASSUME handed \subseteq handed', dropped \subseteq dropped'
    PROVE  Over \subseteq Over'
BY DEF Over

\* A handover is over as before where nothing that decides it changed.
LEMMA OverSame ==
    ASSUME UNCHANGED <<handed, dropped>>
    PROVE  Over' = Over
BY DEF Over

\* A handover has begun as before where nothing that decides it changed.
LEMMA BegunSame ==
    ASSUME UNCHANGED <<posted, inbox>>
    PROVE  Begun' = Begun
BY DEF Begun

\* A step of a browser that loses nothing keeps what it does not touch.
LEMMA WiresAfter ==
    ASSUME TypeOK, HandoverInv, UNCHANGED <<handed, dropped, stored, mesh, job>>,
           Begun \subseteq Begun'
    PROVE  /\ Over' = Over /\ Over \subseteq DM /\ MeshGood' /\ JobGood'
           /\ \A s \in Server, d \in DM : stored'[s][d] # "none" => d \in Begun'
<1>1. Over' = Over /\ Over \subseteq DM
  BY OverSame DEF Over
<1>2. SendGood /\ MeshGood /\ JobGood
  BY DEF HandoverInv
<1>3. /\ \A l \in Link : mesh[l] \in Seq(Copies(Begun', Over'))
      /\ \A w \in Worker : GoodJob(job[w], Begun', Over')
  BY <1>1, <1>2, WiresStayGood
<1>4. MeshGood' /\ JobGood'
  BY <1>3 DEF MeshGood, JobGood
<1>5. \A s \in Server, d \in DM : stored'[s][d] # "none" => d \in Begun'
  BY DEF HandoverInv, HasIt
<1> QED
  BY <1>1, <1>4, <1>5

\* Sending a DM keeps HandoverInv.
LEMMA SendDMGood ==
    ASSUME TypeOK, HandoverInv, NEW d \in DM, SendDM(d)
    PROVE  HandoverInv'
<1> DEFINE u == From[d]
<1>1. /\ d \notin posted /\ posted' = posted \cup {d} /\ u \in User /\ posted \subseteq DM
      /\ view' = [view EXCEPT ![u][d] = "sent"]
      /\ inbox' = [inbox EXCEPT ![u] = Append(@, AskDM(d))]
      /\ UNCHANGED <<stored, mesh, job, handed, dropped, send>>
  BY EndsAssumption DEF SendDM, serverVars, AskDM, TypeOK
<1>2. /\ inbox \in [User -> Seq(Request)] /\ view \in [User -> [DM -> Shown]]
      /\ AskDM(d) \in Request /\ AskDM(d).dm = d
  BY DEF TypeOK, AskDM, Request
<1> HIDE DEF u
<1>3. inbox'[u] = Append(inbox[u], AskDM(d)) /\ \A v \in User : v # u => inbox'[v] = inbox[v]
  BY <1>1, <1>2
<1>4. Begun \subseteq Begun'
  <2>1. ASSUME NEW v \in User, NEW i \in DOMAIN inbox'[v]
        PROVE  \/ \E j \in DOMAIN inbox[v] : inbox'[v][i] = inbox[v][j]
               \/ inbox'[v][i].dm \notin posted
    <3>1. CASE v # u
      BY <1>3, <2>1, <3>1
    <3>2. CASE v = u
      <4>1. \/ i \in DOMAIN inbox[u] /\ inbox'[u][i] = inbox[u][i]
            \/ inbox'[u][i] = AskDM(d)
        BY <1>1, <1>2, <1>3, <2>1, <3>2
      <4> QED
        BY <1>1, <1>2, <3>2, <4>1
    <3> QED
      BY <3>1, <3>2
  <2> QED
    BY <1>1, <2>1, BegunGrows
<1>5. /\ Over' = Over /\ Over \subseteq DM /\ MeshGood' /\ JobGood'
      /\ \A s \in Server, x \in DM : stored'[s][x] # "none" => x \in Begun'
  BY <1>1, <1>4, WiresAfter
<1>6. SendGood'
  BY <1>1, <1>5 DEF HandoverInv, SendGood
<1>7. InboxGood'
  <2> SUFFICES ASSUME NEW v \in User PROVE GoodInbox(v, inbox'[v], posted', Over)
    BY <1>5 DEF InboxGood
  <2>1. GoodInbox(v, inbox[v], posted, Over)
    BY DEF HandoverInv, InboxGood
  <2>2. CASE v = u
    <3>1. inbox[v] \in Seq(Request) /\ From[d] = v
      BY <1>2, <2>2 DEF u
    <3> QED
      BY <1>1, <1>3, <2>1, <2>2, <3>1, InboxSend
  <2>3. CASE v # u
    <3>1. inbox'[v] = inbox[v] /\ From[d] # v
      BY <1>3, <2>3 DEF u
    <3>2. \A x \in posted' \ Over : From[x] = v => x \in posted \ Over
      BY <1>1, <3>1
    <3>3. \A x \in posted : x \in posted'
      BY <1>1
    <3>4. GoodInbox(v, inbox[v], posted', Over)
      BY <2>1, <3>2, <3>3 DEF GoodInbox
    <3> QED
      BY <3>1, <3>4
  <2> QED
    BY <2>2, <2>3
<1>8. \A v \in User, x \in DM : x # d \/ v # u => view'[v][x] = view[v][x]
  BY <1>1, <1>2
<1>9. view'[u][d] = "sent"
  BY <1>1, <1>2
<1>10. OneTick'
  <2> SUFFICES ASSUME NEW x \in DM \ Over
               PROVE  view'[From[x]][x] = IF x \in posted' THEN "sent" ELSE "none"
    BY <1>5 DEF OneTick
  <2>1. CASE x = d
    BY <1>1, <1>9, <2>1 DEF u
  <2>2. CASE x # d
    <3>1. view'[From[x]][x] = view[From[x]][x] /\ (x \in posted' <=> x \in posted)
      BY <1>1, <1>8, <2>2, EndsAssumption
    <3> QED
      BY <3>1 DEF HandoverInv, OneTick
  <2> QED
    BY <2>1, <2>2
<1>11. \A x \in DM : view'[To[x]][x] = view[To[x]][x]
  BY <1>8, EndsAssumption DEF u
<1>12. HasIt'
  BY <1>1, <1>5, <1>11 DEF HandoverInv, HasIt
<1> QED
  BY <1>5, <1>6, <1>7, <1>10, <1>12 DEF HandoverInv

\* The steps that touch nothing of it.
LEMMA IdleGood ==
    ASSUME HandoverInv,
           UNCHANGED <<view, posted, inbox, stored, send, mesh, job, handed, dropped>>
    PROVE  HandoverInv'
<1>1. Over' = Over /\ Begun' = Begun
  BY OverSame, BegunSame
<1>2. OneTick' /\ HasIt'
  BY <1>1 DEF HandoverInv, OneTick, HasIt
<1>3. InboxGood' /\ SendGood' /\ MeshGood' /\ JobGood'
  BY <1>1 DEF HandoverInv, InboxGood, SendGood, MeshGood, JobGood
<1> QED
  BY <1>2, <1>3 DEF HandoverInv

\* Requests that are not for DMs leave begun what has begun.
LEMMA AskMore ==
    ASSUME TypeOK, posted' = posted, NEW u \in User, NEW s \in Seq(Request),
           inbox' = [inbox EXCEPT ![u] = @ \o s],
           \A i \in DOMAIN s : s[i].type # "dm"
    PROVE  /\ inbox'[u] = inbox[u] \o s
           /\ \A v \in User : v # u => inbox'[v] = inbox[v]
           /\ Begun \subseteq Begun'
<1>1. inbox \in [User -> Seq(Request)]
  BY DEF TypeOK
<1>2. inbox'[u] = inbox[u] \o s /\ \A v \in User : v # u => inbox'[v] = inbox[v]
  BY <1>1
<1>3. ASSUME NEW v \in User, NEW i \in DOMAIN inbox'[v]
      PROVE  \/ \E j \in DOMAIN inbox[v] : inbox'[v][i] = inbox[v][j]
             \/ inbox'[v][i].type # "dm"
  <2>1. CASE v # u
    BY <1>2, <1>3, <2>1
  <2>2. CASE v = u
    <3> DEFINE q == inbox[u]
    <3>1. q \in Seq(Request) /\ i \in DOMAIN (q \o s)
      BY <1>1, <1>2, <1>3, <2>2
    <3> HIDE DEF q
    <3>2. \/ i \in DOMAIN q /\ (q \o s)[i] = q[i]
          \/ i - Len(q) \in DOMAIN s /\ (q \o s)[i] = s[i - Len(q)]
      BY <3>1
    <3> QED
      BY <1>2, <2>2, <3>2 DEF q
  <2> QED
    BY <2>1, <2>2
<1>4. Begun \subseteq Begun'
  BY <1>3, BegunGrows
<1> QED
  BY <1>2, <1>4

\* SetToSeq lists elements of its set.
LEMMA ReadRequests ==
    ASSUME NEW S, S \subseteq DM
    PROVE  LET s == SetToSeq({[type |-> "read", dm |-> d] : d \in S})
           IN  /\ s \in Seq(Request)
               /\ \A i \in DOMAIN s : s[i].type = "read" /\ s[i].dm \in S
<1> DEFINE receipts == {[type |-> "read", dm |-> d] : d \in S}
           f == [d \in S |-> [type |-> "read", dm |-> d]]
<1>1. IsFiniteSet(S)
  BY DMAssumption, FS_Subset
<1>2. f \in Surjection(S, receipts)
  BY DEF Surjection
<1>3. IsFiniteSet(receipts)
  <2> HIDE DEF f, receipts
  <2> QED
    BY <1>1, <1>2, FS_Surjection
<1>4. \A r \in receipts : r \in Request /\ r.type = "read" /\ r.dm \in S
  BY DEF Request
<1> HIDE DEF receipts
<1> DEFINE s == SetToSeq(receipts)
<1>5. s \in Seq(receipts)
  BY <1>3, SetToSeqType
<1>6. s \in Seq(Request)
  BY <1>4, <1>5, SeqMonotone
<1> HIDE DEF s
<1>7. \A i \in DOMAIN s : s[i] \in receipts
  BY <1>5
<1>8. /\ s \in Seq(Request)
      /\ \A i \in DOMAIN s : s[i].type = "read" /\ s[i].dm \in S
  BY <1>4, <1>6, <1>7
<1> QED
  BY <1>8 DEF s, receipts

\* Opening a conversation keeps HandoverInv.
LEMMA SwitchToDMGood ==
    ASSUME TypeOK, HandoverInv, NEW u \in User, NEW peer \in User, SwitchToDM(u, peer)
    PROVE  HandoverInv'
<1> DEFINE unread == {d \in Kept(u, peer) : To[d] = u /\ view[u][d] # "read"}
           ask == [type |-> "get_dm_history", peer |-> peer]
           s == IF Kept(u, peer) = {} THEN <<ask>>
                ELSE SetToSeq({[type |-> "read", dm |-> d] : d \in unread})
<1>1. /\ inbox' = [inbox EXCEPT ![u] = @ \o s]
      /\ view' = [view EXCEPT ![u] = [d \in DM |-> IF d \in unread THEN "read" ELSE @[d]]]
      /\ UNCHANGED <<stored, mesh, job, handed, dropped, send, posted>>
  BY DEF SwitchToDM, serverVars
<1>2. Kept(u, peer) = {d \in DM : {From[d], To[d]} = {u, peer} /\ view[u][d] # "none"}
  BY DEF Kept, Conversation
<1>3. /\ unread \subseteq DM
      /\ \A d \in unread : To[d] = u /\ view[u][d] # "none"
  BY <1>2
<1>4. /\ \A d \in DM : view[To[d]][d] # "none" => d \in handed
      /\ handed \subseteq DM /\ posted \subseteq DM
  BY DEF HandoverInv, HasIt, TypeOK
<1>5. unread \subseteq Over
  BY <1>3, <1>4 DEF Over
<1>6. Kept(u, peer) = {} => \A d \in posted \ Over : From[d] = u => To[d] # peer
  <2> SUFFICES ASSUME Kept(u, peer) = {}, NEW d \in posted \ Over, From[d] = u, To[d] = peer
               PROVE  FALSE
    OBVIOUS
  <2>1. d \in DM /\ view[u][d] = "sent"
    BY <1>4 DEF HandoverInv, OneTick
  <2> QED
    BY <1>2, <2>1
<1>7. /\ ask \in Request /\ ask.type = "get_dm_history" /\ ask.peer = peer
  BY DEF Request
<1>8. /\ s \in Seq(Request)
      /\ \A i \in DOMAIN s :
            \/ s[i].type = "read" /\ s[i].dm \in Over
            \/ /\ s[i].type = "get_dm_history"
               /\ \A d \in posted \ Over : From[d] = u => To[d] # s[i].peer
  <2>1. CASE Kept(u, peer) = {}
    <3>1. s = <<ask>>
      BY <2>1
    <3> HIDE DEF s, ask
    <3>2. <<ask>> \in Seq(Request) /\ \A i \in DOMAIN <<ask>> : <<ask>>[i] = ask
      BY <1>7
    <3> QED
      BY <1>6, <1>7, <2>1, <3>1, <3>2
  <2>2. CASE Kept(u, peer) # {}
    <3> DEFINE t == SetToSeq({[type |-> "read", dm |-> d] : d \in unread})
    <3>1. s = t
      BY <2>2
    <3> HIDE DEF s, unread
    <3>2. t \in Seq(Request) /\ \A i \in DOMAIN t : t[i].type = "read" /\ t[i].dm \in unread
      BY <1>3, ReadRequests
    <3> HIDE DEF t
    <3> QED
      BY <1>5, <3>1, <3>2
  <2> QED
    BY <2>1, <2>2
<1> HIDE DEF s, ask
<1>9. /\ inbox'[u] = inbox[u] \o s
      /\ \A v \in User : v # u => inbox'[v] = inbox[v]
      /\ Begun \subseteq Begun'
  <2>1. \A i \in DOMAIN s : s[i].type # "dm"
    BY <1>8
  <2> QED
    BY <1>1, <1>8, <2>1, AskMore
<1>10. /\ Over' = Over /\ MeshGood' /\ JobGood'
       /\ \A x \in Server, d \in DM : stored'[x][d] # "none" => d \in Begun'
  BY <1>1, <1>9, WiresAfter
<1>11. SendGood'
  BY <1>1, <1>10 DEF HandoverInv, SendGood
<1>12. InboxGood'
  <2> SUFFICES ASSUME NEW v \in User PROVE GoodInbox(v, inbox'[v], posted, Over)
    BY <1>1, <1>10 DEF InboxGood
  <2>1. GoodInbox(v, inbox[v], posted, Over) /\ inbox[v] \in Seq(Request)
    BY DEF HandoverInv, InboxGood, TypeOK
  <2>2. CASE v = u
    <3>1. GoodInbox(u, inbox[u] \o s, posted, Over)
      BY <1>8, <2>1, <2>2, InboxConcat
    <3> QED
      BY <1>9, <2>2, <3>1
  <2>3. CASE v # u
    BY <1>9, <2>1, <2>3
  <2> QED
    BY <2>2, <2>3
<1>13. \A v \in User, d \in DM :
          view'[v][d] = IF v = u /\ d \in unread THEN "read" ELSE view[v][d]
  <2>1. view \in [User -> [DM -> Shown]]
    BY DEF TypeOK
  <2> HIDE DEF unread
  <2> QED
    BY <1>1, <2>1
<1>14. OneTick'
  <2> SUFFICES ASSUME NEW d \in DM \ Over
               PROVE  view'[From[d]][d] = IF d \in posted THEN "sent" ELSE "none"
    BY <1>1, <1>10 DEF OneTick
  <2>1. view'[From[d]][d] = view[From[d]][d]
    BY <1>3, <1>13, EndsAssumption
  <2> QED
    BY <2>1 DEF HandoverInv, OneTick
<1>15. \A d \in DM : view'[To[d]][d] # "none" => view[To[d]][d] # "none"
  BY <1>3, <1>13, EndsAssumption
<1>16. HasIt'
  BY <1>1, <1>4, <1>10, <1>15 DEF HasIt
<1> QED
  BY <1>10, <1>11, <1>12, <1>14, <1>16 DEF HandoverInv

\* What arrives was good, and so is what is left.
LEMMA ArrivingGood ==
    ASSUME TypeOK, HandoverInv, NEW u \in User, NEW type, Arrives(u, type)
    PROVE  /\ Head(send[u]) \in EventsFor(u, handed, Over)
           /\ Head(send[u]).type = type
           /\ UNCHANGED <<handed, dropped, stored, mesh, job, posted>>
           /\ \A v \in User : send'[v] \in Seq(EventsFor(v, handed, Over))
<1>1. /\ send[u] # <<>> /\ send' = [send EXCEPT ![u] = Tail(@)]
      /\ Head(send[u]).type = type
      /\ UNCHANGED <<handed, dropped, stored, mesh, job, posted>>
  BY DEF Arrives, serverVars
<1>2. \A v \in User : send[v] \in Seq(EventsFor(v, handed, Over))
  BY DEF HandoverInv, SendGood
<1>3. Head(send[u]) \in EventsFor(u, handed, Over) /\ Tail(send[u]) \in Seq(EventsFor(u, handed, Over))
  BY <1>1, <1>2
<1>4. \A v \in User : send'[v] = IF v = u THEN Tail(send[u]) ELSE send[v]
  BY <1>1 DEF TypeOK
<1> QED
  BY <1>1, <1>2, <1>3, <1>4

\* A browser that asks for nothing, or sends a read request for a DM that is over.
LEMMA ReadGood ==
    ASSUME TypeOK, HandoverInv, NEW u \in User, NEW d \in DM,
           \/ inbox' = inbox
           \/ inbox' = [inbox EXCEPT ![u] = Append(@, [type |-> "read", dm |-> d])] /\ d \in Over,
           UNCHANGED <<handed, dropped, stored, mesh, job, posted>>
    PROVE  /\ InboxGood' /\ MeshGood' /\ JobGood' /\ Over' = Over
           /\ \A s \in Server, x \in DM : stored'[s][x] # "none" => x \in Begun'
<1> DEFINE r == [type |-> "read", dm |-> d]
<1>1. CASE inbox' = inbox
  <2>1. Begun' = Begun
    BY <1>1, BegunSame
  <2>2. /\ MeshGood' /\ JobGood' /\ Over' = Over
        /\ \A s \in Server, x \in DM : stored'[s][x] # "none" => x \in Begun'
    BY <2>1, WiresAfter
  <2> QED
    BY <1>1, <2>2 DEF HandoverInv, InboxGood
<1>2. CASE inbox' = [inbox EXCEPT ![u] = Append(@, r)] /\ d \in Over
  <2>1. r \in Request /\ r.type = "read" /\ r.dm = d
    BY DEF Request
  <2> HIDE DEF r
  <2>2. /\ <<r>> \in Seq(Request)
        /\ \A i \in DOMAIN <<r>> : <<r>>[i] = r
    BY <2>1
  <2>3. inbox[u] \in Seq(Request)
    BY DEF TypeOK
  <2>4. Append(inbox[u], r) = inbox[u] \o <<r>>
    BY <2>1, <2>3, AppendIsConcat
  <2>5. inbox' = [inbox EXCEPT ![u] = @ \o <<r>>]
    BY <1>2, <2>4
  <2>6. /\ inbox'[u] = inbox[u] \o <<r>>
        /\ \A v \in User : v # u => inbox'[v] = inbox[v]
        /\ Begun \subseteq Begun'
    <3>1. \A i \in DOMAIN <<r>> : <<r>>[i].type # "dm"
      BY <2>1, <2>2
    <3> QED
      BY <2>2, <2>5, <3>1, AskMore
  <2>7. /\ MeshGood' /\ JobGood' /\ Over' = Over
        /\ \A s \in Server, x \in DM : stored'[s][x] # "none" => x \in Begun'
    BY <2>6, WiresAfter
  <2>8. InboxGood'
    <3> SUFFICES ASSUME NEW v \in User PROVE GoodInbox(v, inbox'[v], posted, Over)
      BY <2>7 DEF InboxGood
    <3>1. GoodInbox(v, inbox[v], posted, Over)
      BY DEF HandoverInv, InboxGood
    <3>2. CASE v = u
      <4>1. \A i \in DOMAIN <<r>> : <<r>>[i].type = "read" /\ <<r>>[i].dm \in Over
        BY <1>2, <2>1, <2>2
      <4>2. GoodInbox(u, inbox[u] \o <<r>>, posted, Over)
        BY <2>2, <2>3, <3>1, <3>2, <4>1, InboxConcat
      <4> QED
        BY <2>6, <3>2, <4>2
    <3>3. CASE v # u
      BY <2>6, <3>1, <3>3
    <3> QED
      BY <3>2, <3>3
  <2> QED
    BY <2>7, <2>8
<1> QED
  BY <1>1, <1>2

\* A browser that receives a DM keeps HandoverInv.
LEMMA ReceiveDMGood ==
    ASSUME TypeOK, HandoverInv, NEW u \in User, ReceiveDM(u)
    PROVE  HandoverInv'
<1> DEFINE d == Head(send[u]).dm
<1>1. Arrives(u, "dm")
  BY DEF ReceiveDM
<1>2. /\ Head(send[u]) \in EventsFor(u, handed, Over) /\ Head(send[u]).type = "dm"
      /\ UNCHANGED <<handed, dropped, stored, mesh, job, posted>>
      /\ \A v \in User : send'[v] \in Seq(EventsFor(v, handed, Over))
  BY <1>1, ArrivingGood
<1>3. d \in DM /\ To[d] = u /\ d \in handed
  BY <1>2 DEF EventsFor, Event, History, Receipt
<1>4. /\ view' = [view EXCEPT ![u][d] = "delivered"]
      /\ \/ inbox' = inbox
         \/ inbox' = [inbox EXCEPT ![u] = Append(@, [type |-> "read", dm |-> d])]
  BY DEF ReceiveDM
<1> HIDE DEF d
<1>5. d \in Over
  BY <1>3 DEF Over
<1>6. /\ InboxGood' /\ MeshGood' /\ JobGood' /\ Over' = Over
      /\ \A s \in Server, x \in DM : stored'[s][x] # "none" => x \in Begun'
  BY <1>2, <1>3, <1>4, <1>5, ReadGood
<1>7. SendGood'
  BY <1>2, <1>6 DEF SendGood
<1>8. \A v \in User, x \in DM : v # u \/ x # d => view'[v][x] = view[v][x]
  BY <1>3, <1>4 DEF TypeOK
<1>9. OneTick'
  <2> SUFFICES ASSUME NEW x \in DM \ Over
               PROVE  view'[From[x]][x] = IF x \in posted THEN "sent" ELSE "none"
    BY <1>2, <1>6 DEF OneTick
  <2>1. view'[From[x]][x] = view[From[x]][x]
    BY <1>5, <1>8, EndsAssumption
  <2> QED
    BY <2>1 DEF HandoverInv, OneTick
<1>10. HasIt'
  <2>1. \A x \in DM : view'[To[x]][x] # "none" => x \in handed
    <3> SUFFICES ASSUME NEW x \in DM, view'[To[x]][x] # "none" PROVE x \in handed
      OBVIOUS
    <3>1. CASE x = d
      BY <1>3, <3>1
    <3>2. CASE x # d
      BY <1>8, <3>2, EndsAssumption DEF HandoverInv, HasIt
    <3> QED
      BY <3>1, <3>2
  <2> QED
    BY <1>2, <1>6, <2>1 DEF HasIt
<1> QED
  BY <1>6, <1>7, <1>9, <1>10 DEF HandoverInv

\* A browser that receives a receipt keeps HandoverInv.
LEMMA ReceiveReceiptGood ==
    ASSUME TypeOK, HandoverInv, NEW u \in User, NEW status \in Receipt,
           ReceiveReceipt(u, status)
    PROVE  HandoverInv'
<1> DEFINE d == Head(send[u]).dm
<1>1. Arrives(u, status)
  BY DEF ReceiveReceipt
<1>2. /\ Head(send[u]) \in EventsFor(u, handed, Over) /\ Head(send[u]).type = status
      /\ UNCHANGED <<handed, dropped, stored, mesh, job, posted>>
      /\ \A v \in User : send'[v] \in Seq(EventsFor(v, handed, Over))
  BY <1>1, ArrivingGood
<1>3. d \in Over /\ d \in DM
  BY <1>2 DEF EventsFor, Over
<1>4. /\ view' = [view EXCEPT ![u][d] = IF view[u][d] = "none" THEN view[u][d] ELSE status]
      /\ inbox' = inbox
  BY DEF ReceiveReceipt
<1> HIDE DEF d
<1>5. /\ InboxGood' /\ MeshGood' /\ JobGood' /\ Over' = Over
      /\ \A s \in Server, x \in DM : stored'[s][x] # "none" => x \in Begun'
  BY <1>2, <1>3, <1>4, ReadGood
<1>6. SendGood'
  BY <1>2, <1>5 DEF SendGood
<1>7. \A v \in User, x \in DM :
         /\ v # u \/ x # d => view'[v][x] = view[v][x]
         /\ view'[v][x] # "none" => view[v][x] # "none"
  BY <1>3, <1>4 DEF TypeOK
<1>8. OneTick'
  <2> SUFFICES ASSUME NEW x \in DM \ Over
               PROVE  view'[From[x]][x] = IF x \in posted THEN "sent" ELSE "none"
    BY <1>2, <1>5 DEF OneTick
  <2>1. view'[From[x]][x] = view[From[x]][x]
    BY <1>3, <1>7, EndsAssumption
  <2> QED
    BY <2>1 DEF HandoverInv, OneTick
<1>9. HasIt'
  <2>1. \A x \in DM : view'[To[x]][x] # "none" => x \in handed
    BY <1>7, EndsAssumption DEF HandoverInv, HasIt
  <2> QED
    BY <1>2, <1>5, <2>1 DEF HasIt
<1> QED
  BY <1>5, <1>6, <1>8, <1>9 DEF HandoverInv

\* A browser that receives a history keeps HandoverInv.
LEMMA ReceiveHistoryGood ==
    ASSUME TypeOK, HandoverInv, NEW u \in User, ReceiveHistory(u)
    PROVE  HandoverInv'
<1> DEFINE h == Head(send[u])
<1>1. Arrives(u, "dm_history")
  BY DEF ReceiveHistory
<1>2. /\ h \in EventsFor(u, handed, Over) /\ h.type = "dm_history"
      /\ UNCHANGED <<handed, dropped, stored, mesh, job, posted>>
      /\ \A v \in User : send'[v] \in Seq(EventsFor(v, handed, Over))
  BY <1>1, ArrivingGood
<1>3. /\ view' = [view EXCEPT ![u] = [d \in DM |->
              IF d \in Conversation(u, h.peer) THEN Merged(@[d], h.status[d]) ELSE @[d]]]
      /\ inbox' = inbox
  BY DEF ReceiveHistory
<1> HIDE DEF h
<1>4. \A d \in DM : h.status[d] # "none" =>
         (To[d] = u /\ d \in handed) \/ (From[d] = u /\ d \in Over)
  BY <1>2 DEF EventsFor
<1>5. UNCHANGED <<posted, inbox>>
  BY <1>2, <1>3
<1>6. Begun' = Begun
  BY <1>5, BegunSame
<1>7. /\ MeshGood' /\ JobGood' /\ Over' = Over
      /\ \A s \in Server, x \in DM : stored'[s][x] # "none" => x \in Begun'
  BY <1>2, <1>6, WiresAfter
<1>8. InboxGood' /\ SendGood'
  BY <1>2, <1>5, <1>7 DEF HandoverInv, InboxGood, SendGood
<1>9. \A v \in User, d \in DM :
         \/ view'[v][d] = view[v][d]
         \/ v = u /\ view'[v][d] = Merged(view[v][d], h.status[d])
  BY <1>3 DEF TypeOK
<1>10. OneTick'
  <2> SUFFICES ASSUME NEW d \in DM \ Over
               PROVE  view'[From[d]][d] = IF d \in posted THEN "sent" ELSE "none"
    BY <1>2, <1>7 DEF OneTick
  <2>1. view[From[d]][d] = IF d \in posted THEN "sent" ELSE "none"
    BY DEF HandoverInv, OneTick
  <2>2. From[d] \in User /\ To[d] \in User /\ From[d] # To[d]
    BY EndsAssumption
  <2>3. CASE From[d] = u
    <3>1. h.status[d] = "none"
      BY <1>4, <2>2, <2>3
    <3>2. Merged(view[u][d], h.status[d]) = view[u][d]
      BY <2>1, <2>3, <3>1 DEF Merged
    <3> QED
      BY <1>9, <2>1, <2>2, <2>3, <3>2
  <2>4. CASE From[d] # u
    BY <1>9, <2>1, <2>2, <2>4
  <2> QED
    BY <2>3, <2>4
<1>11. HasIt'
  <2>1. ASSUME NEW d \in DM, view'[To[d]][d] # "none" PROVE d \in handed
    <3>1. view[To[d]][d] # "none" => d \in handed
      BY DEF HandoverInv, HasIt
    <3>2. CASE view'[To[d]][d] = view[To[d]][d]
      BY <2>1, <3>1, <3>2
    <3>3. CASE To[d] = u /\ view'[To[d]][d] = Merged(view[To[d]][d], h.status[d])
      <4>1. CASE h.status[d] = "none"
        <5>1. view[To[d]][d] = "sent"
          BY <2>1, <3>3, <4>1 DEF Merged
        <5> QED
          BY <3>1, <5>1
      <4>2. CASE h.status[d] # "none"
        BY <1>4, <3>3, <4>2, EndsAssumption
      <4> QED
        BY <4>1, <4>2
    <3> QED
      BY <1>9, <3>2, <3>3, EndsAssumption
  <2> QED
    BY <1>2, <1>7, <2>1 DEF HasIt
<1> QED
  BY <1>7, <1>8, <1>10, <1>11 DEF HandoverInv

\* A handler begins: nothing changes but its inbox and its job.
LEMMA BeginsGood ==
    ASSUME TypeOK, HandoverInv, NEW u \in User, NEW type, Begins(u, type)
    PROVE  /\ inbox[u] \in Seq(Request) /\ inbox[u] # <<>>
           /\ Head(inbox[u]) \in Request /\ Head(inbox[u]).type = type
           /\ inbox'[u] = Tail(inbox[u])
           /\ Over' = Over /\ Begun \subseteq Begun' /\ posted' = posted
           /\ OneTick' /\ HasIt' /\ InboxGood' /\ SendGood' /\ MeshGood'
           /\ \A w \in Worker : GoodJob(job[w], Begun', Over')
<1>1. /\ inbox[u] \in Seq(Request) /\ inbox[u] # <<>>
      /\ inbox' = [inbox EXCEPT ![u] = Tail(@)] /\ Head(inbox[u]).type = type
      /\ UNCHANGED <<view, posted, stored, send, mesh, handed, dropped>>
  BY DEF Begins, TypeOK, browserVars
<1>2. Head(inbox[u]) \in Request
  BY <1>1
<1>3. inbox'[u] = Tail(inbox[u]) /\ \A v \in User : v # u => inbox'[v] = inbox[v]
  BY <1>1 DEF TypeOK
<1>4. Over' = Over
  BY <1>1, OverSame
<1>5. Begun \subseteq Begun'
  <2>1. ASSUME NEW v \in User, NEW i \in DOMAIN inbox'[v]
        PROVE  \E j \in DOMAIN inbox[v] : inbox'[v][i] = inbox[v][j]
    <3>1. CASE v # u
      BY <1>3, <2>1, <3>1
    <3>2. CASE v = u
      <4>1. i \in DOMAIN Tail(inbox[u])
        BY <1>3, <2>1, <3>2
      <4>2. i + 1 \in DOMAIN inbox[u] /\ Tail(inbox[u])[i] = inbox[u][i + 1]
        BY <1>1, <4>1
      <4> QED
        BY <1>3, <3>2, <4>2
    <3> QED
      BY <3>1, <3>2
  <2> QED
    BY <1>1, <2>1, BegunGrows
<1>6. OneTick'
  BY <1>1, <1>4 DEF HandoverInv, OneTick
<1>7. HasIt'
  BY <1>1, <1>5 DEF HandoverInv, HasIt
<1>8. InboxGood'
  <2> SUFFICES ASSUME NEW v \in User PROVE GoodInbox(v, inbox'[v], posted, Over)
    BY <1>1, <1>4 DEF InboxGood
  <2>1. GoodInbox(v, inbox[v], posted, Over)
    BY DEF HandoverInv, InboxGood
  <2>2. CASE v = u
    <3>1. GoodInbox(u, Tail(inbox[u]), posted, Over)
      BY <1>1, <2>1, <2>2, InboxTail
    <3> QED
      BY <1>3, <2>2, <3>1
  <2>3. CASE v # u
    BY <1>3, <2>1, <2>3
  <2> QED
    BY <2>2, <2>3
<1>9. /\ \A v \in User : send[v] \in Seq(EventsFor(v, handed, Over))
      /\ \A l \in Link : mesh[l] \in Seq(Copies(Begun', Over))
      /\ \A w \in Worker : GoodJob(job[w], Begun', Over)
  BY <1>5, WiresStayGood DEF HandoverInv
<1>10. SendGood' /\ MeshGood'
  BY <1>1, <1>4, <1>9 DEF SendGood, MeshGood
<1> QED
  BY <1>1, <1>2, <1>3, <1>4, <1>5, <1>6, <1>7, <1>8, <1>9, <1>10

\* The job of one worker is replaced by a good one.
LEMMA JobReplaced ==
    ASSUME TypeOK, NEW w \in Worker, NEW q, job' = [job EXCEPT ![w] = q],
           GoodJob(q, Begun', Over'),
           \A x \in Worker : x # w => GoodJob(job[x], Begun', Over')
    PROVE  JobGood'
<1>1. \A x \in Worker : job'[x] = IF x = w THEN q ELSE job[x]
  BY DEF TypeOK
<1>2. \A x \in Worker : GoodJob(job'[x], Begun', Over')
  BY <1>1
<1> QED
  BY <1>2 DEF JobGood

\* With its handler a DM is begun: there was one request for it.
LEMMA TakesDM ==
    ASSUME TypeOK, HandoverInv, NEW u \in User, Begins(u, "dm"),
           NEW d, d = Head(inbox[u]).dm
    PROVE  /\ d \in DM /\ From[d] = u /\ Head(inbox[u]) = AskDM(d) /\ d \in Begun'
<1> DEFINE r == Head(inbox[u])
<1>1. /\ inbox[u] \in Seq(Request) /\ inbox[u] # <<>> /\ r \in Request /\ r.type = "dm"
      /\ inbox'[u] = Tail(inbox[u]) /\ posted' = posted
  BY BeginsGood
<1>2. d \in DM /\ r = AskDM(d)
  BY <1>1 DEF Request, AskDM
<1>3. 1 \in DOMAIN inbox[u] /\ inbox[u][1] = r
  BY <1>1
<1> HIDE DEF r
<1>4. /\ From[d] = u /\ d \in posted
      /\ \A j \in DOMAIN inbox[u] : inbox[u][j] = r => j = 1
  <2>1. GoodInbox(u, inbox[u], posted, Over)
    BY DEF HandoverInv, InboxGood
  <2>2. r.type = "dm" /\ r.dm = d
    BY <1>1 DEF r
  <2> QED
    BY <1>3, <2>1, <2>2 DEF GoodInbox
<1>5. d \in Begun'
  <2>1. ASSUME NEW i \in DOMAIN inbox'[u] PROVE inbox'[u][i] # AskDM(d)
    <3>1. i \in DOMAIN Tail(inbox[u])
      BY <1>1, <2>1
    <3>2. /\ i \in Nat /\ i # 0 /\ i + 1 \in DOMAIN inbox[u]
          /\ Tail(inbox[u])[i] = inbox[u][i + 1]
      BY <1>1, <3>1
    <3>3. inbox[u][i + 1] # r
      BY <1>4, <3>2
    <3> QED
      BY <1>1, <1>2, <3>2, <3>3
  <2> QED
    BY <1>1, <1>4, <2>1 DEF Begun
<1> QED
  BY <1>2, <1>4, <1>5 DEF r

\* The server's handler of a DM keeps HandoverInv.
LEMMA HandleDMGood ==
    ASSUME TypeOK, HandoverInv, NEW u \in User, HandleDM(u)
    PROVE  HandoverInv'
<1> DEFINE d == Head(inbox[u]).dm
<1>1. Begins(u, "dm") /\ u \in Worker
  BY DEF HandleDM, Worker
<1>2. /\ OneTick' /\ HasIt' /\ InboxGood' /\ SendGood' /\ MeshGood'
      /\ \A w \in Worker : GoodJob(job[w], Begun', Over')
  BY <1>1, BeginsGood
<1>3. \/ job' = job
      \/ job' = [job EXCEPT ![u] = Local(d)]
      \/ job' = [job EXCEPT ![u] = <<Save(d), Propagate(About(d, "dm"))>>]
  BY DEF HandleDM
<1>4. d \in DM /\ d \in Begun'
  BY <1>1, TakesDM
<1> HIDE DEF d
<1>5. GoodJob(Local(d), Begun', Over') /\ GoodJob(<<Save(d), Propagate(About(d, "dm"))>>, Begun', Over')
  BY <1>4, JobsGood
<1>6. JobGood'
  <2>1. CASE job' = job
    BY <1>2, <2>1 DEF JobGood
  <2>2. CASE job' # job
    BY <1>1, <1>2, <1>3, <1>5, <2>2, JobReplaced
  <2> QED
    BY <2>1, <2>2
<1> QED
  BY <1>2, <1>6 DEF HandoverInv

\* A throttled request keeps HandoverInv.
LEMMA ThrottledGood ==
    ASSUME TypeOK, HandoverInv, NEW u \in User, Throttled(u)
    PROVE  HandoverInv'
<1>1. PICK type : Begins(u, type)
  BY DEF Throttled
<1>2. /\ OneTick' /\ HasIt' /\ InboxGood' /\ SendGood' /\ MeshGood'
      /\ \A w \in Worker : GoodJob(job[w], Begun', Over')
  BY <1>1, BeginsGood
<1>3. JobGood'
  BY <1>2 DEF Throttled, JobGood
<1> QED
  BY <1>2, <1>3 DEF HandoverInv

\* The server's handler of a receipt keeps HandoverInv.
LEMMA HandleReceiptGood ==
    ASSUME TypeOK, HandoverInv, NEW u \in User, HandleDeliveryReceipt(u)
    PROVE  HandoverInv'
<1> DEFINE r == Head(inbox[u])
           d == r.dm
           q == Append(Receipted(Home[u], d, "read"), Propagate(About(d, "read")))
<1>1. Begins(u, "read") /\ u \in Worker /\ Home[u] \in Server
  BY HomeAssumption DEF HandleDeliveryReceipt, Worker
<1>2. /\ inbox[u] \in Seq(Request) /\ inbox[u] # <<>> /\ r \in Request /\ r.type = "read"
      /\ OneTick' /\ HasIt' /\ InboxGood' /\ SendGood' /\ MeshGood' /\ Over' = Over
      /\ \A w \in Worker : GoodJob(job[w], Begun', Over')
  BY <1>1, BeginsGood
<1>3. job' = [job EXCEPT ![u] = q]
  BY DEF HandleDeliveryReceipt
<1>4. d \in Over /\ d \in DM
  <2>1. 1 \in DOMAIN inbox[u] /\ inbox[u][1] = r
    BY <1>2
  <2>2. GoodInbox(u, inbox[u], posted, Over)
    BY DEF HandoverInv, InboxGood
  <2>3. d \in Over
    BY <1>2, <2>1, <2>2 DEF GoodInbox
  <2> QED
    BY <2>3 DEF Over
<1>5. GoodJob(q, Begun', Over')
  <2> HIDE DEF d
  <2> QED
    BY <1>1, <1>2, <1>4, JobsGood DEF Receipt
<1>6. JobGood'
  <2> HIDE DEF q
  <2> QED
    BY <1>1, <1>2, <1>3, <1>5, JobReplaced
<1> QED
  BY <1>2, <1>6 DEF HandoverInv

\* The server's handler of a history request keeps HandoverInv.
LEMMA HandleHistoryGood ==
    ASSUME TypeOK, HandoverInv, NEW u \in User, HandleGetDMHistory(u)
    PROVE  HandoverInv'
<1> DEFINE r == Head(inbox[u])
           peer == r.peer
           status == [d \in DM |-> IF d \in Conversation(u, peer) THEN stored[Home[u]][d] ELSE "none"]
           h == [type |-> "dm_history", peer |-> peer, status |-> status]
           q == IF \A d \in DM : status[d] = "none" THEN <<>> ELSE <<Send(u, h)>>
<1>1. Begins(u, "get_dm_history") /\ u \in Worker /\ Home[u] \in Server
  BY HomeAssumption DEF HandleGetDMHistory, Worker
<1>2. /\ inbox[u] \in Seq(Request) /\ inbox[u] # <<>> /\ r \in Request
      /\ r.type = "get_dm_history"
      /\ OneTick' /\ HasIt' /\ InboxGood' /\ SendGood' /\ MeshGood' /\ Over' = Over
      /\ \A w \in Worker : GoodJob(job[w], Begun', Over')
  BY <1>1, BeginsGood
<1>3. job' = [job EXCEPT ![u] = q]
  BY DEF HandleGetDMHistory
<1>4. \A d \in DM : status[d] # "none" => To[d] = u \/ (From[d] = u /\ d \in Over)
  <2> SUFFICES ASSUME NEW d \in DM, status[d] # "none", To[d] # u
               PROVE  From[d] = u /\ d \in Over
    OBVIOUS
  <2>1. d \in Conversation(u, peer) /\ stored[Home[u]][d] # "none"
    OBVIOUS
  <2>2. d \in Begun
    BY <1>1, <2>1 DEF HandoverInv, HasIt
  <2>3. From[d] = u /\ To[d] = peer
    BY <2>1 DEF Conversation
  <2>4. d \in posted /\ \A i \in DOMAIN inbox[u] : inbox[u][i] # AskDM(d)
    BY <2>2, <2>3 DEF Begun
  <2>5. 1 \in DOMAIN inbox[u] /\ inbox[u][1] = r
    BY <1>2
  <2>6. GoodInbox(u, inbox[u], posted, Over)
    BY DEF HandoverInv, InboxGood
  <2> HIDE DEF r
  <2>7. d \notin Over => \E j \in DOMAIN inbox[u] : inbox[u][j] = AskDM(d)
    BY <1>2, <2>3, <2>4, <2>5, <2>6 DEF GoodInbox
  <2> QED
    BY <2>3, <2>4, <2>7
<1>5. h.type = "dm_history" /\ h.status = status
  OBVIOUS
<1> HIDE DEF h, status, r
<1>6. GoodJob(q, Begun', Over')
  <2>1. CASE q = <<>>
    BY <2>1 DEF GoodJob
  <2>2. CASE q = <<Send(u, h)>>
    <3> DEFINE e == Send(u, h)
    <3>1. e.op = "send" /\ e.to = u /\ e.event = h
      BY DEF Send
    <3>2. h.type \notin Receipt
      BY <1>5 DEF Receipt
    <3> HIDE DEF e
    <3>3. GoodJob(<<e>>, Begun', Over')
      BY <1>2, <1>4, <1>5, <3>1, <3>2 DEF GoodJob
    <3> QED
      BY <2>2, <3>3 DEF e
  <2> QED
    BY <2>1, <2>2
<1>7. JobGood'
  <2> HIDE DEF q
  <2> QED
    BY <1>1, <1>2, <1>3, <1>6, JobReplaced
<1> QED
  BY <1>2, <1>7 DEF HandoverInv

\* The handler of a DM from another server keeps HandoverInv.
LEMMA InjectGood ==
    ASSUME TypeOK, HandoverInv, NEW l \in Link, InjectFromMesh(l)
    PROVE  HandoverInv'
<1> DEFINE event == Head(mesh[l])
           d == event.dm
           q == IF event.type # "dm" THEN Receipted(l[2], d, event.type)
                ELSE IF Home[To[d]] # l[2] THEN <<Save(d)>>
                ELSE Injected(d)
<1>1. /\ mesh[l] # <<>> /\ mesh' = [mesh EXCEPT ![l] = Tail(@)]
      /\ job' = [job EXCEPT ![l] = q]
      /\ UNCHANGED <<view, posted, inbox, stored, send, handed, dropped>>
      /\ l \in Worker /\ l[2] \in Server
  BY DEF InjectFromMesh, browserVars, Worker, Link
<1>2. Begun' = Begun /\ Over' = Over
  BY <1>1, BegunSame, OverSame
<1>3. \A k \in Link : mesh[k] \in Seq(Copies(Begun, Over))
  BY DEF HandoverInv, MeshGood
<1>4. event \in Copies(Begun, Over) /\ Tail(mesh[l]) \in Seq(Copies(Begun, Over))
  BY <1>1, <1>3
<1>5. /\ d \in DM /\ event.type \in {"dm"} \cup Receipt
      /\ event.type = "dm" => d \in Begun
      /\ event.type \in Receipt => d \in Over
  BY <1>4 DEF Copies, Event
<1>6. GoodJob(q, Begun, Over)
  <2> HIDE DEF event
  <2>1. CASE event.type = "dm"
    BY <1>5, <2>1, JobsGood
  <2>2. CASE event.type # "dm"
    BY <1>1, <1>5, <2>2, JobsGood
  <2> QED
    BY <2>1, <2>2
<1> HIDE DEF q, event
<1>7. JobGood'
  <2>1. \A x \in Worker : GoodJob(job[x], Begun', Over')
    BY <1>2 DEF HandoverInv, JobGood
  <2> QED
    BY <1>1, <1>2, <1>6, <2>1, JobReplaced
<1>8. MeshGood'
  <2>1. \A k \in Link : mesh'[k] = IF k = l THEN Tail(mesh[l]) ELSE mesh[k]
    BY <1>1 DEF TypeOK
  <2> QED
    BY <1>2, <1>3, <1>4, <2>1 DEF MeshGood
<1>9. OneTick' /\ HasIt'
  BY <1>1, <1>2 DEF HandoverInv, OneTick, HasIt
<1>10. InboxGood' /\ SendGood'
  BY <1>1, <1>2 DEF HandoverInv, InboxGood, SendGood
<1> QED
  BY <1>7, <1>8, <1>9, <1>10 DEF HandoverInv

\* An effect is done; the others are still to be done.
LEMMA EffectGood ==
    ASSUME TypeOK, HandoverInv, NEW w \in Worker, Work(w)
    PROVE  HandoverInv'
<1> DEFINE effect == Head(job[w])
           event == effect.event
<1>1. /\ job[w] # <<>> /\ job' = [job EXCEPT ![w] = Tail(@)]
      /\ UNCHANGED <<view, posted, inbox>>
      /\ job[w] \in Seq(Effect)
  BY DEF Work, SaveDM, UpdateDMStatus, SendJSON, MeshPropagate, Does, browserVars, TypeOK
<1>2. Begun' = Begun /\ posted' = posted /\ inbox' = inbox /\ view' = view
  BY <1>1, BegunSame
<1>3. \A x \in Worker : GoodJob(job[x], Begun, Over)
  BY DEF HandoverInv, JobGood
<1>4. /\ effect \in Effect
      /\ effect.op = "save" => effect.dm \in Begun
      /\ effect.op = "propagate" => event \in Copies(Begun, Over)
      /\ effect.op = "send" =>
            /\ effect.to \in User /\ event \in Event \cup History
            /\ event.type = "dm" => effect.to = To[event.dm]
            /\ event.type \in Receipt => event.dm \in Over
            /\ event.type = "dm_history" =>
                  \A d \in DM : event.status[d] # "none" =>
                      To[d] = effect.to \/ (From[d] = effect.to /\ d \in Over)
  BY <1>1, <1>3, JobHead
<1>5. HomeOf(w) \in Server
  BY HomeAssumption DEF HomeOf, Worker, Link
<1> HIDE DEF effect
<1>6. ASSUME handed \subseteq handed', dropped \subseteq dropped', Over \subseteq Over',
             \A d \in DM : effect = Send(To[d], About(d, "dm")) => d \in Over'
      PROVE  OneTick' /\ InboxGood' /\ JobGood'
  <2>1. OneTick'
    BY <1>2, <1>6 DEF HandoverInv, OneTick
  <2>2. InboxGood'
    <3> SUFFICES ASSUME NEW u \in User PROVE GoodInbox(u, inbox[u], posted, Over')
      BY <1>2 DEF InboxGood
    <3>1. GoodInbox(u, inbox[u], posted, Over)
      BY DEF HandoverInv, InboxGood
    <3> QED
      BY <1>6, <3>1 DEF GoodInbox
  <2>3. GoodJob(Tail(job[w]), Begun, Over')
    BY <1>1, <1>3, <1>6, JobTail DEF effect
  <2>4. ASSUME NEW x \in Worker PROVE GoodJob(job[x], Begun, Over')
    <3>1. job[x] \in Seq(Effect)
      BY <2>4 DEF TypeOK
    <3> QED
      BY <1>3, <1>6, <2>4, <3>1, GoodGrows
  <2>5. JobGood'
    <3> DEFINE q == Tail(job[w])
    <3>1. job' = [job EXCEPT ![w] = q]
      BY <1>1
    <3> HIDE DEF q
    <3>2. GoodJob(q, Begun', Over')
      BY <1>2, <2>3 DEF q
    <3> QED
      BY <1>2, <2>4, <3>1, <3>2, JobReplaced
  <2> QED
    BY <2>1, <2>2, <2>5
<1>7. ASSUME UNCHANGED <<handed, dropped>>, effect.op # "send"
      PROVE  Over' = Over /\ OneTick' /\ InboxGood' /\ JobGood'
  <2>1. Over' = Over
    BY <1>7, OverSame
  <2>2. \A d \in DM : effect # Send(To[d], About(d, "dm"))
    BY <1>7 DEF Send
  <2> QED
    BY <1>6, <1>7, <2>1, <2>2
<1>8. ASSUME UNCHANGED <<send, mesh, handed, dropped>>, effect.op # "send",
             \A s \in Server, d \in DM : stored'[s][d] # "none" =>
                 stored[s][d] # "none" \/ d \in Begun
      PROVE  HandoverInv'
  <2>1. Over' = Over /\ OneTick' /\ InboxGood' /\ JobGood'
    BY <1>7, <1>8
  <2>2. SendGood' /\ MeshGood'
    BY <1>2, <1>8, <2>1 DEF HandoverInv, SendGood, MeshGood
  <2>3. HasIt'
    BY <1>2, <1>8 DEF HandoverInv, HasIt
  <2> QED
    BY <2>1, <2>2, <2>3 DEF HandoverInv
<1>9. CASE SaveDM(w)
  <2>1. /\ effect.op = "save" /\ stored' = [stored EXCEPT ![HomeOf(w)][effect.dm] = "saved"]
        /\ UNCHANGED <<send, mesh, handed, dropped>>
    BY <1>9 DEF SaveDM, Does, effect
  <2>2. \A s \in Server, d \in DM : stored'[s][d] # "none" => stored[s][d] # "none" \/ d \in Begun
    BY <1>4, <1>5, <2>1 DEF TypeOK
  <2> QED
    BY <1>8, <2>1, <2>2
<1>10. CASE UpdateDMStatus(w)
  <2>1. /\ effect.op = "status"
        /\ stored' = [stored EXCEPT ![HomeOf(w)][effect.dm] =
                         IF @ = "none" THEN @ ELSE effect.status]
        /\ UNCHANGED <<send, mesh, handed, dropped>>
    BY <1>10 DEF UpdateDMStatus, Does, effect
  <2>2. effect.dm \in DM
    BY <1>4, <2>1 DEF Effect
  <2>3. \A s \in Server, d \in DM : stored'[s][d] # "none" => stored[s][d] # "none"
    BY <1>5, <2>1, <2>2 DEF TypeOK
  <2> QED
    BY <1>8, <2>1, <2>3
<1>11. CASE SendJSON(w)
  <2>1. /\ effect.op = "send" /\ UNCHANGED <<stored, mesh>>
        /\ \/ /\ send' = [send EXCEPT ![effect.to] = Append(@, event)]
              /\ handed' = handed \cup {d \in Carried(event) : To[d] = effect.to}
              /\ UNCHANGED dropped
           \/ /\ dropped' = dropped \cup {effect.to}
              /\ UNCHANGED <<send, handed>>
    BY <1>11 DEF SendJSON, Does, effect
  <2>2. handed \subseteq handed' /\ dropped \subseteq dropped' /\ Over \subseteq Over'
    BY <2>1, OverGrows
  <2>3. ASSUME NEW d \in DM, effect = Send(To[d], About(d, "dm")) PROVE d \in Over'
    <3>1. effect.to = To[d] /\ event.type = "dm" /\ event.dm = d
      BY <2>3 DEF Send, About
    <3>2. Carried(event) = {d}
      BY <3>1 DEF Carried
    <3> QED
      BY <2>1, <3>1, <3>2 DEF Over
  <2>4. OneTick' /\ InboxGood' /\ JobGood'
    BY <1>6, <2>2, <2>3
  <2>5. HasIt'
    BY <1>2, <2>1, <2>2 DEF HandoverInv, HasIt
  <2>6. MeshGood'
    <3>1. \A l \in Link : mesh[l] \in Seq(Copies(Begun, Over'))
      BY <2>2, WiresStayGood DEF HandoverInv
    <3> QED
      BY <1>2, <2>1, <3>1 DEF MeshGood
  <2>7. \A u \in User : send[u] \in Seq(EventsFor(u, handed', Over'))
    BY <2>2, WiresStayGood DEF HandoverInv
  <2>8. CASE send' = send
    BY <2>4, <2>5, <2>6, <2>7, <2>8 DEF HandoverInv, SendGood
  <2>9. CASE /\ send' = [send EXCEPT ![effect.to] = Append(@, event)]
             /\ handed' = handed \cup {d \in Carried(event) : To[d] = effect.to}
    <3>1. event.type = "dm" => event.dm \in handed' /\ effect.to = To[event.dm]
      BY <1>4, <2>1, <2>9 DEF Carried
    <3>2. event.type \in Receipt => event.dm \in Over'
      BY <1>4, <2>1, <2>2
    <3>3. ASSUME event.type = "dm_history", NEW d \in DM, event.status[d] # "none"
          PROVE  (To[d] = effect.to /\ d \in handed') \/ (From[d] = effect.to /\ d \in Over')
      <4>1. d \in Carried(event)
        BY <3>3 DEF Carried
      <4> QED
        BY <1>4, <2>1, <2>2, <2>9, <3>3, <4>1
    <3>4. event \in EventsFor(effect.to, handed', Over')
      BY <1>4, <2>1, <3>1, <3>2, <3>3 DEF EventsFor
    <3>5. effect.to \in User
      BY <1>4, <2>1
    <3>6. \A u \in User : send'[u] = IF u = effect.to THEN Append(send[u], event) ELSE send[u]
      BY <2>9, <3>5 DEF TypeOK
    <3> HIDE DEF event
    <3>7. Append(send[effect.to], event) \in Seq(EventsFor(effect.to, handed', Over'))
      BY <2>7, <3>4, <3>5
    <3>8. \A u \in User : send'[u] \in Seq(EventsFor(u, handed', Over'))
      BY <2>7, <3>6, <3>7
    <3>9. SendGood'
      BY <3>8 DEF SendGood
    <3> QED
      BY <2>4, <2>5, <2>6, <3>9 DEF HandoverInv
  <2> QED
    BY <2>1, <2>8, <2>9
<1>12. CASE MeshPropagate(w)
  <2>1. /\ effect.op = "propagate" /\ UNCHANGED <<stored, send, handed, dropped>>
        /\ \E got : mesh' = [l \in Link |-> IF l \in got THEN Append(mesh[l], event) ELSE mesh[l]]
    BY <1>12 DEF MeshPropagate, Does, effect
  <2>2. Over' = Over /\ OneTick' /\ InboxGood' /\ JobGood'
    BY <1>7, <2>1
  <2>3. SendGood' /\ HasIt'
    BY <1>2, <2>1, <2>2 DEF HandoverInv, SendGood, HasIt
  <2>4. event \in Copies(Begun, Over)
    BY <1>4, <2>1
  <2> HIDE DEF event
  <2>5. \A l \in Link : mesh'[l] \in Seq(Copies(Begun, Over))
    BY <2>1, <2>4 DEF HandoverInv, MeshGood
  <2>6. MeshGood'
    BY <1>2, <2>2, <2>5 DEF MeshGood
  <2> QED
    BY <2>2, <2>3, <2>6 DEF HandoverInv
<1> QED
  BY <1>9, <1>10, <1>11, <1>12 DEF Work

\* Until a DM was handed to its recipient, or his channel was full, its sender is
\* shown one tick, a server that has it has begun with it, and nothing on its way
\* says more.
THEOREM HandoverInvariant == Spec => [](TypeOK /\ HandoverInv)
<1>1. ASSUME Init PROVE HandoverInv
  <2>1. OneTick /\ HasIt
    BY <1>1, EndsAssumption DEF Init, OneTick, HasIt
  <2>2. InboxGood
    BY <1>1 DEF Init, InboxGood, GoodInbox
  <2>3. SendGood /\ MeshGood
    BY <1>1 DEF Init, SendGood, MeshGood
  <2>4. JobGood
    BY <1>1 DEF Init, JobGood, GoodJob
  <2> QED
    BY <2>1, <2>2, <2>3, <2>4 DEF HandoverInv
<1>2. ASSUME TypeOK, HandoverInv, [Next]_vars PROVE HandoverInv'
  <2>1. ASSUME NEW u \in User, Browser(u) PROVE HandoverInv'
    <3>1. CASE SwitchToRoom(u)
      <4>1. UNCHANGED <<view, posted, inbox, stored, send, mesh, job, handed, dropped>>
        BY <3>1 DEF SwitchToRoom, serverVars
      <4> QED
        BY <1>2, <4>1, IdleGood
    <3>2. ASSUME NEW peer \in User, SwitchToDM(u, peer) PROVE HandoverInv'
      BY <1>2, <2>1, <3>2, SwitchToDMGood
    <3>3. CASE ReceiveDM(u)
      BY <1>2, <2>1, <3>3, ReceiveDMGood
    <3>4. CASE ReceiveHistory(u)
      BY <1>2, <2>1, <3>4, ReceiveHistoryGood
    <3>5. ASSUME NEW status \in Receipt, ReceiveReceipt(u, status) PROVE HandoverInv'
      BY <1>2, <2>1, <3>5, ReceiveReceiptGood
    <3> QED
      BY <2>1, <3>1, <3>2, <3>3, <3>4, <3>5 DEF Browser
  <2>2. ASSUME NEW u \in User, Handle(u) PROVE HandoverInv'
    BY <1>2, <2>2, ThrottledGood, HandleDMGood, HandleReceiptGood, HandleHistoryGood
    DEF Handle
  <2>3. ASSUME NEW d \in DM, SendDM(d) PROVE HandoverInv'
    BY <1>2, <2>3, SendDMGood
  <2>4. ASSUME NEW l \in Link, InjectFromMesh(l) PROVE HandoverInv'
    BY <1>2, <2>4, InjectGood
  <2>5. ASSUME NEW w \in Worker, Work(w) PROVE HandoverInv'
    BY <1>2, <2>5, EffectGood
  <2>6. CASE UNCHANGED vars
    <3>1. UNCHANGED <<view, posted, inbox, stored, send, mesh, job, handed, dropped>>
      BY <2>6 DEF vars
    <3> QED
      BY <1>2, <3>1, IdleGood
  <2> QED
    BY <1>2, <2>1, <2>2, <2>3, <2>4, <2>5, <2>6 DEF Next
<1> QED
  BY <1>1, <1>2, TypeCorrect, PTL DEF Spec

\* Two ticks are true: a DM is shown as delivered only if it was put into its
\* recipient's channel or that channel was full, whatever order the handlers of
\* hub.go, histories and receipts come in.
THEOREM DeliveredIsTrueHolds == Spec => []DeliveredIsTrue
<1>1. HandoverInv => DeliveredIsTrue
  BY DEF HandoverInv, OneTick, Over, DeliveredIsTrue, Receipt
<1> QED
  BY <1>1, HandoverInvariant, PTL

-----------------------------------------------------------------------------
(***************************************************************************)
(* No DM of which nothing was dropped is stuck at one tick.  What has to   *)
(* be done for it is done, or is still to come: with a request, an effect, *)
(* or an event between servers.                                            *)
(* A history that misses a DM was made before its handler began, and is    *)
(* ahead of everything that ticks it.                                      *)
(***************************************************************************)

\* What is on a wire, or in a job
On(wire) == {wire[i] : i \in DOMAIN wire}

SenderHome(d) == Home[From[d]]

\* e speaks only of DMs in B.
SpeaksOf(e, B) ==
    IF e.type = "dm_history" THEN \A d \in DM : e.status[d] # "none" => d \in B
    ELSE e.dm \in B

\* Effects of worker w that are about DMs in B: a server saves for its own users
\* before the DM leaves it, and answers the user who asked.
EffectAbout(w, effect, B) ==
    /\ effect.op \in {"save", "status"} => effect.dm \in B
    /\ effect.op \in {"send", "propagate"} => SpeaksOf(effect.event, B)
    /\ effect.op = "save" => w = From[effect.dm] \/ HomeOf(w) # SenderHome(effect.dm)
    /\ effect.op = "propagate" /\ effect.event.type = "dm" => w = From[effect.event.dm]
    /\ effect.op = "send" /\ effect.event.type = "dm_history" => w = effect.to

\* Everything is about DMs that were begun with.
AboutBegun ==
    /\ \A u \in User : \A r \in On(inbox[u]) : r.type = "read" => r.dm \in Begun
    /\ \A u \in User : \A e \in On(send[u]) : SpeaksOf(e, Begun)
    /\ \A l \in Link : \A e \in On(mesh[l]) :
          e.dm \in Begun /\ (e.type = "dm" => l[1] = SenderHome(e.dm))
    /\ \A w \in Worker : \A effect \in On(job[w]) : EffectAbout(w, effect, Begun)
    /\ \A d \in DM : view[To[d]][d] # "none" \/ view[From[d]][d] \in Receipt => d \in Begun

\* What a handler of handleDM does after the DM is saved
Rest(d) ==
    {Propagate(About(d, "dm"))} \cup
    (IF Home[To[d]] = SenderHome(d)
     THEN {Status(d, "delivered"), Send(From[d], About(d, "delivered"))} ELSE {})

SaveFirst ==
    \A u \in User : job[u] # <<>> =>
        /\ \A effect \in On(Tail(job[u])) : effect.op # "save"
        /\ Head(job[u]).op = "save" => Rest(Head(job[u]).dm) \subseteq On(Tail(job[u]))

\* The effect is to come on server s.
Coming(effect, s) == \E w \in Worker : HomeOf(w) = s /\ effect \in On(job[w])

Asking(d) == AskDM(d) \in On(inbox[From[d]]) \/ Coming(Save(d), SenderHome(d))

\* d is on its way to server s.
Passing(d, s) ==
    \/ Coming(Propagate(About(d, "dm")), SenderHome(d))
    \/ About(d, "dm") \in On(mesh[<<SenderHome(d), s>>])

\* The receipt of another server's recipient is on its way, or has none.
Acking(d) ==
    /\ Home[To[d]] # SenderHome(d)
    /\ \/ ~Linked(d)
       \/ Passing(d, Home[To[d]])
       \/ Coming(Propagate(About(d, "delivered")), Home[To[d]])
       \/ About(d, "delivered") \in On(mesh[<<Home[To[d]], SenderHome(d)>>])

Progress(d) ==
    /\ view[From[d]][d] # "none"
    /\ stored[SenderHome(d)][d] # "none" \/ Asking(d)
    /\ \/ stored[SenderHome(d)][d] \in Receipt \/ Asking(d) \/ Acking(d)
       \/ Coming(Status(d, "delivered"), SenderHome(d))
    /\ \/ view[From[d]][d] \in Receipt \/ From[d] \in dropped \/ Asking(d) \/ Acking(d)
       \/ Coming(Send(From[d], About(d, "delivered")), SenderHome(d))
       \/ About(d, "delivered") \in On(send[From[d]])
    /\ \A s \in Server \ {SenderHome(d)} :
          stored[s][d] # "none" \/ Asking(d) \/ Passing(d, s) \/ Coming(Save(d), s)

\* e makes the sender of d show two ticks ...
Ticks(e, d) ==
    \/ e.type \in Receipt /\ e.dm = d
    \/ e.type = "dm_history" /\ e.status[d] # "none"

\* ... or nothing but one.
Misses(e, d) == e.type = "dm_history" /\ e.peer = To[d] /\ e.status[d] = "none"

MissesFirst ==
    \A d \in DM \ lost :
        /\ \A effect \in On(job[From[d]]) :
              effect.op = "send" /\ Misses(effect.event, d) => d \notin Begun
        /\ \A i \in DOMAIN send[From[d]] : Misses(send[From[d]][i], d) =>
              /\ view[From[d]][d] \notin Receipt
              /\ \A j \in 1..(i - 1) : ~Ticks(send[From[d]][j], d)

MovesOn ==
    /\ AboutBegun
    /\ SaveFirst
    /\ \A d \in posted \ lost : Progress(d)
    /\ MissesFirst

-----------------------------------------------------------------------------
\* Nothing is on the empty wire.
LEMMA OnNone == On(<<>>) = {}
BY DEF On

\* What is on a wire is of its type.
LEMMA OnType ==
    ASSUME NEW S, NEW q \in Seq(S)
    PROVE  On(q) \subseteq S
BY DEF On

\* What is on a wire one longer: the last, or what was on it.
LEMMA OnAppend ==
    ASSUME NEW S, NEW q \in Seq(S), NEW e
    PROVE  On(Append(q, e)) = On(q) \cup {e}
<1>1. /\ DOMAIN Append(q, e) = DOMAIN q \cup {Len(q) + 1}
      /\ Append(q, e)[Len(q) + 1] = e
      /\ \A i \in DOMAIN q : Append(q, e)[i] = q[i]
  OBVIOUS
<1> QED
  BY <1>1 DEF On

\* What is on two wires put together is on one of them.
LEMMA OnConcat ==
    ASSUME NEW S, NEW q \in Seq(S), NEW r \in Seq(S)
    PROVE  On(q \o r) = On(q) \cup On(r)
<1>1. /\ Len(q) \in Nat /\ Len(r) \in Nat /\ DOMAIN (q \o r) = 1..(Len(q) + Len(r))
      /\ DOMAIN q = 1..Len(q) /\ DOMAIN r = 1..Len(r)
      /\ \A i \in 1..Len(q) : (q \o r)[i] = q[i]
      /\ \A i \in 1..Len(r) : (q \o r)[Len(q) + i] = r[i]
  OBVIOUS
<1>2. \A k \in 1..(Len(q) + Len(r)) :
         k \in 1..Len(q) \/ (k - Len(q) \in 1..Len(r) /\ k = Len(q) + (k - Len(q)))
  BY <1>1
<1>3. On(q \o r) \subseteq On(q) \cup On(r)
  BY <1>1, <1>2 DEF On
<1>4. On(q) \subseteq On(q \o r)
  BY <1>1 DEF On
<1>5. On(r) \subseteq On(q \o r)
  <2>1. \A i \in 1..Len(r) : Len(q) + i \in 1..(Len(q) + Len(r))
    BY <1>1
  <2> QED
    BY <1>1, <2>1 DEF On
<1> QED
  BY <1>3, <1>4, <1>5

\* What is on a wire after its first was taken was on it.
LEMMA OnTail ==
    ASSUME NEW S, NEW q \in Seq(S), q # <<>>
    PROVE  On(q) = {Head(q)} \cup On(Tail(q)) /\ Head(q) \in S
<1>1. /\ 1 \in DOMAIN q /\ Head(q) = q[1] /\ q[1] \in S
      /\ \A i \in DOMAIN Tail(q) : i + 1 \in DOMAIN q /\ Tail(q)[i] = q[i + 1]
      /\ \A i \in DOMAIN q : i # 1 => i - 1 \in DOMAIN Tail(q) /\ Tail(q)[i - 1] = q[i]
  OBVIOUS
<1>2. On(q) \subseteq {Head(q)} \cup On(Tail(q))
  BY <1>1 DEF On
<1>3. {Head(q)} \cup On(Tail(q)) \subseteq On(q)
  BY <1>1 DEF On
<1> QED
  BY <1>1, <1>2, <1>3

\* What is on a wire of one, two or three, and after its first was taken.
LEMMA OnFew ==
    ASSUME NEW a, NEW b, NEW c
    PROVE  /\ On(<<a>>) = {a} /\ On(<<a, b>>) = {a, b} /\ On(<<a, b, c>>) = {a, b, c}
           /\ Tail(<<a>>) = <<>> /\ Tail(<<a, b>>) = <<b>> /\ Tail(<<a, b, c>>) = <<b, c>>
           /\ Head(<<a>>) = a /\ Head(<<a, b>>) = a /\ Head(<<a, b, c>>) = a
<1>1. /\ DOMAIN <<a>> = {1} /\ <<a>>[1] = a
      /\ DOMAIN <<a, b>> = {1, 2} /\ <<a, b>>[1] = a /\ <<a, b>>[2] = b
      /\ DOMAIN <<a, b, c>> = {1, 2, 3}
      /\ <<a, b, c>>[1] = a /\ <<a, b, c>>[2] = b /\ <<a, b, c>>[3] = c
  OBVIOUS
<1>2. On(<<a>>) = {a} /\ On(<<a, b>>) = {a, b} /\ On(<<a, b, c>>) = {a, b, c}
  BY <1>1 DEF On
<1>3. /\ Tail(<<a>>) = <<>> /\ Tail(<<a, b>>) = <<b>> /\ Tail(<<a, b, c>>) = <<b, c>>
      /\ Head(<<a>>) = a /\ Head(<<a, b>>) = a /\ Head(<<a, b, c>>) = a
  OBVIOUS
<1> QED
  BY <1>2, <1>3

\* A DM is begun when no request for it waits.
LEMMA BegunOn == Begun = {d \in posted : AskDM(d) \notin On(inbox[From[d]])}
BY DEF Begun, On

\* What speaks of DMs that have begun does so when more have.
LEMMA SpeaksGrows ==
    ASSUME NEW B, NEW C, B \subseteq C
    PROVE  /\ \A e : SpeaksOf(e, B) => SpeaksOf(e, C)
           /\ \A w, effect : EffectAbout(w, effect, B) => EffectAbout(w, effect, C)
<1>1. \A e : SpeaksOf(e, B) => SpeaksOf(e, C)
  BY DEF SpeaksOf
<1> QED
  BY <1>1 DEF EffectAbout

\* What a step may put on the wires.
LEMMA AboutKept ==
    ASSUME AboutBegun, Begun \subseteq Begun',
           \A u \in User : \A r \in On(inbox'[u]) :
               r \in On(inbox[u]) \/ (r.type = "read" => r.dm \in Begun'),
           \A u \in User : \A e \in On(send'[u]) : e \in On(send[u]) \/ SpeaksOf(e, Begun'),
           \A l \in Link : \A e \in On(mesh'[l]) :
               e \in On(mesh[l]) \/ (e.dm \in Begun' /\ (e.type = "dm" => l[1] = SenderHome(e.dm))),
           \A w \in Worker : \A effect \in On(job'[w]) :
               effect \in On(job[w]) \/ EffectAbout(w, effect, Begun'),
           \A d \in DM : view'[To[d]][d] # "none" => view[To[d]][d] # "none" \/ d \in Begun',
           \A d \in DM : view'[From[d]][d] \in Receipt =>
               view[From[d]][d] \in Receipt \/ d \in Begun'
    PROVE  AboutBegun'
<1>1. /\ \A u \in User : \A r \in On(inbox'[u]) : r.type = "read" => r.dm \in Begun'
      /\ \A l \in Link : \A e \in On(mesh'[l]) :
            e.dm \in Begun' /\ (e.type = "dm" => l[1] = SenderHome(e.dm))
  BY DEF AboutBegun
<1>2. \A u \in User : \A e \in On(send'[u]) : SpeaksOf(e, Begun')
  BY SpeaksGrows DEF AboutBegun
<1>3. \A w \in Worker : \A effect \in On(job'[w]) : EffectAbout(w, effect, Begun')
  BY SpeaksGrows DEF AboutBegun
<1>4. \A d \in DM : view'[To[d]][d] # "none" \/ view'[From[d]][d] \in Receipt => d \in Begun'
  BY DEF AboutBegun
<1> QED
  BY <1>1, <1>2, <1>3, <1>4 DEF AboutBegun

\* A browser that asks for more, and loses no request, begins with nothing.
LEMMA BegunStays ==
    ASSUME TypeOK, posted \subseteq posted', posted' \subseteq DM,
           \A u \in User : On(inbox[u]) \subseteq On(inbox'[u]),
           \A u \in User : \A r \in On(inbox'[u]) :
               r \in On(inbox[u]) \/ r.type # "dm" \/ r.dm \notin posted,
           \A d \in posted' \ posted : AskDM(d) \in On(inbox'[From[d]])
    PROVE  Begun' = Begun
<1>1. \A d \in DM : From[d] \in User
  BY EndsAssumption
<1>2. Begun' = {d \in posted' : AskDM(d) \notin On(inbox'[From[d]])}
  BY DEF Begun, On
<1>3. \A d : AskDM(d).type = "dm" /\ AskDM(d).dm = d
  BY DEF AskDM
<1>4. posted \subseteq DM
  BY DEF TypeOK
<1> QED
  BY <1>1, <1>2, <1>3, <1>4, BegunOn

\* A browser takes nothing away but what it makes up for.
LEMMA BrowserMoves ==
    ASSUME TypeOK, MovesOn, UNCHANGED serverVars, Begun' = Begun,
           \A u \in User : On(inbox[u]) \subseteq On(inbox'[u]),
           \A u \in User : \A r \in On(inbox'[u]) :
               r \in On(inbox[u]) \/ (r.type = "read" => r.dm \in Begun),
           \A u \in User : On(send'[u]) \subseteq On(send[u]),
           \A d \in DM : view'[To[d]][d] # "none" => view[To[d]][d] # "none" \/ d \in Begun,
           \A d \in DM : view'[From[d]][d] \in Receipt =>
               view[From[d]][d] \in Receipt \/ d \in Begun,
           posted' \subseteq DM,
           \A d \in posted' \ lost : view'[From[d]][d] # "none",
           \A d \in posted' \ posted : AskDM(d) \in On(inbox'[From[d]]),
           \A d \in posted \ lost :
               view[From[d]][d] \in Receipt \/ About(d, "delivered") \in On(send[From[d]]) =>
               view'[From[d]][d] \in Receipt \/ About(d, "delivered") \in On(send'[From[d]]),
           \A d \in DM \ lost : \A i \in DOMAIN send'[From[d]] :
               Misses(send'[From[d]][i], d) =>
                   /\ view'[From[d]][d] \notin Receipt
                   /\ \A j \in 1..(i - 1) : ~Ticks(send'[From[d]][j], d)
    PROVE  MovesOn'
<1> USE DEF serverVars
<1>1. AboutBegun'
  <2>1. \A u \in User : \A r \in On(inbox'[u]) :
            r \in On(inbox[u]) \/ (r.type = "read" => r.dm \in Begun')
    OBVIOUS
  <2>2. \A u \in User : \A e \in On(send'[u]) : e \in On(send[u]) \/ SpeaksOf(e, Begun')
    OBVIOUS
  <2>3. \A l \in Link : \A e \in On(mesh'[l]) :
            e \in On(mesh[l]) \/ (e.dm \in Begun' /\ (e.type = "dm" => l[1] = SenderHome(e.dm)))
    OBVIOUS
  <2>4. \A w \in Worker : \A effect \in On(job'[w]) :
            effect \in On(job[w]) \/ EffectAbout(w, effect, Begun')
    OBVIOUS
  <2> QED
    BY <2>1, <2>2, <2>3, <2>4, AboutKept DEF MovesOn
<1>2. SaveFirst'
  BY DEF MovesOn, SaveFirst, On
<1>3. \A effect, s : Coming(effect, s)' <=> Coming(effect, s)
  BY DEF Coming, On
<1>4. ASSUME NEW d \in posted' \ lost'
      PROVE  Progress(d)'
  <2>1. d \in DM /\ From[d] \in User
    BY EndsAssumption
  <2>2. (view[From[d]][d] # "none")'
    OBVIOUS
  <2>3. CASE d \notin posted
    <3>1. Asking(d)'
      BY <2>3 DEF Asking, On
    <3> QED
      BY <2>2, <3>1 DEF Progress
  <2>4. CASE d \in posted
    <3>1. Progress(d)
      BY <2>4 DEF MovesOn
    <3>2. Asking(d) => Asking(d)'
      BY <1>3, <2>1 DEF Asking, On
    <3>3. \A s : Passing(d, s)' <=> Passing(d, s)
      BY <1>3 DEF Passing, On
    <3>4. Acking(d)' <=> Acking(d)
      BY <1>3, <3>3 DEF Acking, On
    <3>5. (stored[SenderHome(d)][d] # "none" \/ Asking(d))'
      BY <3>1, <3>2 DEF Progress
    <3>6. (\/ stored[SenderHome(d)][d] \in Receipt \/ Asking(d) \/ Acking(d)
           \/ Coming(Status(d, "delivered"), SenderHome(d)))'
      BY <1>3, <3>1, <3>2, <3>4 DEF Progress
    <3>7. (\/ view[From[d]][d] \in Receipt \/ From[d] \in dropped \/ Asking(d) \/ Acking(d)
           \/ Coming(Send(From[d], About(d, "delivered")), SenderHome(d))
           \/ About(d, "delivered") \in On(send[From[d]]))'
      <4>1. \/ view[From[d]][d] \in Receipt \/ From[d] \in dropped \/ Asking(d) \/ Acking(d)
            \/ Coming(Send(From[d], About(d, "delivered")), SenderHome(d))
            \/ About(d, "delivered") \in On(send[From[d]])
        BY <3>1 DEF Progress
      <4>2. CASE view[From[d]][d] \in Receipt \/ About(d, "delivered") \in On(send[From[d]])
        <5>1. view'[From[d]][d] \in Receipt \/ About(d, "delivered") \in On(send'[From[d]])
          BY <2>4, <4>2
        <5> QED
          BY <5>1 DEF On
      <4>3. CASE From[d] \in dropped
        BY <4>3
      <4>4. CASE Asking(d) \/ Acking(d)
        BY <3>2, <3>4, <4>4
      <4>5. CASE Coming(Send(From[d], About(d, "delivered")), SenderHome(d))
        BY <1>3, <4>5
      <4> QED
        BY <4>1, <4>2, <4>3, <4>4, <4>5
    <3>8. (\A s \in Server \ {SenderHome(d)} :
              stored[s][d] # "none" \/ Asking(d) \/ Passing(d, s) \/ Coming(Save(d), s))'
      BY <1>3, <3>1, <3>2, <3>3 DEF Progress
    <3> QED
      BY <2>2, <3>5, <3>6, <3>7, <3>8 DEF Progress
  <2> QED
    BY <2>3, <2>4
<1>5. MissesFirst'
  <2>1. \A d \in DM \ lost' : \A effect \in On(job'[From[d]]) :
            effect.op = "send" /\ Misses(effect.event, d) => d \notin Begun'
    BY DEF MovesOn, MissesFirst
  <2> QED
    BY <2>1 DEF MissesFirst, On
<1> QED
  BY <1>1, <1>2, <1>4, <1>5 DEF MovesOn

\* Sending a DM keeps MovesOn.
LEMMA SendDMMoves ==
    ASSUME TypeOK, MovesOn, NEW d \in DM, SendDM(d)
    PROVE  MovesOn'
<1> DEFINE u == From[d]
<1>1. /\ d \notin posted /\ posted' = posted \cup {d} /\ u \in User /\ posted \subseteq DM
      /\ view' = [view EXCEPT ![u][d] = "sent"]
      /\ inbox' = [inbox EXCEPT ![u] = Append(@, AskDM(d))]
      /\ UNCHANGED serverVars /\ send' = send
  BY EndsAssumption DEF SendDM, AskDM, TypeOK
<1>2. /\ inbox \in [User -> Seq(Request)] /\ view \in [User -> [DM -> Shown]]
      /\ AskDM(d).dm = d /\ AskDM(d).type = "dm"
  BY DEF TypeOK, AskDM
<1> HIDE DEF u
<1>3. inbox'[u] = Append(inbox[u], AskDM(d)) /\ \A v \in User : v # u => inbox'[v] = inbox[v]
  BY <1>1, <1>2
<1>4. On(inbox'[u]) = On(inbox[u]) \cup {AskDM(d)}
  BY <1>1, <1>2, <1>3, OnAppend
<1>5. \A v \in User : On(inbox[v]) \subseteq On(inbox'[v])
  BY <1>3, <1>4
<1>6. \A v \in User : \A r \in On(inbox'[v]) : r \in On(inbox[v]) \/ r = AskDM(d)
  BY <1>3, <1>4
<1>7. \A x \in posted' \ posted : AskDM(x) \in On(inbox'[From[x]])
  BY <1>1, <1>4 DEF u
<1>8. posted' \subseteq DM
  BY <1>1
<1>9. Begun' = Begun
  <2>1. \A v \in User : \A r \in On(inbox'[v]) :
            r \in On(inbox[v]) \/ r.type # "dm" \/ r.dm \notin posted
    BY <1>1, <1>2, <1>6
  <2> QED
    BY <1>1, <1>5, <1>7, <1>8, <2>1, BegunStays
<1>10. \A v \in User, x \in DM :
          view'[v][x] = IF v = u /\ x = d THEN "sent" ELSE view[v][x]
  BY <1>1, <1>2
<1>11. \A x \in DM : From[x] \in User /\ To[x] \in User /\ From[x] # To[x]
  BY EndsAssumption
<1>12. \A x \in DM : view'[To[x]][x] # "none" => view[To[x]][x] # "none" \/ x \in Begun
  BY <1>10, <1>11 DEF u
<1>13. \A x \in DM : view'[From[x]][x] \in Receipt => view[From[x]][x] \in Receipt
  BY <1>10, <1>11 DEF Receipt
<1>14. \A x \in posted' \ lost : view'[From[x]][x] # "none"
  <2> SUFFICES ASSUME NEW x \in posted' \ lost PROVE view'[From[x]][x] # "none"
    OBVIOUS
  <2>1. CASE x = d
    BY <1>1, <1>10, <2>1 DEF u
  <2>2. CASE x # d
    <3>1. x \in posted \ lost /\ x \in DM
      BY <1>1, <2>2
    <3>2. view[From[x]][x] # "none"
      BY <3>1 DEF MovesOn, Progress
    <3> QED
      BY <1>10, <1>11, <2>2, <3>1, <3>2
  <2> QED
    BY <2>1, <2>2
<1>15. \A x \in posted \ lost :
          view[From[x]][x] \in Receipt \/ About(x, "delivered") \in On(send[From[x]]) =>
          view'[From[x]][x] \in Receipt \/ About(x, "delivered") \in On(send'[From[x]])
  BY <1>1, <1>10, <1>11
<1>16. \A x \in DM \ lost : \A i \in DOMAIN send'[From[x]] :
          Misses(send'[From[x]][i], x) =>
              /\ view'[From[x]][x] \notin Receipt
              /\ \A j \in 1..(i - 1) : ~Ticks(send'[From[x]][j], x)
  BY <1>1, <1>13 DEF MovesOn, MissesFirst
<1>17. \A v \in User : \A r \in On(inbox'[v]) :
          r \in On(inbox[v]) \/ (r.type = "read" => r.dm \in Begun)
  BY <1>2, <1>6
<1> QED
  BY <1>1, <1>5, <1>7, <1>8, <1>9, <1>12, <1>13, <1>14, <1>15, <1>16, <1>17, BrowserMoves

\* Opening a conversation keeps MovesOn.
LEMMA SwitchMoves ==
    ASSUME TypeOK, MovesOn, NEW u \in User,
           SwitchToRoom(u) \/ \E peer \in User : SwitchToDM(u, peer)
    PROVE  MovesOn'
<1>1. /\ UNCHANGED serverVars /\ send' = send /\ posted' = posted /\ posted \subseteq DM
      /\ inbox \in [User -> Seq(Request)] /\ view \in [User -> [DM -> Shown]]
  BY DEF SwitchToRoom, SwitchToDM, TypeOK
<1>2. /\ \A v \in User : On(inbox[v]) \subseteq On(inbox'[v])
      /\ \A v \in User : \A r \in On(inbox'[v]) : r \in On(inbox[v]) \/ r.type # "dm"
      /\ \A v \in User : \A r \in On(inbox'[v]) :
            r \in On(inbox[v]) \/ (r.type = "read" => r.dm \in Begun)
      /\ \A v \in User, d \in DM :
            view'[v][d] = view[v][d] \/ (v = To[d] /\ view[v][d] # "none")
  <2>1. CASE SwitchToRoom(u)
    BY <2>1 DEF SwitchToRoom
  <2>2. ASSUME NEW peer \in User, SwitchToDM(u, peer)
        PROVE  /\ \A v \in User : On(inbox[v]) \subseteq On(inbox'[v])
               /\ \A v \in User : \A r \in On(inbox'[v]) : r \in On(inbox[v]) \/ r.type # "dm"
               /\ \A v \in User : \A r \in On(inbox'[v]) :
                     r \in On(inbox[v]) \/ (r.type = "read" => r.dm \in Begun)
               /\ \A v \in User, d \in DM :
                     view'[v][d] = view[v][d] \/ (v = To[d] /\ view[v][d] # "none")
    <3> DEFINE unread == {d \in Kept(u, peer) : To[d] = u /\ view[u][d] # "read"}
               ask == [type |-> "get_dm_history", peer |-> peer]
               s == IF Kept(u, peer) = {} THEN <<ask>>
                    ELSE SetToSeq({[type |-> "read", dm |-> d] : d \in unread})
    <3>1. /\ inbox' = [inbox EXCEPT ![u] = @ \o s]
          /\ view' = [view EXCEPT ![u] = [d \in DM |-> IF d \in unread THEN "read" ELSE @[d]]]
      BY <2>2 DEF SwitchToDM
    <3>2. unread \subseteq DM /\ \A d \in unread : To[d] = u /\ view[u][d] # "none"
      BY DEF Kept, Conversation
    <3>3. unread \subseteq Begun
      BY <3>2 DEF MovesOn, AboutBegun
    <3>4. /\ s \in Seq(Request)
          /\ \A r \in On(s) : r.type # "dm" /\ (r.type = "read" => r.dm \in Begun)
      <4>1. CASE Kept(u, peer) = {}
        <5>1. s = <<ask>> /\ ask \in Request /\ ask.type = "get_dm_history"
          BY <4>1 DEF Request
        <5> HIDE DEF s, ask
        <5>2. On(s) = {ask}
          BY <5>1, OnFew
        <5>3. <<ask>> \in Seq(Request)
          BY <5>1
        <5> QED
          BY <5>1, <5>2, <5>3
      <4>2. CASE Kept(u, peer) # {}
        <5> DEFINE t == SetToSeq({[type |-> "read", dm |-> d] : d \in unread})
        <5>1. s = t
          BY <4>2
        <5> HIDE DEF s, unread
        <5>2. t \in Seq(Request) /\ \A i \in DOMAIN t : t[i].type = "read" /\ t[i].dm \in unread
          BY <3>2, ReadRequests
        <5> HIDE DEF t
        <5>3. \A r \in On(t) : r.type = "read" /\ r.dm \in unread
          BY <5>2 DEF On
        <5> QED
          BY <3>3, <5>1, <5>2, <5>3
      <4> QED
        BY <4>1, <4>2
    <3> HIDE DEF s
    <3>5. /\ inbox'[u] = inbox[u] \o s
          /\ \A v \in User : v # u => inbox'[v] = inbox[v]
      BY <1>1, <3>1
    <3>6. On(inbox'[u]) = On(inbox[u]) \cup On(s)
      BY <1>1, <3>4, <3>5, OnConcat
    <3>7. \A v \in User : On(inbox[v]) \subseteq On(inbox'[v])
      BY <3>5, <3>6
    <3>8. \A v \in User : \A r \in On(inbox'[v]) : r \in On(inbox[v]) \/ r \in On(s)
      BY <3>5, <3>6
    <3> HIDE DEF unread
    <3>9. \A v \in User, d \in DM :
             view'[v][d] = view[v][d] \/ (v = To[d] /\ view[v][d] # "none")
      BY <1>1, <3>1, <3>2
    <3> QED
      BY <3>4, <3>7, <3>8, <3>9
  <2> QED
    BY <2>1, <2>2
<1>3. \A d \in DM : From[d] \in User /\ To[d] \in User /\ From[d] # To[d]
  BY EndsAssumption
<1>4. \A d \in DM : view'[From[d]][d] = view[From[d]][d]
  BY <1>2, <1>3
<1>5. \A d \in DM : view'[To[d]][d] # "none" => view[To[d]][d] # "none"
  BY <1>2, <1>3
<1>6. Begun' = Begun
  BY <1>1, <1>2, BegunStays
<1>7. \A d \in posted' \ lost : view'[From[d]][d] # "none"
  <2> SUFFICES ASSUME NEW d \in posted \ lost PROVE view[From[d]][d] # "none"
    BY <1>1, <1>4
  <2> QED
    BY DEF MovesOn, Progress
<1>8. \A d \in posted \ lost :
          view[From[d]][d] \in Receipt \/ About(d, "delivered") \in On(send[From[d]]) =>
          view'[From[d]][d] \in Receipt \/ About(d, "delivered") \in On(send'[From[d]])
  BY <1>1, <1>4
<1>9. \A d \in DM \ lost : \A i \in DOMAIN send'[From[d]] :
          Misses(send'[From[d]][i], d) =>
              /\ view'[From[d]][d] \notin Receipt
              /\ \A j \in 1..(i - 1) : ~Ticks(send'[From[d]][j], d)
  BY <1>1, <1>4 DEF MovesOn, MissesFirst
<1> QED
  BY <1>1, <1>2, <1>4, <1>5, <1>6, <1>7, <1>8, <1>9, BrowserMoves

\* A browser takes what arrives as it should.
LEMMA ReceiveMoves ==
    ASSUME TypeOK, MovesOn, NEW u \in User, NEW type, Arrives(u, type),
           NEW H, H = Head(send[u]),
           \A v \in User : On(inbox[v]) \subseteq On(inbox'[v]),
           \A v \in User : \A r \in On(inbox'[v]) :
               r \in On(inbox[v]) \/ (r.type = "read" /\ r.dm \in Begun),
           \A v \in User, d \in DM : v # u => view'[v][d] = view[v][d],
           \A d \in DM : view'[u][d] # "none" => view[u][d] # "none" \/ d \in Begun,
           \A d \in DM : From[d] = u => (view'[u][d] \in Receipt =>
               view[u][d] \in Receipt \/ Ticks(H, d)),
           \A d \in DM : From[d] = u /\ view[u][d] # "none" =>
               view'[u][d] # "none" \/ (Misses(H, d) /\ view[u][d] \in Receipt),
           \A d \in DM : From[d] = u /\ view[u][d] \in Receipt /\ ~Misses(H, d) =>
               view'[u][d] \in Receipt,
           \A d \in DM : From[d] = u /\ H = About(d, "delivered") /\ view[u][d] # "none" =>
               view'[u][d] \in Receipt
    PROVE  MovesOn'
<1>1. /\ UNCHANGED serverVars /\ posted' = posted /\ posted \subseteq DM
      /\ send[u] # <<>> /\ send' = [send EXCEPT ![u] = Tail(@)]
      /\ send \in [User -> Seq(Event \cup History)]
  BY DEF Arrives, TypeOK
<1>2. /\ send'[u] = Tail(send[u])
      /\ \A v \in User : v # u => send'[v] = send[v]
      /\ send[u] \in Seq(Event \cup History)
  BY <1>1
<1>3. On(send[u]) = {H} \cup On(send'[u])
  BY <1>1, <1>2, OnTail
<1>4. Begun' = Begun
  <2>1. \A v \in User : \A r \in On(inbox'[v]) : r \in On(inbox[v]) \/ r.type # "dm"
    OBVIOUS
  <2> QED
    BY <1>1, <2>1, BegunStays
<1>5. \A d \in DM : From[d] \in User /\ To[d] \in User /\ From[d] # To[d]
  BY EndsAssumption
<1>6. \A d \in DM : Ticks(H, d) => d \in Begun
  <2>1. SpeaksOf(H, Begun)
    BY <1>3 DEF MovesOn, AboutBegun
  <2> QED
    BY <2>1 DEF SpeaksOf, Ticks, Receipt
<1>7. /\ 1 \in DOMAIN send[u] /\ send[u][1] = H
      /\ \A i \in DOMAIN send'[u] : /\ i \in Nat /\ i + 1 \in DOMAIN send[u]
                                    /\ send'[u][i] = send[u][i + 1]
      /\ \A i \in DOMAIN send'[u] : 1 \in 1..((i + 1) - 1)
      /\ \A i \in DOMAIN send'[u] : \A j \in 1..(i - 1) :
            j \in DOMAIN send'[u] /\ j + 1 \in 1..((i + 1) - 1)
  BY <1>1, <1>2
<1>8. ASSUME NEW d \in DM \ lost, From[d] = u, NEW i \in DOMAIN send[u], Misses(send[u][i], d)
      PROVE  /\ view[u][d] \notin Receipt
             /\ \A j \in 1..(i - 1) : ~Ticks(send[u][j], d)
  BY <1>8 DEF MovesOn, MissesFirst
<1>9. \A d \in DM \ lost : From[d] = u /\ Misses(H, d) => view[u][d] \notin Receipt
  BY <1>7, <1>8
<1>10. \A v \in User : On(send'[v]) \subseteq On(send[v])
  BY <1>2, <1>3
<1>11. \A d \in DM : view'[To[d]][d] # "none" => view[To[d]][d] # "none" \/ d \in Begun
  BY <1>5
<1>12. \A d \in DM : view'[From[d]][d] \in Receipt =>
          view[From[d]][d] \in Receipt \/ d \in Begun
  BY <1>5, <1>6
<1>13. \A d \in posted' \ lost : view'[From[d]][d] # "none"
  <2> SUFFICES ASSUME NEW d \in posted \ lost PROVE view'[From[d]][d] # "none"
    BY <1>1
  <2>1. view[From[d]][d] # "none" /\ d \in DM
    BY <1>1 DEF MovesOn, Progress
  <2>2. CASE From[d] = u
    BY <1>9, <2>1, <2>2
  <2>3. CASE From[d] # u
    BY <1>5, <2>1, <2>3
  <2> QED
    BY <2>2, <2>3
<1>14. \A d \in posted \ lost :
          view[From[d]][d] \in Receipt \/ About(d, "delivered") \in On(send[From[d]]) =>
          view'[From[d]][d] \in Receipt \/ About(d, "delivered") \in On(send'[From[d]])
  <2> SUFFICES ASSUME NEW d \in posted \ lost,
                      view[From[d]][d] \in Receipt \/ About(d, "delivered") \in On(send[From[d]])
               PROVE  view'[From[d]][d] \in Receipt \/ About(d, "delivered") \in On(send'[From[d]])
    OBVIOUS
  <2>1. view[From[d]][d] # "none" /\ d \in DM
    BY <1>1 DEF MovesOn, Progress
  <2>2. CASE From[d] # u
    BY <1>2, <1>5, <2>1, <2>2
  <2>3. CASE From[d] = u /\ view[u][d] \in Receipt
    BY <1>9, <2>1, <2>3
  <2>4. CASE From[d] = u /\ About(d, "delivered") \in On(send[u])
    BY <1>3, <2>1, <2>4
  <2> QED
    BY <2>2, <2>3, <2>4
<1>15. ASSUME NEW d \in DM \ lost, NEW i \in DOMAIN send'[From[d]], Misses(send'[From[d]][i], d)
       PROVE  /\ view'[From[d]][d] \notin Receipt
              /\ \A j \in 1..(i - 1) : ~Ticks(send'[From[d]][j], d)
  <2>1. CASE From[d] # u
    <3>1. send'[From[d]] = send[From[d]] /\ view'[From[d]][d] = view[From[d]][d]
      BY <1>2, <1>5, <2>1
    <3> QED
      BY <1>15, <3>1 DEF MovesOn, MissesFirst
  <2>2. CASE From[d] = u
    <3>1. Misses(send[u][i + 1], d) /\ i + 1 \in DOMAIN send[u]
      BY <1>7, <1>15, <2>2
    <3>2. /\ view[u][d] \notin Receipt
          /\ \A j \in 1..((i + 1) - 1) : ~Ticks(send[u][j], d)
      BY <1>8, <2>2, <3>1
    <3>3. ~Ticks(H, d)
      BY <1>7, <1>15, <2>2, <3>2
    <3>4. \A j \in 1..(i - 1) : ~Ticks(send'[u][j], d)
      BY <1>7, <1>15, <2>2, <3>2
    <3> QED
      BY <2>2, <3>2, <3>3, <3>4
  <2> QED
    BY <2>1, <2>2
<1>16. \A v \in User : \A r \in On(inbox'[v]) :
          r \in On(inbox[v]) \/ (r.type = "read" => r.dm \in Begun)
  OBVIOUS
<1>17. posted' \subseteq DM /\ \A d \in posted' \ posted : AskDM(d) \in On(inbox'[From[d]])
  BY <1>1
<1> QED
  BY <1>1, <1>4, <1>10, <1>11, <1>12, <1>13, <1>14, <1>15, <1>16, <1>17, BrowserMoves

\* A browser that receives a DM keeps MovesOn.
LEMMA ReceiveDMMoves ==
    ASSUME TypeOK, HandoverInv, MovesOn, NEW u \in User, ReceiveDM(u)
    PROVE  MovesOn'
<1> DEFINE H == Head(send[u])
           d == H.dm
           r == [type |-> "read", dm |-> d]
<1>1. Arrives(u, "dm")
  BY DEF ReceiveDM
<1>2. H \in EventsFor(u, handed, Over) /\ H.type = "dm"
  BY <1>1, ArrivingGood
<1>3. d \in DM /\ To[d] = u
  BY <1>2 DEF EventsFor, Event, History, Receipt
<1>4. /\ view' = [view EXCEPT ![u][d] = "delivered"]
      /\ inbox' = inbox \/ inbox' = [inbox EXCEPT ![u] = Append(@, r)]
  BY DEF ReceiveDM
<1>5. d \in Begun
  <2>1. send[u] \in Seq(Event \cup History) /\ send[u] # <<>>
    BY <1>1 DEF TypeOK, Arrives
  <2>2. H \in On(send[u])
    BY <2>1, OnTail
  <2>3. SpeaksOf(H, Begun)
    BY <2>2 DEF MovesOn, AboutBegun
  <2> QED
    BY <1>2, <2>3 DEF SpeaksOf
<1>6. r.type = "read" /\ r.dm = d
  OBVIOUS
<1>7. \A x : ~Misses(H, x) /\ H # About(x, "delivered")
  BY <1>2 DEF Misses, About
<1> HIDE DEF d, r
<1>8. \A v \in User : \/ inbox'[v] = inbox[v]
                      \/ v = u /\ inbox'[v] = Append(inbox[v], r)
  BY <1>4 DEF TypeOK
<1>9. \A v \in User : On(inbox'[v]) = On(inbox[v]) \/ On(inbox'[v]) = On(inbox[v]) \cup {r}
  <2> SUFFICES ASSUME NEW v \in User
               PROVE  On(inbox'[v]) = On(inbox[v]) \/ On(inbox'[v]) = On(inbox[v]) \cup {r}
    OBVIOUS
  <2>1. inbox[v] \in Seq(Request)
    BY DEF TypeOK
  <2>2. CASE inbox'[v] = inbox[v]
    BY <2>2
  <2>3. CASE inbox'[v] = Append(inbox[v], r)
    BY <2>1, <2>3, OnAppend
  <2> QED
    BY <1>8, <2>2, <2>3
<1>10. \A v \in User : On(inbox[v]) \subseteq On(inbox'[v])
  BY <1>9
<1>11. \A v \in User : \A q \in On(inbox'[v]) : q \in On(inbox[v]) \/ (q.type = "read" /\ q.dm \in Begun)
  BY <1>5, <1>6, <1>9
<1>12. \A v \in User, x \in DM : view'[v][x] = IF v = u /\ x = d THEN "delivered" ELSE view[v][x]
  BY <1>3, <1>4 DEF TypeOK
<1>13. \A v \in User, x \in DM : v # u => view'[v][x] = view[v][x]
  BY <1>12
<1>14. \A x \in DM : view'[u][x] # "none" => view[u][x] # "none" \/ x \in Begun
  BY <1>5, <1>12
<1>15. \A x \in DM : From[x] = u => view'[u][x] = view[u][x]
  BY <1>3, <1>12, EndsAssumption
<1> HIDE DEF H
<1> QED
  BY <1>1, <1>7, <1>10, <1>11, <1>13, <1>14, <1>15, ReceiveMoves DEF H

\* A browser that receives a receipt keeps MovesOn.
LEMMA ReceiveReceiptMoves ==
    ASSUME TypeOK, HandoverInv, MovesOn, NEW u \in User, NEW status \in Receipt,
           ReceiveReceipt(u, status)
    PROVE  MovesOn'
<1> DEFINE H == Head(send[u])
           d == H.dm
<1>1. Arrives(u, status)
  BY DEF ReceiveReceipt
<1>2. H \in EventsFor(u, handed, Over) /\ H.type = status
  BY <1>1, ArrivingGood
<1>3. d \in DM
  BY <1>2 DEF EventsFor, Event, History, Receipt
<1>4. /\ view' = [view EXCEPT ![u][d] = IF view[u][d] = "none" THEN view[u][d] ELSE status]
      /\ inbox' = inbox
  BY DEF ReceiveReceipt
<1>5. \A x : ~Misses(H, x)
  BY <1>2 DEF Misses, Receipt
<1>6. Ticks(H, d)
  BY <1>2 DEF Ticks
<1>7. \A x : H = About(x, "delivered") => x = d
  BY DEF About
<1> HIDE DEF d
<1>8. \A v \in User, x \in DM :
         view'[v][x] = IF v = u /\ x = d /\ view[v][x] # "none" THEN status ELSE view[v][x]
  BY <1>3, <1>4 DEF TypeOK
<1>9. \A v \in User, x \in DM : v # u => view'[v][x] = view[v][x]
  BY <1>8
<1>10. \A x \in DM : view'[u][x] # "none" => view[u][x] # "none" \/ x \in Begun
  BY <1>8
<1>11. \A x \in DM : From[x] = u => (view'[u][x] \in Receipt =>
           view[u][x] \in Receipt \/ Ticks(H, x))
  BY <1>6, <1>8
<1>12. \A x \in DM : From[x] = u /\ view[u][x] # "none" => view'[u][x] # "none"
  BY <1>8 DEF Receipt
<1>13. \A x \in DM : From[x] = u /\ view[u][x] \in Receipt => view'[u][x] \in Receipt
  BY <1>8
<1>14. \A x \in DM : From[x] = u /\ H = About(x, "delivered") /\ view[u][x] # "none" =>
           view'[u][x] \in Receipt
  BY <1>7, <1>8
<1>15. /\ \A v \in User : On(inbox[v]) \subseteq On(inbox'[v])
       /\ \A v \in User : \A r \in On(inbox'[v]) : r \in On(inbox[v])
  BY <1>4
<1> HIDE DEF H
<1> QED
  BY <1>1, <1>5, <1>9, <1>10, <1>11, <1>12, <1>13, <1>14, <1>15, ReceiveMoves DEF H

\* A browser that receives a history keeps MovesOn.
LEMMA ReceiveHistoryMoves ==
    ASSUME TypeOK, HandoverInv, MovesOn, NEW u \in User, ReceiveHistory(u)
    PROVE  MovesOn'
<1> DEFINE H == Head(send[u])
<1>1. Arrives(u, "dm_history")
  BY DEF ReceiveHistory
<1>2. H \in EventsFor(u, handed, Over) /\ H.type = "dm_history"
  BY <1>1, ArrivingGood
<1>3. H.status \in [DM -> Stored]
  BY <1>2 DEF EventsFor, Event, History, Receipt
<1>4. /\ view' = [view EXCEPT ![u] = [d \in DM |->
              IF d \in Conversation(u, H.peer) THEN Merged(@[d], H.status[d]) ELSE @[d]]]
      /\ inbox' = inbox
  BY DEF ReceiveHistory
<1>5. SpeaksOf(H, Begun)
  <2>1. send[u] \in Seq(Event \cup History) /\ send[u] # <<>>
    BY <1>1 DEF TypeOK, Arrives
  <2>2. H \in On(send[u])
    BY <2>1, OnTail
  <2> QED
    BY <2>2 DEF MovesOn, AboutBegun
<1> HIDE DEF H
<1>6. \A d \in DM : H.status[d] # "none" => d \in Begun
  BY <1>2, <1>5 DEF SpeaksOf
<1>7. \A v \in User, d \in DM :
         view'[v][d] = IF v = u /\ d \in Conversation(u, H.peer)
                       THEN Merged(view[v][d], H.status[d]) ELSE view[v][d]
  BY <1>4 DEF TypeOK
<1>8. \A kept \in Shown : \A status \in Stored :
         /\ status = "none" /\ kept = "none" => Merged(kept, status) = "none"
         /\ status = "none" /\ kept = "sent" => Merged(kept, status) = "sent"
         /\ status = "none" => Merged(kept, status) \notin Receipt
         /\ status # "none" => Merged(kept, status) \in Receipt
  BY DEF Merged, Shown, Stored, Receipt
<1>9. \A v \in User, d \in DM : view[v][d] \in Shown /\ H.status[d] \in Stored
  BY <1>3 DEF TypeOK
<1>10. \A d \in DM : From[d] = u => (d \in Conversation(u, H.peer) <=> H.peer = To[d])
  BY EndsAssumption DEF Conversation
<1>11. \A v \in User, d \in DM : v # u => view'[v][d] = view[v][d]
  BY <1>7
<1>12. \A d \in DM : view'[u][d] # "none" => view[u][d] # "none" \/ d \in Begun
  <2> SUFFICES ASSUME NEW d \in DM, view'[u][d] # "none", view[u][d] = "none" PROVE d \in Begun
    OBVIOUS
  <2>1. d \in Conversation(u, H.peer) /\ Merged(view[u][d], H.status[d]) # "none"
    BY <1>7
  <2>2. H.status[d] # "none"
    BY <1>8, <1>9, <2>1
  <2> QED
    BY <1>6, <2>2
<1>13. \A d \in DM : From[d] = u => (view'[u][d] \in Receipt =>
           view[u][d] \in Receipt \/ Ticks(H, d))
  <2> SUFFICES ASSUME NEW d \in DM, view'[u][d] \in Receipt, view[u][d] \notin Receipt
               PROVE  Ticks(H, d)
    OBVIOUS
  <2>1. Merged(view[u][d], H.status[d]) \in Receipt
    BY <1>7
  <2>2. H.status[d] # "none"
    BY <1>8, <1>9, <2>1
  <2> QED
    BY <1>2, <2>2 DEF Ticks
<1>14. \A d \in DM : From[d] = u /\ view[u][d] # "none" =>
           view'[u][d] # "none" \/ (Misses(H, d) /\ view[u][d] \in Receipt)
  <2> SUFFICES ASSUME NEW d \in DM, From[d] = u, view[u][d] # "none", view'[u][d] = "none"
               PROVE  Misses(H, d) /\ view[u][d] \in Receipt
    OBVIOUS
  <2>1. d \in Conversation(u, H.peer) /\ Merged(view[u][d], H.status[d]) = "none"
    BY <1>7
  <2>2. H.status[d] = "none"
    <3>1. "none" \notin Receipt
      BY DEF Receipt
    <3> QED
      BY <1>8, <1>9, <2>1, <3>1
  <2>3. view[u][d] # "sent"
    BY <1>8, <1>9, <2>1, <2>2
  <2>4. view[u][d] \in Receipt
    BY <1>9, <2>3 DEF Shown
  <2> QED
    BY <1>2, <1>10, <2>1, <2>2, <2>4 DEF Misses
<1>15. \A d \in DM : From[d] = u /\ view[u][d] \in Receipt /\ ~Misses(H, d) =>
           view'[u][d] \in Receipt
  <2> SUFFICES ASSUME NEW d \in DM, From[d] = u, view[u][d] \in Receipt, ~Misses(H, d)
               PROVE  view'[u][d] \in Receipt
    OBVIOUS
  <2>1. CASE d \notin Conversation(u, H.peer)
    BY <1>7, <2>1
  <2>2. CASE d \in Conversation(u, H.peer)
    <3>1. H.status[d] # "none"
      BY <1>2, <1>10, <2>2 DEF Misses
    <3>2. Merged(view[u][d], H.status[d]) \in Receipt
      BY <1>8, <1>9, <3>1
    <3> QED
      BY <1>7, <2>2, <3>2
  <2> QED
    BY <2>1, <2>2
<1>16. \A d \in DM : H # About(d, "delivered")
  BY <1>2 DEF About
<1>17. /\ \A v \in User : On(inbox[v]) \subseteq On(inbox'[v])
       /\ \A v \in User : \A r \in On(inbox'[v]) : r \in On(inbox[v])
  BY <1>4
<1> QED
  BY <1>1, <1>11, <1>12, <1>13, <1>14, <1>15, <1>16, <1>17, ReceiveMoves DEF H

\* The kinds of effects, and what they are about
LEMMA EffectKinds ==
    ASSUME NEW d
    PROVE  /\ Save(d).op = "save" /\ Save(d).dm = d
           /\ \A status : Status(d, status).op = "status" /\ Status(d, status).dm = d
                          /\ Status(d, status).status = status
           /\ \A u, e : Send(u, e).op = "send" /\ Send(u, e).to = u /\ Send(u, e).event = e
           /\ \A e : Propagate(e).op = "propagate" /\ Propagate(e).event = e
           /\ \A type : About(d, type).type = type /\ About(d, type).dm = d
BY DEF Save, Status, Send, Propagate, About

\* The effects of the handlers are about DMs that were begun with.
LEMMA EffectsAbout ==
    ASSUME NEW w, NEW B, NEW d \in B
    PROVE  /\ w = From[d] \/ HomeOf(w) # SenderHome(d) => EffectAbout(w, Save(d), B)
           /\ \A status : EffectAbout(w, Status(d, status), B)
           /\ \A u, type : type # "dm_history" => EffectAbout(w, Send(u, About(d, type)), B)
           /\ w = From[d] => EffectAbout(w, Propagate(About(d, "dm")), B)
           /\ \A status \in Receipt : EffectAbout(w, Propagate(About(d, status)), B)
<1>1. ASSUME NEW type, type # "dm_history" PROVE SpeaksOf(About(d, type), B)
  <2>1. About(d, type).type = type /\ About(d, type).dm = d
    BY DEF About
  <2> QED
    BY <1>1, <2>1 DEF SpeaksOf
<1>2. w = From[d] \/ HomeOf(w) # SenderHome(d) => EffectAbout(w, Save(d), B)
  BY EffectKinds DEF EffectAbout
<1>3. \A status : EffectAbout(w, Status(d, status), B)
  BY EffectKinds DEF EffectAbout
<1>4. ASSUME NEW u, NEW type, type # "dm_history"
      PROVE  EffectAbout(w, Send(u, About(d, type)), B)
  <2> DEFINE e == About(d, type)
  <2>1. e.type = type /\ SpeaksOf(e, B)
    BY <1>1, <1>4 DEF About
  <2> HIDE DEF e
  <2>2. Send(u, e).op = "send" /\ Send(u, e).event = e
    BY DEF Send
  <2> QED
    BY <1>4, <2>1, <2>2 DEF EffectAbout, e
<1>5. ASSUME NEW type, (type = "dm" /\ w = From[d]) \/ type \in Receipt
      PROVE  EffectAbout(w, Propagate(About(d, type)), B)
  <2> DEFINE e == About(d, type)
  <2>1. type # "dm_history" /\ (type = "dm" => w = From[d])
    BY <1>5 DEF Receipt
  <2>2. e.type = type /\ e.dm = d /\ SpeaksOf(e, B)
    BY <1>1, <2>1 DEF About
  <2> HIDE DEF e
  <2>3. Propagate(e).op = "propagate" /\ Propagate(e).event = e
    BY DEF Propagate
  <2>4. EffectAbout(w, Propagate(e), B)
    BY <2>1, <2>2, <2>3 DEF EffectAbout
  <2> QED
    BY <2>4 DEF e
<1>6. w = From[d] => EffectAbout(w, Propagate(About(d, "dm")), B)
  BY <1>5
<1>7. \A status \in Receipt : EffectAbout(w, Propagate(About(d, status)), B)
  BY <1>5
<1> QED
  BY <1>2, <1>3, <1>4, <1>6, <1>7

\* What comes on a server, and on its way, may only become more.
LEMMA ComingGrows ==
    ASSUME \A w \in Worker : On(job[w]) \subseteq On(job'[w])
    PROVE  \A effect, s : Coming(effect, s) => Coming(effect, s)'
BY DEF Coming, On

\* The sender of a DM of which a copy is asked for saves it himself.
LEMMA SavesHimself ==
    ASSUME AboutBegun, NEW d \in DM, Coming(Save(d), SenderHome(d))
    PROVE  Save(d) \in On(job[From[d]])
<1>1. PICK w \in Worker : HomeOf(w) = SenderHome(d) /\ Save(d) \in On(job[w])
  BY DEF Coming
<1>2. EffectAbout(w, Save(d), Begun)
  BY <1>1 DEF AboutBegun
<1>3. w = From[d]
  BY <1>1, <1>2, EffectKinds DEF EffectAbout
<1> QED
  BY <1>1, <1>3

\* A handler that begins takes a request, and has effects that do what it asked for.
LEMMA HandleMoves ==
    ASSUME TypeOK, HandoverInv, MovesOn, NEW u \in User, NEW type, Begins(u, type),
           NEW q \in Seq(Effect), job' = [job EXCEPT ![u] = q],
           lost \subseteq lost',
           \A d \in DM \ lost' : Head(inbox[u]) = AskDM(d) => Save(d) \in On(q),
           \A effect \in On(q) : EffectAbout(u, effect, Begun'),
           q # <<>> =>
               /\ \A effect \in On(Tail(q)) : effect.op # "save"
               /\ Head(q).op = "save" => Rest(Head(q).dm) \subseteq On(Tail(q)),
           \A d \in DM \ lost' : From[d] = u =>
               \A effect \in On(q) : effect.op = "send" /\ Misses(effect.event, d) => d \notin Begun'
    PROVE  MovesOn'
<1>1. /\ job[u] = <<>> /\ inbox[u] # <<>> /\ inbox' = [inbox EXCEPT ![u] = Tail(@)]
      /\ UNCHANGED <<view, posted, stored, send, mesh, dropped>>
      /\ inbox \in [User -> Seq(Request)] /\ job \in [Worker -> Seq(Effect)]
      /\ posted \subseteq DM /\ u \in Worker
  BY DEF Begins, browserVars, TypeOK, Worker
<1>2. Begun \subseteq Begun'
  BY BeginsGood
<1>3. /\ inbox'[u] = Tail(inbox[u]) /\ \A v \in User : v # u => inbox'[v] = inbox[v]
      /\ job'[u] = q /\ \A w \in Worker : w # u => job'[w] = job[w]
  BY <1>1
<1>4. On(inbox[u]) = {Head(inbox[u])} \cup On(inbox'[u]) /\ On(job[u]) = {}
  <2>1. inbox[u] \in Seq(Request)
    BY <1>1
  <2> QED
    BY <1>1, <1>3, <2>1, OnTail, OnNone
<1>5. \A w \in Worker : On(job[w]) \subseteq On(job'[w])
  BY <1>3, <1>4
<1>6. \A effect, s : Coming(effect, s) => Coming(effect, s)'
  BY <1>5, ComingGrows
<1>7. \A d \in DM : From[d] \in User
  BY EndsAssumption
<1>8. AboutBegun'
  <2>1. \A v \in User : \A r \in On(inbox'[v]) : r \in On(inbox[v])
    BY <1>3, <1>4
  <2>2. \A w \in Worker : \A effect \in On(job'[w]) :
            effect \in On(job[w]) \/ EffectAbout(w, effect, Begun')
    BY <1>3
  <2> QED
    BY <1>1, <1>2, <2>1, <2>2, AboutKept DEF MovesOn
<1>9. SaveFirst'
  <2> SUFFICES ASSUME NEW v \in User, job'[v] # <<>>
               PROVE  /\ \A effect \in On(Tail(job'[v])) : effect.op # "save"
                      /\ Head(job'[v]).op = "save" =>
                            Rest(Head(job'[v]).dm) \subseteq On(Tail(job'[v]))
    BY DEF SaveFirst, On, Rest, SenderHome
  <2>1. CASE v = u
    BY <1>3, <2>1
  <2>2. CASE v # u
    <3>1. job'[v] = job[v]
      BY <1>3, <2>2 DEF Worker
    <3> QED
      BY <3>1 DEF MovesOn, SaveFirst
  <2> QED
    BY <2>1, <2>2
<1>10. ASSUME NEW d \in DM \ lost', Asking(d) PROVE Asking(d)'
  <2>1. CASE Coming(Save(d), SenderHome(d))
    <3>1. Coming(Save(d), SenderHome(d))'
      BY <1>6, <2>1
    <3> QED
      BY <3>1 DEF Asking
  <2>2. CASE AskDM(d) \in On(inbox[From[d]]) /\ AskDM(d) \in On(inbox'[From[d]])
    BY <2>2 DEF Asking, On
  <2>3. CASE AskDM(d) \in On(inbox[From[d]]) /\ AskDM(d) \notin On(inbox'[From[d]])
    <3>1. From[d] = u /\ Head(inbox[u]) = AskDM(d)
      BY <1>3, <1>4, <1>7, <2>3
    <3>2. Save(d) \in On(job'[u])
      BY <1>3, <3>1
    <3>3. HomeOf(u) = SenderHome(d)
      BY <3>1 DEF HomeOf, SenderHome
    <3>4. Coming(Save(d), SenderHome(d))'
      BY <1>1, <3>2, <3>3 DEF Coming, On, HomeOf
    <3> QED
      BY <3>4 DEF Asking
  <2> QED
    BY <1>10, <2>1, <2>2, <2>3 DEF Asking
<1>11. ASSUME NEW d \in posted' \ lost' PROVE Progress(d)'
  <2>1. Progress(d) /\ d \in DM \ lost'
    BY <1>1 DEF MovesOn
  <2>2. Asking(d) => Asking(d)'
    BY <1>10, <2>1
  <2>3. \A s : Passing(d, s) => Passing(d, s)'
    BY <1>1, <1>6 DEF Passing, On, SenderHome
  <2>4. Acking(d) => Acking(d)'
    BY <1>1, <1>6, <2>3 DEF Acking, On, SenderHome
  <2>5. (view[From[d]][d] # "none")' /\ (stored[SenderHome(d)][d] # "none" \/ Asking(d))'
    BY <1>1, <2>1, <2>2 DEF Progress, SenderHome
  <2>6. (\/ stored[SenderHome(d)][d] \in Receipt \/ Asking(d) \/ Acking(d)
         \/ Coming(Status(d, "delivered"), SenderHome(d)))'
    BY <1>1, <1>6, <2>1, <2>2, <2>4 DEF Progress, SenderHome
  <2>7. (\/ view[From[d]][d] \in Receipt \/ From[d] \in dropped \/ Asking(d) \/ Acking(d)
         \/ Coming(Send(From[d], About(d, "delivered")), SenderHome(d))
         \/ About(d, "delivered") \in On(send[From[d]]))'
    <3>1. \/ view[From[d]][d] \in Receipt \/ From[d] \in dropped \/ Asking(d) \/ Acking(d)
          \/ Coming(Send(From[d], About(d, "delivered")), SenderHome(d))
          \/ About(d, "delivered") \in On(send[From[d]])
      BY <2>1 DEF Progress
    <3>2. Coming(Send(From[d], About(d, "delivered")), SenderHome(d)) =>
          Coming(Send(From[d], About(d, "delivered")), SenderHome(d))'
      BY <1>6
    <3> QED
      BY <1>1, <2>2, <2>4, <3>1, <3>2 DEF On, SenderHome
  <2>8. (\A s \in Server \ {SenderHome(d)} :
            stored[s][d] # "none" \/ Asking(d) \/ Passing(d, s) \/ Coming(Save(d), s))'
    BY <1>1, <1>6, <2>1, <2>2, <2>3 DEF Progress, SenderHome
  <2> QED
    BY <2>5, <2>6, <2>7, <2>8 DEF Progress
<1>12. MissesFirst'
  <2>1. ASSUME NEW d \in DM \ lost', NEW effect \in On(job'[From[d]]),
               effect.op = "send", Misses(effect.event, d), d \in Begun'
        PROVE  FALSE
    <3>1. From[d] # u
      BY <1>3, <2>1
    <3>2. effect \in On(job[From[d]])
      BY <1>3, <1>7, <2>1, <3>1 DEF Worker
    <3>3. d \notin Begun
      BY <2>1, <3>2 DEF MovesOn, MissesFirst
    <3>4. inbox'[From[d]] = inbox[From[d]]
      BY <1>3, <1>7, <3>1
    <3> QED
      BY <1>1, <2>1, <3>3, <3>4 DEF Begun
  <2>2. \A d \in DM \ lost' : \A i \in DOMAIN send[From[d]] : Misses(send[From[d]][i], d) =>
              /\ view[From[d]][d] \notin Receipt
              /\ \A j \in 1..(i - 1) : ~Ticks(send[From[d]][j], d)
    BY DEF MovesOn, MissesFirst
  <2> QED
    BY <1>1, <2>1, <2>2 DEF MissesFirst, On
<1> QED
  BY <1>8, <1>9, <1>11, <1>12 DEF MovesOn

\* What handleDM does
LEMMA LocalOn ==
    ASSUME NEW d
    PROVE  /\ Local(d) # <<>> /\ Head(Local(d)) = Save(d)
           /\ On(Tail(Local(d))) =
                 {Send(To[d], About(d, "dm")), Status(d, "delivered"),
                  Send(From[d], About(d, "delivered")), Propagate(About(d, "dm"))}
           /\ On(Local(d)) = {Save(d)} \cup On(Tail(Local(d)))
<1> DEFINE a == Save(d)
           b == Send(To[d], About(d, "dm"))
           c == Status(d, "delivered")
           e == Send(From[d], About(d, "delivered"))
           g == Propagate(About(d, "dm"))
<1>1. Local(d) = <<a, b, c, e, g>>
  BY DEF Local
<1> HIDE DEF a, b, c, e, g
<1>2. /\ <<a, b, c, e, g>> # <<>> /\ Head(<<a, b, c, e, g>>) = a
      /\ Tail(<<a, b, c, e, g>>) = <<b, c, e, g>>
      /\ <<a, b, c, e, g>> \in Seq({a, b, c, e, g})
  OBVIOUS
<1>3. On(<<a, b, c, e, g>>) = {a} \cup On(Tail(<<a, b, c, e, g>>))
  BY <1>2, OnTail
<1>4. On(<<b, c, e, g>>) = {b, c, e, g}
  <2>1. /\ DOMAIN <<b, c, e, g>> = {1, 2, 3, 4}
        /\ <<b, c, e, g>>[1] = b /\ <<b, c, e, g>>[2] = c
        /\ <<b, c, e, g>>[3] = e /\ <<b, c, e, g>>[4] = g
    OBVIOUS
  <2> QED
    BY <2>1 DEF On
<1> QED
  BY <1>1, <1>2, <1>3, <1>4 DEF a, b, c, e, g

\* The server's handler of a DM keeps MovesOn.
LEMMA HandleDMMoves ==
    ASSUME TypeOK, TypeOK', HandoverInv, MovesOn, NEW u \in User, HandleDM(u)
    PROVE  MovesOn'
<1> DEFINE d == Head(inbox[u]).dm
           far == <<Save(d), Propagate(About(d, "dm"))>>
<1>1. Begins(u, "dm") /\ u \in Worker
  BY DEF HandleDM, Worker
<1>2. d \in DM /\ From[d] = u /\ Head(inbox[u]) = AskDM(d) /\ d \in Begun'
  BY <1>1, TakesDM
<1>3. \/ Home[To[d]] = Home[u] /\ job' = [job EXCEPT ![u] = Local(d)] /\ lost' = lost
      \/ Home[To[d]] # Home[u] /\ job' = [job EXCEPT ![u] = far] /\ lost' = lost
      \/ job' = job /\ lost' = lost \cup {d}
  BY DEF HandleDM
<1> HIDE DEF d
<1>4. \A x : Head(inbox[u]) = AskDM(x) => x = d
  BY <1>2 DEF AskDM
<1>5. /\ EffectAbout(u, Save(d), Begun')
      /\ EffectAbout(u, Send(To[d], About(d, "dm")), Begun')
      /\ EffectAbout(u, Status(d, "delivered"), Begun')
      /\ EffectAbout(u, Send(From[d], About(d, "delivered")), Begun')
      /\ EffectAbout(u, Propagate(About(d, "dm")), Begun')
  BY <1>2, EffectsAbout
<1>6. /\ Save(d).op = "save" /\ Save(d).dm = d
      /\ Send(To[d], About(d, "dm")).op = "send"
      /\ Status(d, "delivered").op = "status"
      /\ Send(From[d], About(d, "delivered")).op = "send"
      /\ Propagate(About(d, "dm")).op = "propagate"
      /\ Send(To[d], About(d, "dm")).event = About(d, "dm")
      /\ Send(From[d], About(d, "delivered")).event = About(d, "delivered")
  BY DEF Save, Send, Status, Propagate
<1>7. \A x : ~Misses(About(d, "dm"), x) /\ ~Misses(About(d, "delivered"), x)
  BY DEF Misses, About
<1>8. Rest(d) = {Propagate(About(d, "dm"))} \cup
          (IF Home[To[d]] = Home[u]
           THEN {Status(d, "delivered"), Send(From[d], About(d, "delivered"))} ELSE {})
  BY <1>2 DEF Rest, SenderHome
<1>9. \A w \in Worker : job'[w] \in Seq(Effect)
  BY DEF TypeOK
<1>10. CASE Home[To[d]] = Home[u] /\ job' = [job EXCEPT ![u] = Local(d)] /\ lost' = lost
  <2> DEFINE q == Local(d)
  <2>1. /\ q # <<>> /\ Head(q) = Save(d)
        /\ On(Tail(q)) = {Send(To[d], About(d, "dm")), Status(d, "delivered"),
                  Send(From[d], About(d, "delivered")), Propagate(About(d, "dm"))}
        /\ On(q) = {Save(d)} \cup On(Tail(q))
    BY LocalOn
  <2> HIDE DEF q
  <2>2. job' = [job EXCEPT ![u] = q] /\ lost' = lost
    BY <1>10 DEF q
  <2>3. q \in Seq(Effect)
    BY <1>1, <1>9, <2>2 DEF TypeOK
  <2>4. \A x \in DM \ lost' : Head(inbox[u]) = AskDM(x) => Save(x) \in On(q)
    BY <1>4, <2>1
  <2>5. \A effect \in On(q) : EffectAbout(u, effect, Begun')
    BY <1>5, <2>1
  <2>6. /\ \A effect \in On(Tail(q)) : effect.op # "save"
        /\ Rest(Head(q).dm) \subseteq On(Tail(q))
    <3>1. Head(q).dm = d
      BY <1>6, <2>1
    <3>2. Rest(d) \subseteq On(Tail(q))
      BY <1>8, <2>1
    <3>3. \A effect \in On(Tail(q)) : effect.op # "save"
      BY <1>6, <2>1
    <3> QED
      BY <3>1, <3>2, <3>3
  <2>7. \A x : \A effect \in On(q) : ~(effect.op = "send" /\ Misses(effect.event, x))
    BY <1>6, <1>7, <2>1
  <2> QED
    BY <1>1, <2>2, <2>3, <2>4, <2>5, <2>6, <2>7, HandleMoves
<1>11. CASE Home[To[d]] # Home[u] /\ job' = [job EXCEPT ![u] = far] /\ lost' = lost
  <2>1. /\ far # <<>> /\ Head(far) = Save(d)
        /\ On(Tail(far)) = {Propagate(About(d, "dm"))}
        /\ On(far) = {Save(d)} \cup On(Tail(far))
    <3> DEFINE a == Save(d)
               b == Propagate(About(d, "dm"))
    <3> HIDE DEF a, b
    <3>1. <<a, b>> # <<>> /\ Head(<<a, b>>) = a /\ Tail(<<a, b>>) = <<b>>
      OBVIOUS
    <3>2. On(<<a, b>>) = {a, b} /\ On(<<b>>) = {b}
      BY OnFew
    <3> QED
      BY <3>1, <3>2 DEF a, b
  <2> HIDE DEF far
  <2>2. far \in Seq(Effect)
    BY <1>1, <1>9, <1>11 DEF TypeOK
  <2>3. \A x \in DM \ lost' : Head(inbox[u]) = AskDM(x) => Save(x) \in On(far)
    BY <1>4, <2>1
  <2>4. \A effect \in On(far) : EffectAbout(u, effect, Begun')
    BY <1>5, <2>1
  <2>5. /\ \A effect \in On(Tail(far)) : effect.op # "save"
        /\ Rest(Head(far).dm) \subseteq On(Tail(far))
    <3>1. Head(far).dm = d
      BY <1>6, <2>1
    <3>2. Rest(d) \subseteq On(Tail(far))
      BY <1>8, <1>11, <2>1
    <3>3. \A effect \in On(Tail(far)) : effect.op # "save"
      BY <1>6, <2>1
    <3> QED
      BY <3>1, <3>2, <3>3
  <2>6. \A x : \A effect \in On(far) : ~(effect.op = "send" /\ Misses(effect.event, x))
    BY <1>6, <1>7, <2>1
  <2> QED
    BY <1>1, <1>11, <2>2, <2>3, <2>4, <2>5, <2>6, HandleMoves
<1>12. CASE job' = job /\ lost' = lost \cup {d}
  <2> DEFINE q == <<>>
  <2>1. job[u] = <<>> /\ job \in [Worker -> Seq(Effect)]
    BY <1>1 DEF Begins, TypeOK
  <2>2. job' = [job EXCEPT ![u] = q]
    BY <1>1, <1>12, <2>1
  <2>3. q \in Seq(Effect) /\ On(q) = {} /\ q = <<>>
    BY OnNone
  <2> HIDE DEF q
  <2>4. \A x \in DM \ lost' : Head(inbox[u]) = AskDM(x) => Save(x) \in On(q)
    BY <1>4, <1>12
  <2>5. lost \subseteq lost'
    BY <1>12
  <2> QED
    BY <1>1, <2>2, <2>3, <2>4, <2>5, HandleMoves
<1> QED
  BY <1>3, <1>10, <1>11, <1>12

\* A throttled request keeps MovesOn.
LEMMA ThrottledMoves ==
    ASSUME TypeOK, HandoverInv, MovesOn, NEW u \in User, Throttled(u)
    PROVE  MovesOn'
<1>1. PICK type : Begins(u, type)
  BY DEF Throttled
<1> DEFINE q == <<>>
<1>2. job[u] = <<>> /\ job \in [Worker -> Seq(Effect)] /\ u \in Worker
  BY <1>1 DEF Begins, TypeOK, Worker
<1>3. job' = [job EXCEPT ![u] = q] /\ lost \subseteq lost'
  BY <1>2 DEF Throttled
<1>4. q \in Seq(Effect) /\ On(q) = {} /\ q = <<>>
  BY OnNone
<1> HIDE DEF q
<1>5. \A x \in DM : Head(inbox[u]) = AskDM(x) => x \in lost'
  BY DEF Throttled, AskDM
<1> QED
  BY <1>1, <1>3, <1>4, <1>5, HandleMoves

\* What a receipt brings about
LEMMA ReceiptedOn ==
    ASSUME NEW s, NEW d, NEW status
    PROVE  /\ Receipted(s, d, status) \in Seq({Status(d, status), Send(From[d], About(d, status))})
           /\ Status(d, status) \in On(Receipted(s, d, status))
           /\ Home[From[d]] = s => Send(From[d], About(d, status)) \in On(Receipted(s, d, status))
<1> DEFINE a == Status(d, status)
           b == Send(From[d], About(d, status))
<1> HIDE DEF a, b
<1>1. Receipted(s, d, status) = IF Home[From[d]] = s THEN <<a, b>> ELSE <<a>>
  BY DEF Receipted, a, b
<1>2. <<a, b>> \in Seq({a, b}) /\ <<a>> \in Seq({a, b})
  OBVIOUS
<1>3. On(<<a, b>>) = {a, b} /\ On(<<a>>) = {a}
  BY OnFew
<1> QED
  BY <1>1, <1>2, <1>3 DEF a, b

\* The server's handler of a receipt keeps MovesOn.
LEMMA HandleReceiptMoves ==
    ASSUME TypeOK, TypeOK', HandoverInv, MovesOn, NEW u \in User, HandleDeliveryReceipt(u)
    PROVE  MovesOn'
<1> DEFINE r == Head(inbox[u])
           d == r.dm
           p == Receipted(Home[u], d, "read")
           c == Propagate(About(d, "read"))
           q == Append(p, c)
           S == {Status(d, "read"), Send(From[d], About(d, "read"))}
<1>1. Begins(u, "read") /\ u \in Worker /\ job' = [job EXCEPT ![u] = q]
      /\ lost' = lost
  BY DEF HandleDeliveryReceipt, Worker
<1>2. /\ inbox[u] \in Seq(Request) /\ inbox[u] # <<>> /\ r \in Request /\ r.type = "read"
      /\ Begun \subseteq Begun'
  BY <1>1, BeginsGood
<1>3. d \in Begun'
  <2>1. r \in On(inbox[u])
    BY <1>2, OnTail
  <2> QED
    BY <1>2, <2>1 DEF MovesOn, AboutBegun
<1>4. \A x : r # AskDM(x)
  BY <1>2 DEF AskDM
<1> HIDE DEF r, d
<1>5. p \in Seq(S)
  BY ReceiptedOn
<1>6. On(q) \subseteq S \cup {c} /\ q # <<>> /\ On(Tail(q)) \subseteq S \cup {c}
      /\ Head(q) \in S \cup {c}
  <2> HIDE DEF p, c, S
  <2>1. On(p) \subseteq S
    BY <1>5, OnType
  <2>2. On(q) = On(p) \cup {c}
    BY <1>5, OnAppend
  <2>3. q # <<>> /\ q \in Seq(S \cup {c})
    BY <1>5
  <2>4. On(q) = {Head(q)} \cup On(Tail(q))
    <3> HIDE DEF q
    <3> QED
      BY <2>3, OnTail
  <2> QED
    BY <2>1, <2>2, <2>3, <2>4
<1>7. \A effect \in S \cup {c} : effect.op # "save"
  BY DEF Status, Send, Propagate
<1>8. \A x : \A effect \in S \cup {c} : ~(effect.op = "send" /\ Misses(effect.event, x))
  BY DEF Status, Send, Propagate, Misses, About
<1>9. \A effect \in S \cup {c} : EffectAbout(u, effect, Begun')
  <2>1. EffectAbout(u, Status(d, "read"), Begun')
    BY <1>3, EffectsAbout
  <2>2. EffectAbout(u, Send(From[d], About(d, "read")), Begun')
    BY <1>3, EffectsAbout
  <2>3. EffectAbout(u, c, Begun')
    BY <1>3, EffectsAbout DEF Receipt
  <2> QED
    BY <2>1, <2>2, <2>3
<1>10. q \in Seq(Effect)
  <2>1. job'[u] \in Seq(Effect)
    BY <1>1 DEF TypeOK
  <2> HIDE DEF q
  <2> QED
    BY <1>1, <2>1 DEF TypeOK
<1> HIDE DEF q, S, c, p
<1>11. \A x \in DM \ lost' : Head(inbox[u]) = AskDM(x) => Save(x) \in On(q)
  BY <1>4 DEF r
<1>12. /\ \A effect \in On(Tail(q)) : effect.op # "save"
       /\ Head(q).op # "save"
  BY <1>6, <1>7
<1>13. \A effect \in On(q) : EffectAbout(u, effect, Begun')
  BY <1>6, <1>9
<1>14. \A x : \A effect \in On(q) : ~(effect.op = "send" /\ Misses(effect.event, x))
  BY <1>6, <1>8
<1> QED
  BY <1>1, <1>10, <1>11, <1>12, <1>13, <1>14, HandleMoves

\* The server's handler of a history request keeps MovesOn.
LEMMA HandleHistoryMoves ==
    ASSUME TypeOK, TypeOK', HandoverInv, MovesOn, NEW u \in User, HandleGetDMHistory(u)
    PROVE  MovesOn'
<1> DEFINE r == Head(inbox[u])
           peer == r.peer
           status == [d \in DM |-> IF d \in Conversation(u, peer) THEN stored[Home[u]][d] ELSE "none"]
           h == [type |-> "dm_history", peer |-> peer, status |-> status]
           q == IF \A d \in DM : status[d] = "none" THEN <<>> ELSE <<Send(u, h)>>
<1>1. /\ Begins(u, "get_dm_history") /\ u \in Worker /\ Home[u] \in Server
      /\ job' = [job EXCEPT ![u] = q] /\ lost' = lost /\ job[u] = <<>>
  BY HomeAssumption DEF HandleGetDMHistory, Worker, Begins
<1>2. /\ inbox[u] \in Seq(Request) /\ inbox[u] # <<>> /\ r.type = "get_dm_history"
      /\ inbox'[u] = Tail(inbox[u]) /\ posted' = posted /\ Begun \subseteq Begun'
  BY <1>1, BeginsGood
<1>3. \A x : r # AskDM(x)
  BY <1>2 DEF AskDM
<1>4. \A d \in DM : status[d] # "none" => d \in Begun
  BY <1>1 DEF HandoverInv, HasIt
<1>5. h.type = "dm_history" /\ h.status = status /\ h.peer = peer
  OBVIOUS
<1>6. ASSUME NEW d \in DM \ lost, From[d] = u, Misses(h, d), d \in Begun'
      PROVE  FALSE
  <2>1. To[d] = peer /\ status[d] = "none"
    BY <1>6 DEF Misses
  <2>2. stored[Home[u]][d] = "none"
    BY <1>6, <2>1 DEF Conversation
  <2>3. d \in posted /\ AskDM(d) \notin On(inbox'[u])
    BY <1>2, <1>6 DEF Begun, On
  <2>4. AskDM(d) \notin On(inbox[u])
    <3>1. On(inbox[u]) = {r} \cup On(inbox'[u])
      BY <1>2, OnTail
    <3> QED
      BY <1>3, <2>3, <3>1
  <2>5. Asking(d)
    BY <1>6, <2>2, <2>3 DEF MovesOn, Progress, SenderHome
  <2>6. Coming(Save(d), SenderHome(d))
    BY <1>6, <2>4, <2>5 DEF Asking
  <2>7. Save(d) \in On(job[u])
    BY <1>6, <2>6, SavesHimself DEF MovesOn
  <2> QED
    BY <1>1, <2>7, OnNone
<1> HIDE DEF h, status, r, peer
<1>7. EffectAbout(u, Send(u, h), Begun')
  <2>1. Send(u, h).op = "send" /\ Send(u, h).to = u /\ Send(u, h).event = h
    BY DEF Send
  <2>2. SpeaksOf(h, Begun')
    BY <1>2, <1>4, <1>5 DEF SpeaksOf
  <2> QED
    BY <2>1, <2>2 DEF EffectAbout
<1>8. On(q) \subseteq {Send(u, h)} /\ (q # <<>> => On(Tail(q)) = {} /\ Head(q) = Send(u, h))
  <2> DEFINE a == Send(u, h)
  <2> HIDE DEF a
  <2>1. On(<<a>>) = {a} /\ Tail(<<a>>) = <<>> /\ Head(<<a>>) = a /\ On(<<>>) = {}
    BY OnFew, OnNone
  <2>2. q = <<>> \/ q = <<a>>
    BY DEF a
  <2> HIDE DEF q
  <2> QED
    BY <2>1, <2>2 DEF a
<1>9. q \in Seq(Effect)
  <2>1. job'[u] \in Seq(Effect)
    BY <1>1 DEF TypeOK
  <2> HIDE DEF q
  <2> QED
    BY <1>1, <2>1 DEF TypeOK
<1>10. Send(u, h).op = "send" /\ Send(u, h).event = h
  BY DEF Send
<1> HIDE DEF q
<1>11. \A x \in DM \ lost' : Head(inbox[u]) = AskDM(x) => Save(x) \in On(q)
  BY <1>3 DEF r
<1>12. \A effect \in On(q) : EffectAbout(u, effect, Begun')
  BY <1>7, <1>8
<1>13. \A d \in DM \ lost' : From[d] = u =>
           \A effect \in On(q) : effect.op = "send" /\ Misses(effect.event, d) => d \notin Begun'
  BY <1>1, <1>6, <1>8, <1>10
<1>14. q # <<>> => /\ \A effect \in On(Tail(q)) : effect.op # "save"
                   /\ Head(q).op # "save"
  BY <1>8, <1>10
<1> QED
  BY <1>1, <1>9, <1>11, <1>12, <1>13, <1>14, HandleMoves

\* The handler of a DM from another server keeps MovesOn.
LEMMA InjectMoves ==
    ASSUME TypeOK, MovesOn, NEW l \in Link, InjectFromMesh(l)
    PROVE  MovesOn'
<1> DEFINE e == Head(mesh[l])
           x == e.dm
           q == IF e.type # "dm" THEN Receipted(l[2], x, e.type)
                ELSE IF Home[To[x]] # l[2] THEN <<Save(x)>>
                ELSE Injected(x)
<1>1. /\ job[l] = <<>> /\ mesh[l] # <<>> /\ mesh' = [mesh EXCEPT ![l] = Tail(@)]
      /\ job' = [job EXCEPT ![l] = q]
      /\ UNCHANGED <<view, posted, inbox, stored, send, lost, dropped>>
      /\ mesh \in [Link -> Seq(Event)] /\ job \in [Worker -> Seq(Effect)]
      /\ posted \subseteq DM /\ l \in Worker
  BY DEF InjectFromMesh, browserVars, TypeOK, Worker
<1>2. /\ l \notin User /\ HomeOf(l) = l[2] /\ l[1] # l[2] /\ l[1] \in Server /\ l[2] \in Server
      /\ l = <<l[1], l[2]>>
  <2>1. l \in Server \X Server
    BY DEF Link
  <2> QED
    BY <2>1, UserAssumption DEF Link, HomeOf
<1>3. /\ e \in Event
      /\ On(mesh[l]) = {e} \cup On(mesh'[l]) /\ \A k \in Link : k # l => mesh'[k] = mesh[k]
  <2>1. mesh[l] \in Seq(Event)
    BY <1>1
  <2>2. mesh'[l] = Tail(mesh[l])
    BY <1>1
  <2> QED
    BY <1>1, <2>1, <2>2, OnTail
<1>4. x \in Begun /\ (e.type = "dm" => l[1] = SenderHome(x))
  BY <1>3 DEF MovesOn, AboutBegun
<1>5. /\ job'[l] = q /\ \A w \in Worker : w # l => job'[w] = job[w]
      /\ \A u \in User : u \in Worker /\ job'[u] = job[u]
  BY <1>1, <1>2 DEF Worker
<1>6. Begun' = Begun
  BY <1>1, BegunSame
<1>7. e.type \in {"dm"} \cup Receipt /\ e = About(x, e.type)
  BY <1>3 DEF Event, About
\* The effects, and what they are about
<1>8. /\ e.type = "dm" => Save(x) \in On(q)
      /\ e.type = "dm" /\ Home[To[x]] = l[2] => Propagate(About(x, "delivered")) \in On(q)
      /\ e.type \in Receipt => Status(x, e.type) \in On(q)
      /\ e.type \in Receipt /\ Home[From[x]] = l[2] => Send(From[x], About(x, e.type)) \in On(q)
      /\ \A effect \in On(q) : EffectAbout(l, effect, Begun)
  <2> HIDE DEF e, x
  <2>1. CASE e.type = "dm"
    <3> DEFINE a == Send(To[x], About(x, "dm"))
               b == Propagate(About(x, "delivered"))
               c == Save(x)
    <3>1. EffectAbout(l, a, Begun) /\ EffectAbout(l, b, Begun) /\ EffectAbout(l, c, Begun)
      <4>1. HomeOf(l) # SenderHome(x)
        BY <1>2, <1>4, <2>1
      <4>2. EffectAbout(l, a, Begun)
        BY <1>4, EffectsAbout
      <4>3. EffectAbout(l, b, Begun)
        BY <1>4, EffectsAbout DEF Receipt
      <4>4. EffectAbout(l, c, Begun)
        BY <1>4, <4>1, EffectsAbout
      <4> QED
        BY <4>2, <4>3, <4>4
    <3>2. q = IF Home[To[x]] # l[2] THEN <<c>> ELSE <<a, b, c>>
      <4>1. Injected(x) = <<a, b, c>>
        BY DEF Injected
      <4>2. q = IF Home[To[x]] # l[2] THEN <<c>> ELSE Injected(x)
        BY <2>1
      <4> HIDE DEF q, a, b, c
      <4> QED
        BY <4>1, <4>2
    <3> HIDE DEF a, b, c
    <3>3. On(<<c>>) = {c} /\ On(<<a, b, c>>) = {a, b, c}
      <4> HIDE DEF q
      <4>1. On(<<c>>) = {c}
        <5>1. DOMAIN <<c>> = {1} /\ <<c>>[1] = c
          OBVIOUS
        <5> QED
          BY <5>1 DEF On
      <4>2. On(<<a, b, c>>) = {a, b, c}
        <5>1. DOMAIN <<a, b, c>> = {1, 2, 3}
          OBVIOUS
        <5>2. <<a, b, c>>[1] = a /\ <<a, b, c>>[2] = b /\ <<a, b, c>>[3] = c
          OBVIOUS
        <5> QED
          BY <5>1, <5>2 DEF On
      <4> QED
        BY <4>1, <4>2
    <3>4. Save(x) \in On(q) /\ \A effect \in On(q) : EffectAbout(l, effect, Begun)
      <4> HIDE DEF q
      <4> QED
        BY <3>1, <3>2, <3>3 DEF c
    <3>5. Home[To[x]] = l[2] => Propagate(About(x, "delivered")) \in On(q)
      <4> HIDE DEF q
      <4> QED
        BY <3>2, <3>3 DEF b
    <3>6. e.type \notin Receipt
      BY <2>1 DEF Receipt
    <3> HIDE DEF q
    <3> QED
      BY <3>4, <3>5, <3>6
  <2>2. CASE e.type # "dm"
    <3>1. e.type \in Receipt /\ q = Receipted(l[2], x, e.type)
      BY <1>7, <2>2
    <3>2. /\ q \in Seq({Status(x, e.type), Send(From[x], About(x, e.type))})
          /\ Status(x, e.type) \in On(q)
          /\ Home[From[x]] = l[2] => Send(From[x], About(x, e.type)) \in On(q)
      BY <3>1, ReceiptedOn
    <3> HIDE DEF q
    <3>3. EffectAbout(l, Status(x, e.type), Begun)
      BY <1>4, EffectsAbout
    <3>4. EffectAbout(l, Send(From[x], About(x, e.type)), Begun)
      <4>1. e.type # "dm_history"
        BY <3>1 DEF Receipt
      <4> QED
        BY <1>4, <4>1, EffectsAbout
    <3>5. \A effect \in On(q) : EffectAbout(l, effect, Begun)
      BY <3>2, <3>3, <3>4, OnType
    <3> QED
      BY <2>2, <3>2, <3>5
  <2> QED
    BY <2>1, <2>2
<1> HIDE DEF e, x, q
<1>9. On(job[l]) = {}
  BY <1>1, OnNone
<1>10. \A effect, s : Coming(effect, s) => Coming(effect, s)'
  <2>1. \A w \in Worker : On(job[w]) \subseteq On(job'[w])
    BY <1>5, <1>9
  <2> QED
    BY <2>1, ComingGrows
<1>11. \A effect \in On(q) : Coming(effect, l[2])'
  <2>1. l \in Worker /\ HomeOf(l) = l[2] /\ On(q) = On(job'[l])
    BY <1>1, <1>2, <1>5
  <2> QED
    BY <2>1 DEF Coming
<1>12. AboutBegun'
  <2>1. \A k \in Link : \A y \in On(mesh'[k]) : y \in On(mesh[k])
    BY <1>3
  <2>2. \A w \in Worker : \A effect \in On(job'[w]) :
            effect \in On(job[w]) \/ EffectAbout(w, effect, Begun')
    BY <1>5, <1>6, <1>8
  <2> QED
    BY <1>1, <1>6, <2>1, <2>2, AboutKept DEF MovesOn
<1>13. SaveFirst'
  <2> SUFFICES ASSUME NEW v \in User, job'[v] # <<>>
               PROVE  /\ \A effect \in On(Tail(job'[v])) : effect.op # "save"
                      /\ Head(job'[v]).op = "save" =>
                            Rest(Head(job'[v]).dm) \subseteq On(Tail(job'[v]))
    BY DEF SaveFirst, On, Rest, SenderHome
  <2>1. job'[v] = job[v]
    BY <1>5
  <2> QED
    BY <2>1 DEF MovesOn, SaveFirst
\* What leaves the link is with the handler.
<1>14. ASSUME NEW k \in Link, NEW y \in On(mesh[k])
       PROVE  y \in On(mesh'[k]) \/ (k = l /\ y = e)
  BY <1>3, <1>14
<1>15. ASSUME NEW d \in posted' \ lost' PROVE Progress(d)'
  <2> DEFINE h == SenderHome(d)
             k == Home[To[d]]
  <2>1. Progress(d) /\ d \in DM /\ h \in Server /\ k \in Server
    BY <1>1, EndsAssumption, HomeAssumption DEF MovesOn, SenderHome
  <2>2. Asking(d) => Asking(d)'
    BY <1>1, <1>10 DEF Asking, On, SenderHome
  <2>3. \A s \in Server \ {h} : Passing(d, s) =>
            \/ Passing(d, s)'
            \/ l = <<h, s>> /\ e = About(d, "dm")
    <3> SUFFICES ASSUME NEW s \in Server \ {h}, Passing(d, s)
                 PROVE  Passing(d, s)' \/ (l = <<h, s>> /\ e = About(d, "dm"))
      OBVIOUS
    <3>1. <<h, s>> \in Link
      BY <2>1 DEF Link
    <3>2. CASE Coming(Propagate(About(d, "dm")), h)
      <4>1. Coming(Propagate(About(d, "dm")), h)'
        BY <1>10, <3>2
      <4> QED
        BY <4>1 DEF Passing, SenderHome
    <3>3. CASE About(d, "dm") \in On(mesh[<<h, s>>])
      <4>1. About(d, "dm") \in On(mesh'[<<h, s>>]) \/ (l = <<h, s>> /\ e = About(d, "dm"))
        BY <1>14, <3>1, <3>3
      <4> QED
        BY <4>1 DEF Passing, On, SenderHome
    <3> QED
      BY <3>2, <3>3 DEF Passing
  <2>4. e = About(d, "dm") => x = d /\ e.type = "dm"
    BY DEF About, x
  <2>5. e = About(d, "delivered") => x = d /\ e.type = "delivered" /\ e.type \in Receipt
    BY DEF About, x, Receipt
  <2>6. \A s \in Server \ {h} : Passing(d, s) => Passing(d, s)' \/ Coming(Save(d), s)'
    <3> SUFFICES ASSUME NEW s \in Server, l = <<h, s>>, e = About(d, "dm")
                 PROVE  Coming(Save(d), s)'
      BY <2>3
    <3>1. Save(d) \in On(q) /\ l[2] = s
      BY <1>8, <2>4
    <3> QED
      BY <1>11, <3>1
  <2>7. Acking(d) =>
            \/ Acking(d)'
            \/ Coming(Status(d, "delivered"), h)' /\ Coming(Send(From[d], About(d, "delivered")), h)'
    <3> SUFFICES ASSUME Acking(d)
                 PROVE  \/ Acking(d)'
                        \/ /\ Coming(Status(d, "delivered"), h)'
                           /\ Coming(Send(From[d], About(d, "delivered")), h)'
      OBVIOUS
    <3>1. k # h /\ <<k, h>> \in Link
      BY <2>1 DEF Acking, Link
    <3>2. CASE Passing(d, k)
      <4>1. CASE Passing(d, k)'
        BY <3>1, <4>1 DEF Acking, SenderHome
      <4>2. CASE l = <<h, k>> /\ e = About(d, "dm")
        <5>1. l[2] = k /\ Propagate(About(d, "delivered")) \in On(q)
          BY <1>8, <2>4, <4>2
        <5>2. Coming(Propagate(About(d, "delivered")), k)'
          BY <1>11, <5>1
        <5> QED
          BY <3>1, <5>2 DEF Acking, SenderHome
      <4> QED
        BY <2>1, <2>3, <3>1, <3>2, <4>1, <4>2
    <3>3. CASE Coming(Propagate(About(d, "delivered")), k)
      <4>1. Coming(Propagate(About(d, "delivered")), k)'
        BY <1>10, <3>3
      <4> QED
        BY <3>1, <4>1 DEF Acking, SenderHome
    <3>4. CASE About(d, "delivered") \in On(mesh[<<k, h>>])
      <4>1. CASE About(d, "delivered") \in On(mesh'[<<k, h>>])
        BY <3>1, <4>1 DEF Acking, On, SenderHome
      <4>2. CASE l = <<k, h>> /\ e = About(d, "delivered")
        <5>1. l[2] = h /\ Home[From[d]] = h
          BY <4>2 DEF SenderHome
        <5>2. Status(d, "delivered") \in On(q) /\ Send(From[d], About(d, "delivered")) \in On(q)
          BY <1>8, <2>5, <4>2, <5>1
        <5> QED
          BY <1>11, <5>1, <5>2
      <4> QED
        BY <1>14, <3>1, <3>4, <4>1, <4>2
    <3>5. CASE ~Linked(d)
      BY <3>1, <3>5 DEF Acking, Linked, SenderHome
    <3> QED
      BY <3>2, <3>3, <3>4, <3>5 DEF Acking
  <2>8. (view[From[d]][d] # "none")' /\ (stored[SenderHome(d)][d] # "none" \/ Asking(d))'
    BY <1>1, <2>1, <2>2 DEF Progress, SenderHome
  <2>9. (\/ stored[SenderHome(d)][d] \in Receipt \/ Asking(d) \/ Acking(d)
         \/ Coming(Status(d, "delivered"), SenderHome(d)))'
    BY <1>1, <1>10, <2>1, <2>2, <2>7 DEF Progress, SenderHome
  <2>10. (\/ view[From[d]][d] \in Receipt \/ From[d] \in dropped \/ Asking(d) \/ Acking(d)
          \/ Coming(Send(From[d], About(d, "delivered")), SenderHome(d))
          \/ About(d, "delivered") \in On(send[From[d]]))'
    <3>1. \/ view[From[d]][d] \in Receipt \/ From[d] \in dropped \/ Asking(d) \/ Acking(d)
          \/ Coming(Send(From[d], About(d, "delivered")), SenderHome(d))
          \/ About(d, "delivered") \in On(send[From[d]])
      BY <2>1 DEF Progress
    <3>2. Coming(Send(From[d], About(d, "delivered")), SenderHome(d)) =>
          Coming(Send(From[d], About(d, "delivered")), h)'
      BY <1>10
    <3> QED
      BY <1>1, <2>2, <2>7, <3>1, <3>2 DEF On, SenderHome
  <2>11. (\A s \in Server \ {SenderHome(d)} :
              stored[s][d] # "none" \/ Asking(d) \/ Passing(d, s) \/ Coming(Save(d), s))'
    <3>1. \A s \in Server \ {h} :
              stored[s][d] # "none" \/ Asking(d) \/ Passing(d, s) \/ Coming(Save(d), s)
      BY <2>1 DEF Progress
    <3> QED
      BY <1>1, <1>10, <2>2, <2>6, <3>1 DEF SenderHome
  <2> QED
    BY <2>8, <2>9, <2>10, <2>11 DEF Progress
<1>16. MissesFirst'
  <2>1. \A d \in DM \ lost' : \A effect \in On(job'[From[d]]) :
            effect.op = "send" /\ Misses(effect.event, d) => d \notin Begun'
    BY <1>1, <1>5, <1>6, EndsAssumption DEF MovesOn, MissesFirst
  <2>2. \A d \in DM \ lost' : \A i \in DOMAIN send[From[d]] : Misses(send[From[d]][i], d) =>
              /\ view[From[d]][d] \notin Receipt
              /\ \A j \in 1..(i - 1) : ~Ticks(send[From[d]][j], d)
    BY <1>1 DEF MovesOn, MissesFirst
  <2> QED
    BY <1>1, <2>1, <2>2 DEF MissesFirst, On
<1> QED
  BY <1>12, <1>13, <1>15, <1>16 DEF MovesOn

\* An effect is done, and only this one.
LEMMA WorkOn ==
    ASSUME TypeOK, AboutBegun, NEW w \in Worker, NEW op, Does(w, op),
           NEW x, x = Head(job[w])
    PROVE  /\ x \in Effect /\ x.op = op /\ On(job[w]) = {x} \cup On(job'[w])
           /\ job[w] # <<>> /\ job'[w] = Tail(job[w]) /\ job[w] \in Seq(Effect)
           /\ \A v \in Worker : v # w => job'[v] = job[v]
           /\ \A v \in Worker : On(job'[v]) \subseteq On(job[v])
           /\ UNCHANGED <<view, posted, inbox>> /\ Begun' = Begun
           /\ EffectAbout(w, x, Begun)
           /\ \A effect, s : Coming(effect, s) =>
                 Coming(effect, s)' \/ (HomeOf(w) = s /\ effect = x)
<1>1. /\ job[w] # <<>> /\ job \in [Worker -> Seq(Effect)]
      /\ job' = [job EXCEPT ![w] = Tail(@)] /\ x.op = op
      /\ UNCHANGED <<view, posted, inbox>>
  BY DEF Does, browserVars, TypeOK
<1>2. /\ job'[w] = Tail(job[w]) /\ job[w] \in Seq(Effect)
      /\ \A v \in Worker : v # w => job'[v] = job[v]
  BY <1>1
<1>3. On(job[w]) = {x} \cup On(job'[w]) /\ x \in Effect
  BY <1>1, <1>2, OnTail
<1>4. \A v \in Worker : On(job'[v]) \subseteq On(job[v])
  BY <1>2, <1>3
<1>5. Begun' = Begun
  BY <1>1, BegunSame
<1>6. EffectAbout(w, x, Begun)
  BY <1>3 DEF AboutBegun
<1>7. ASSUME NEW effect, NEW s, Coming(effect, s), ~(HomeOf(w) = s /\ effect = x)
      PROVE  Coming(effect, s)'
  <2>1. PICK v \in Worker : HomeOf(v) = s /\ effect \in On(job[v])
    BY <1>7 DEF Coming
  <2>2. effect \in On(job'[v])
    BY <1>2, <1>3, <1>7, <2>1
  <2> QED
    BY <2>1, <2>2 DEF Coming, On, HomeOf
<1> QED
  BY <1>1, <1>2, <1>3, <1>4, <1>5, <1>6, <1>7

\* An effect keeps MovesOn if what it puts on wires does.
LEMMA WorkMoves ==
    ASSUME TypeOK, MovesOn, NEW w \in Worker, NEW op, Does(w, op), lost \subseteq lost',
           \A u \in User : \A e \in On(send'[u]) : e \in On(send[u]) \/ SpeaksOf(e, Begun),
           \A l \in Link : \A e \in On(mesh'[l]) :
               e \in On(mesh[l]) \/ (e.dm \in Begun /\ (e.type = "dm" => l[1] = SenderHome(e.dm))),
           \A d \in posted \ lost' : Progress(d)',
           \A d \in DM \ lost' : \A i \in DOMAIN send'[From[d]] :
               Misses(send'[From[d]][i], d) =>
                   /\ view[From[d]][d] \notin Receipt
                   /\ \A j \in 1..(i - 1) : ~Ticks(send'[From[d]][j], d)
    PROVE  MovesOn'
<1> DEFINE x == Head(job[w])
<1>1. /\ On(job[w]) = {x} \cup On(job'[w])
      /\ job[w] # <<>> /\ job'[w] = Tail(job[w]) /\ job[w] \in Seq(Effect)
      /\ \A v \in Worker : v # w => job'[v] = job[v]
      /\ \A v \in Worker : On(job'[v]) \subseteq On(job[v])
      /\ UNCHANGED <<view, posted, inbox>> /\ Begun' = Begun
  BY WorkOn DEF MovesOn
<1> HIDE DEF x
<1>2. AboutBegun'
  <2>1. \A u \in User : \A e \in On(send'[u]) : e \in On(send[u]) \/ SpeaksOf(e, Begun')
    BY <1>1
  <2>2. \A l \in Link : \A e \in On(mesh'[l]) :
            e \in On(mesh[l]) \/ (e.dm \in Begun' /\ (e.type = "dm" => l[1] = SenderHome(e.dm)))
    BY <1>1
  <2>3. \A v \in Worker : \A effect \in On(job'[v]) : effect \in On(job[v])
    BY <1>1
  <2> QED
    BY <1>1, <2>1, <2>2, <2>3, AboutKept DEF MovesOn
<1>3. SaveFirst'
  <2> SUFFICES ASSUME NEW v \in User, job'[v] # <<>>
               PROVE  /\ \A effect \in On(Tail(job'[v])) : effect.op # "save"
                      /\ Head(job'[v]).op = "save" =>
                            Rest(Head(job'[v]).dm) \subseteq On(Tail(job'[v]))
    BY DEF SaveFirst, On, Rest, SenderHome
  <2>1. v \in Worker
    BY DEF Worker
  <2>2. CASE v # w
    <3>1. job'[v] = job[v]
      BY <1>1, <2>1, <2>2
    <3> QED
      BY <3>1 DEF MovesOn, SaveFirst
  <2>3. CASE v = w
    <3>1. job'[w] \in Seq(Effect) /\ job'[w] # <<>>
      <4>1. Tail(job[w]) \in Seq(Effect)
        BY <1>1
      <4>2. job'[w] = Tail(job[w])
        BY <1>1
      <4> QED
        BY <2>3, <4>1, <4>2
    <3>2. On(job'[w]) = {Head(job'[w])} \cup On(Tail(job'[w]))
      BY <3>1, OnTail
    <3>3. \A effect \in On(job'[w]) : effect.op # "save"
      BY <1>1, <2>3 DEF MovesOn, SaveFirst
    <3> QED
      BY <2>3, <3>2, <3>3
  <2> QED
    BY <2>2, <2>3
<1>4. \A d \in posted' \ lost' : Progress(d)'
  BY <1>1
<1>5. MissesFirst'
  <2>1. \A d \in DM \ lost' : \A effect \in On(job'[From[d]]) :
            effect.op = "send" /\ Misses(effect.event, d) => d \notin Begun'
    <3>1. \A d \in DM : From[d] \in Worker
      BY EndsAssumption DEF Worker
    <3> QED
      BY <1>1, <3>1 DEF MovesOn, MissesFirst
  <2> QED
    BY <1>1, <2>1 DEF MissesFirst, On
<1> QED
  BY <1>2, <1>3, <1>4, <1>5 DEF MovesOn

\* Storing a DM keeps MovesOn.
LEMMA SaveMoves ==
    ASSUME TypeOK, MovesOn, NEW w \in Worker, SaveDM(w)
    PROVE  MovesOn'
<1> DEFINE x == Head(job[w])
           y == x.dm
<1>1. /\ Does(w, "save") /\ UNCHANGED <<send, mesh, lost, dropped>>
      /\ stored' = [stored EXCEPT ![HomeOf(w)][y] = "saved"]
      /\ stored \in [Server -> [DM -> Stored]]
  BY DEF SaveDM, TypeOK
<1>2. /\ x \in Effect /\ x.op = "save"
      /\ \A v \in Worker : v # w => job'[v] = job[v]
      /\ job[w] # <<>> /\ job'[w] = Tail(job[w])
      /\ UNCHANGED <<view, posted, inbox>>
      /\ EffectAbout(w, x, Begun)
      /\ \A effect, s : Coming(effect, s) =>
            Coming(effect, s)' \/ (HomeOf(w) = s /\ effect = x)
  BY <1>1, WorkOn DEF MovesOn
<1>3. y \in DM /\ x = Save(y)
  BY <1>2 DEF Effect, Save
<1>4. HomeOf(w) \in Server
  BY HomeAssumption DEF HomeOf, Worker, Link
<1> HIDE DEF y
<1>5. /\ stored'[HomeOf(w)][y] = "saved"
      /\ \A s \in Server, d \in DM : d # y \/ s # HomeOf(w) => stored'[s][d] = stored[s][d]
      /\ \A s \in Server, d \in DM : stored[s][d] # "none" => stored'[s][d] # "none"
  BY <1>1, <1>3, <1>4
<1>6. \A effect, s : effect.op # "save" /\ Coming(effect, s) => Coming(effect, s)'
  BY <1>2
<1>7. \A d, s : d # y \/ s # HomeOf(w) => (Coming(Save(d), s) => Coming(Save(d), s)')
  <2>1. \A d : Save(d) = x => d = y
    BY <1>3 DEF Save
  <2> QED
    BY <1>2, <2>1
<1> HIDE DEF x
<1>8. ASSUME NEW d \in posted \ lost PROVE Progress(d)'
  <2> DEFINE h == SenderHome(d)
             k == Home[To[d]]
  <2>1. Progress(d) /\ d \in DM /\ h \in Server /\ k \in Server /\ From[d] \in User
    BY EndsAssumption, HomeAssumption DEF MovesOn, SenderHome, TypeOK
  <2>2. view'[From[d]][d] # "none"
    BY <1>2, <2>1 DEF Progress
  <2>3. /\ Propagate(About(d, "dm")).op # "save"
        /\ Propagate(About(d, "delivered")).op # "save"
        /\ Status(d, "delivered").op # "save"
        /\ Send(From[d], About(d, "delivered")).op # "save"
    BY DEF Propagate, Status, Send
  <2>4. CASE d # y \/ h # HomeOf(w)
    <3>1. Asking(d) => Asking(d)'
      BY <1>2, <1>7, <2>4 DEF Asking, On, SenderHome
    <3>2. \A s : Passing(d, s) => Passing(d, s)'
      BY <1>1, <1>6, <2>3 DEF Passing, On, SenderHome
    <3>3. Acking(d) => Acking(d)'
      BY <1>1, <1>6, <2>3, <3>2 DEF Acking, On, SenderHome
    <3>4. stored'[h][d] = stored[h][d]
      BY <1>5, <2>1, <2>4
    <3>5. (stored[SenderHome(d)][d] # "none" \/ Asking(d))'
      BY <2>1, <3>1, <3>4 DEF Progress, SenderHome
    <3>6. (\/ stored[SenderHome(d)][d] \in Receipt \/ Asking(d) \/ Acking(d)
           \/ Coming(Status(d, "delivered"), SenderHome(d)))'
      BY <1>6, <2>1, <2>3, <3>1, <3>3, <3>4 DEF Progress, SenderHome
    <3>7. (\/ view[From[d]][d] \in Receipt \/ From[d] \in dropped \/ Asking(d) \/ Acking(d)
           \/ Coming(Send(From[d], About(d, "delivered")), SenderHome(d))
           \/ About(d, "delivered") \in On(send[From[d]]))'
      <4>1. \/ view[From[d]][d] \in Receipt \/ From[d] \in dropped \/ Asking(d) \/ Acking(d)
            \/ Coming(Send(From[d], About(d, "delivered")), SenderHome(d))
            \/ About(d, "delivered") \in On(send[From[d]])
        BY <2>1 DEF Progress
      <4>2. Coming(Send(From[d], About(d, "delivered")), SenderHome(d)) =>
            Coming(Send(From[d], About(d, "delivered")), SenderHome(d))'
        BY <1>6, <2>3 DEF SenderHome
      <4> QED
        BY <1>1, <1>2, <3>1, <3>3, <4>1, <4>2 DEF On, SenderHome
    <3>8. (\A s \in Server \ {SenderHome(d)} :
              stored[s][d] # "none" \/ Asking(d) \/ Passing(d, s) \/ Coming(Save(d), s))'
      <4> SUFFICES ASSUME NEW s \in Server \ {h}
                   PROVE  stored'[s][d] # "none" \/ Asking(d)' \/ Passing(d, s)' \/ Coming(Save(d), s)'
        BY DEF SenderHome
      <4>1. stored[s][d] # "none" \/ Asking(d) \/ Passing(d, s) \/ Coming(Save(d), s)
        BY <2>1 DEF Progress
      <4>2. CASE d = y /\ s = HomeOf(w)
        BY <1>5, <4>2
      <4>3. CASE d # y \/ s # HomeOf(w)
        <5>1. stored'[s][d] = stored[s][d] /\ (Coming(Save(d), s) => Coming(Save(d), s)')
          BY <1>5, <1>7, <2>1, <4>3
        <5> QED
          BY <3>1, <3>2, <4>1, <5>1
      <4> QED
        BY <4>2, <4>3
    <3> QED
      BY <2>2, <3>5, <3>6, <3>7, <3>8 DEF Progress
  \* The sender's own handler saves it: what follows is still to be done.
  <2>5. CASE d = y /\ h = HomeOf(w)
    <3>1. w = From[d]
      BY <1>2, <1>3, <2>5 DEF EffectAbout, Save
    <3>2. Rest(d) \subseteq On(job'[w])
      <4>1. w \in User /\ Head(job[w]).op = "save" /\ Head(job[w]).dm = d
        BY <1>2, <2>1, <2>5, <3>1 DEF x, y
      <4> QED
        BY <1>2, <4>1 DEF MovesOn, SaveFirst
    <3>3. \A effect \in Rest(d) : Coming(effect, h)'
      BY <2>5, <3>2 DEF Coming, On, HomeOf
    <3>4. Coming(Propagate(About(d, "dm")), h)'
      BY <3>3 DEF Rest
    <3>5. k = h => Coming(Status(d, "delivered"), h)' /\ Coming(Send(From[d], About(d, "delivered")), h)'
      BY <3>3 DEF Rest
    <3>6. \A s : Passing(d, s)'
      BY <3>4 DEF Passing, SenderHome
    <3>7. k # h => Acking(d)'
      BY <3>6 DEF Acking, SenderHome
    <3>8. stored'[h][d] # "none"
      BY <1>5, <2>5
    <3>9. (stored[SenderHome(d)][d] # "none" \/ Asking(d))'
      BY <3>8 DEF SenderHome
    <3>10. (\/ stored[SenderHome(d)][d] \in Receipt \/ Asking(d) \/ Acking(d)
            \/ Coming(Status(d, "delivered"), SenderHome(d)))'
      BY <3>5, <3>7 DEF SenderHome
    <3>11. (\/ view[From[d]][d] \in Receipt \/ From[d] \in dropped \/ Asking(d) \/ Acking(d)
            \/ Coming(Send(From[d], About(d, "delivered")), SenderHome(d))
            \/ About(d, "delivered") \in On(send[From[d]]))'
      BY <3>5, <3>7 DEF SenderHome
    <3>12. (\A s \in Server \ {SenderHome(d)} :
               stored[s][d] # "none" \/ Asking(d) \/ Passing(d, s) \/ Coming(Save(d), s))'
      BY <3>6
    <3> QED
      BY <2>2, <3>9, <3>10, <3>11, <3>12 DEF Progress
  <2> QED
    BY <2>4, <2>5
<1>9. \A d \in DM \ lost : \A i \in DOMAIN send'[From[d]] :
          Misses(send'[From[d]][i], d) =>
              /\ view[From[d]][d] \notin Receipt
              /\ \A j \in 1..(i - 1) : ~Ticks(send'[From[d]][j], d)
  BY <1>1 DEF MovesOn, MissesFirst
<1> QED
  BY <1>1, <1>8, <1>9, WorkMoves

\* Each thing that is still to come for a DM is still to come, or has come.
LEMMA ProgressKept ==
    ASSUME NEW d \in DM, Progress(d), view' = view,
           Asking(d) => Asking(d)',
           Acking(d) => Acking(d)',
           \A s \in Server : stored[s][d] # "none" => stored'[s][d] # "none",
           SenderHome(d) \in Server,
           stored[SenderHome(d)][d] \in Receipt => stored'[SenderHome(d)][d] \in Receipt,
           Coming(Status(d, "delivered"), SenderHome(d)) =>
               \/ Coming(Status(d, "delivered"), SenderHome(d))'
               \/ stored'[SenderHome(d)][d] \in Receipt \/ Asking(d)',
           \/ From[d] \in dropped \/ About(d, "delivered") \in On(send[From[d]])
           \/ Coming(Send(From[d], About(d, "delivered")), SenderHome(d))
           => \/ From[d] \in dropped' \/ About(d, "delivered") \in On(send'[From[d]])
              \/ Coming(Send(From[d], About(d, "delivered")), SenderHome(d))',
           \A s \in Server \ {SenderHome(d)} :
               /\ Passing(d, s) => Passing(d, s)'
               /\ Coming(Save(d), s) => Coming(Save(d), s)'
    PROVE  Progress(d)'
<1>1. (view[From[d]][d] # "none")' /\ (stored[SenderHome(d)][d] # "none" \/ Asking(d))'
  BY DEF Progress, SenderHome
<1>2. (\/ stored[SenderHome(d)][d] \in Receipt \/ Asking(d) \/ Acking(d)
       \/ Coming(Status(d, "delivered"), SenderHome(d)))'
  BY DEF Progress, SenderHome
<1>3. (\/ view[From[d]][d] \in Receipt \/ From[d] \in dropped \/ Asking(d) \/ Acking(d)
       \/ Coming(Send(From[d], About(d, "delivered")), SenderHome(d))
       \/ About(d, "delivered") \in On(send[From[d]]))'
  <2>1. \/ view[From[d]][d] \in Receipt \/ From[d] \in dropped \/ Asking(d) \/ Acking(d)
        \/ Coming(Send(From[d], About(d, "delivered")), SenderHome(d))
        \/ About(d, "delivered") \in On(send[From[d]])
    BY DEF Progress
  <2>2. \/ view'[From[d]][d] \in Receipt \/ From[d] \in dropped' \/ Asking(d)' \/ Acking(d)'
        \/ Coming(Send(From[d], About(d, "delivered")), SenderHome(d))'
        \/ About(d, "delivered") \in On(send'[From[d]])
    BY <2>1
  <2> QED
    BY <2>2 DEF On, SenderHome
<1>4. (\A s \in Server \ {SenderHome(d)} :
          stored[s][d] # "none" \/ Asking(d) \/ Passing(d, s) \/ Coming(Save(d), s))'
  <2>1. \A s \in Server \ {SenderHome(d)} :
            stored[s][d] # "none" \/ Asking(d) \/ Passing(d, s) \/ Coming(Save(d), s)
    BY DEF Progress
  <2> QED
    BY <2>1 DEF SenderHome
<1> QED
  BY <1>1, <1>2, <1>3, <1>4 DEF Progress

\* Where a DM, its sender and his server are
LEMMA Ends ==
    ASSUME TypeOK, MovesOn, NEW d \in posted \ lost
    PROVE  /\ Progress(d) /\ d \in DM /\ From[d] \in User /\ To[d] \in User
           /\ SenderHome(d) \in Server /\ Home[To[d]] \in Server
BY EndsAssumption, HomeAssumption DEF MovesOn, SenderHome, TypeOK

\* Storing a status keeps MovesOn.
LEMMA StatusMoves ==
    ASSUME TypeOK, MovesOn, NEW w \in Worker, UpdateDMStatus(w)
    PROVE  MovesOn'
<1> DEFINE x == Head(job[w])
           y == x.dm
<1>1. /\ Does(w, "status") /\ UNCHANGED <<send, mesh, lost, dropped>>
      /\ stored' = [stored EXCEPT ![HomeOf(w)][y] = IF @ = "none" THEN @ ELSE x.status]
      /\ stored \in [Server -> [DM -> Stored]]
  BY DEF UpdateDMStatus, TypeOK
<1>2. /\ x \in Effect /\ x.op = "status"
      /\ UNCHANGED <<view, posted, inbox>>
      /\ \A effect, s : Coming(effect, s) =>
            Coming(effect, s)' \/ (HomeOf(w) = s /\ effect = x)
  BY <1>1, WorkOn DEF MovesOn
<1>3. y \in DM /\ x.status \in Receipt
  BY <1>2 DEF Effect
<1>4. HomeOf(w) \in Server
  BY HomeAssumption DEF HomeOf, Worker, Link
<1>5. \A d : x = Status(d, "delivered") => d = y
  BY DEF Status
<1> HIDE DEF x, y
<1>6. /\ \A s \in Server, d \in DM : stored[s][d] # "none" => stored'[s][d] # "none"
      /\ \A s \in Server, d \in DM : stored[s][d] \in Receipt => stored'[s][d] \in Receipt
      /\ stored[HomeOf(w)][y] # "none" => stored'[HomeOf(w)][y] \in Receipt
  <2>1. \A s \in Server, d \in DM :
           stored'[s][d] = IF s = HomeOf(w) /\ d = y /\ stored[s][d] # "none"
                           THEN x.status ELSE stored[s][d]
    BY <1>1, <1>3, <1>4
  <2> QED
    BY <1>3, <1>4, <2>1 DEF Receipt
<1>7. \A effect, s : effect.op # "status" /\ Coming(effect, s) => Coming(effect, s)'
  BY <1>2
<1>8. ASSUME NEW d \in posted \ lost PROVE Progress(d)'
  <2> DEFINE h == SenderHome(d)
  <2>1. Progress(d) /\ d \in DM /\ h \in Server
    BY Ends
  <2>2. /\ Propagate(About(d, "dm")).op # "status"
        /\ Propagate(About(d, "delivered")).op # "status"
        /\ Save(d).op # "status"
        /\ Send(From[d], About(d, "delivered")).op # "status"
    BY DEF Propagate, Save, Send
  <2>3. Asking(d) => Asking(d)'
    BY <1>2, <1>7, <2>2 DEF Asking, On, SenderHome
  <2>4. \A s : Passing(d, s) => Passing(d, s)'
    BY <1>1, <1>7, <2>2 DEF Passing, On, SenderHome
  <2>5. Acking(d) => Acking(d)'
    BY <1>1, <1>7, <2>2, <2>4 DEF Acking, On, SenderHome
  <2>6. Coming(Status(d, "delivered"), h) =>
            \/ Coming(Status(d, "delivered"), h)'
            \/ stored'[h][d] \in Receipt \/ Asking(d)'
    <3> SUFFICES ASSUME HomeOf(w) = h, x = Status(d, "delivered")
                 PROVE  stored'[h][d] \in Receipt \/ Asking(d)'
      BY <1>2
    <3>1. stored[h][d] # "none" \/ Asking(d)
      BY <2>1 DEF Progress
    <3>2. d = y
      BY <1>5
    <3> QED
      BY <1>6, <2>3, <3>1, <3>2
  <2>7. Coming(Send(From[d], About(d, "delivered")), h) =>
            Coming(Send(From[d], About(d, "delivered")), h)'
    BY <1>7, <2>2
  <2>8. \A s : Coming(Save(d), s) => Coming(Save(d), s)'
    BY <1>7, <2>2
  <2> QED
    BY <1>1, <1>2, <1>6, <2>1, <2>3, <2>4, <2>5, <2>6, <2>7, <2>8, ProgressKept
<1>9. \A d \in DM \ lost : \A i \in DOMAIN send'[From[d]] :
          Misses(send'[From[d]][i], d) =>
              /\ view[From[d]][d] \notin Receipt
              /\ \A j \in 1..(i - 1) : ~Ticks(send'[From[d]][j], d)
  BY <1>1 DEF MovesOn, MissesFirst
<1> QED
  BY <1>1, <1>8, <1>9, WorkMoves

\* Sending an event to a browser keeps MovesOn.
LEMMA SendMoves ==
    ASSUME TypeOK, MovesOn, NEW w \in Worker, SendJSON(w)
    PROVE  MovesOn'
<1> DEFINE x == Head(job[w])
           u == x.to
           e == x.event
<1>1. /\ Does(w, "send") /\ UNCHANGED <<stored, mesh, lost>>
      /\ \/ send' = [send EXCEPT ![u] = Append(@, e)] /\ dropped' = dropped
         \/ dropped' = dropped \cup {u} /\ send' = send
      /\ send \in [User -> Seq(Event \cup History)]
  BY DEF SendJSON, TypeOK
<1>2. /\ x \in Effect /\ x.op = "send" /\ EffectAbout(w, x, Begun)
      /\ On(job[w]) = {x} \cup On(job'[w])
      /\ UNCHANGED <<view, posted, inbox>>
      /\ \A effect, s : Coming(effect, s) =>
            Coming(effect, s)' \/ (HomeOf(w) = s /\ effect = x)
  BY <1>1, WorkOn DEF MovesOn
<1>3. u \in User /\ e \in Event \cup History
  BY <1>2 DEF Effect
<1>4. SpeaksOf(e, Begun) /\ (e.type = "dm_history" => w = u)
  BY <1>2 DEF EffectAbout
<1>5. \A d : x = Send(From[d], About(d, "delivered")) => u = From[d] /\ e = About(d, "delivered")
  BY DEF Send
<1> HIDE DEF u, e
<1>6. /\ \A v \in User : send'[v] = send[v] \/ (v = u /\ send'[v] = Append(send[v], e))
      /\ dropped \subseteq dropped'
      /\ u \in dropped' \/ send'[u] = Append(send[u], e)
  BY <1>1, <1>3
<1>7. \A v \in User : On(Append(send[v], e)) = On(send[v]) \cup {e}
  BY <1>1, OnAppend
<1>8. \A v \in User : On(send[v]) \subseteq On(send'[v])
  BY <1>6, <1>7
<1>9. \A v \in User : \A y \in On(send'[v]) : y \in On(send[v]) \/ SpeaksOf(y, Begun)
  <2>1. \A v \in User : On(send'[v]) \subseteq On(send[v]) \cup {e}
    BY <1>6, <1>7
  <2>2. \A v \in User : \A y \in On(send'[v]) : y \in On(send[v]) \/ y = e
    BY <2>1
  <2> QED
    BY <1>4, <2>2
<1>10. \A effect, s : effect.op # "send" /\ Coming(effect, s) => Coming(effect, s)'
  BY <1>2
<1> HIDE DEF x
<1>11. ASSUME NEW d \in posted \ lost PROVE Progress(d)'
  <2> DEFINE h == SenderHome(d)
  <2>1. Progress(d) /\ d \in DM /\ h \in Server /\ From[d] \in User
    BY Ends
  <2>2. /\ Propagate(About(d, "dm")).op # "send"
        /\ Propagate(About(d, "delivered")).op # "send"
        /\ Save(d).op # "send"
        /\ Status(d, "delivered").op # "send"
    BY DEF Propagate, Save, Status
  <2>3. Asking(d) => Asking(d)'
    BY <1>2, <1>10, <2>2 DEF Asking, On, SenderHome
  <2>4. \A s : Passing(d, s) => Passing(d, s)'
    BY <1>1, <1>10, <2>2 DEF Passing, On, SenderHome
  <2>5. Acking(d) => Acking(d)'
    BY <1>1, <1>10, <2>2, <2>4 DEF Acking, On, SenderHome
  <2>6. /\ Coming(Status(d, "delivered"), h) => Coming(Status(d, "delivered"), h)'
        /\ \A s : Coming(Save(d), s) => Coming(Save(d), s)'
    BY <1>10, <2>2
  <2>7. Coming(Send(From[d], About(d, "delivered")), h) =>
            \/ From[d] \in dropped' \/ About(d, "delivered") \in On(send'[From[d]])
            \/ Coming(Send(From[d], About(d, "delivered")), h)'
    <3> SUFFICES ASSUME x = Send(From[d], About(d, "delivered"))
                 PROVE  From[d] \in dropped' \/ About(d, "delivered") \in On(send'[From[d]])
      BY <1>2
    <3>1. u = From[d] /\ e = About(d, "delivered")
      BY <1>5
    <3> QED
      BY <1>3, <1>6, <1>7, <3>1
  <2>8. From[d] \in dropped \/ About(d, "delivered") \in On(send[From[d]]) =>
            From[d] \in dropped' \/ About(d, "delivered") \in On(send'[From[d]])
    BY <1>6, <1>8, <2>1
  <2> QED
    BY <1>1, <1>2, <2>1, <2>3, <2>4, <2>5, <2>6, <2>7, <2>8, ProgressKept
<1>12. ASSUME NEW d \in DM \ lost, NEW i \in DOMAIN send'[From[d]],
              Misses(send'[From[d]][i], d)
       PROVE  /\ view[From[d]][d] \notin Receipt
              /\ \A j \in 1..(i - 1) : ~Ticks(send'[From[d]][j], d)
  <2> DEFINE f == From[d]
             q == send[f]
  <2>1. f \in User /\ q \in Seq(Event \cup History)
    BY <1>1, EndsAssumption
  <2>2. CASE send'[f] = q
    BY <1>12, <2>2 DEF MovesOn, MissesFirst
  <2>3. CASE f = u /\ send'[f] = Append(q, e)
    <3> HIDE DEF f, q
    <3>1. \/ i \in DOMAIN q /\ \A j \in 1..i : Append(q, e)[j] = q[j]
          \/ /\ i = Len(q) + 1 /\ Append(q, e)[i] = e
             /\ \A j \in 1..(i - 1) : Append(q, e)[j] = q[j] /\ q[j] \in On(q)
      <4>1. i \in 1..(Len(q) + 1) /\ Len(q) \in Nat /\ DOMAIN q = 1..Len(q)
        <5>1. i \in DOMAIN Append(q, e)
          BY <1>12, <2>3 DEF f
        <5> QED
          BY <2>1, <5>1
      <4>2. /\ \A j \in 1..Len(q) : Append(q, e)[j] = q[j] /\ q[j] \in On(q)
            /\ Append(q, e)[Len(q) + 1] = e
        BY <2>1 DEF On
      <4>3. CASE i = Len(q) + 1
        BY <4>1, <4>2, <4>3
      <4>4. CASE i \in 1..Len(q)
        <5>1. \A j \in 1..i : j \in 1..Len(q)
          BY <4>1, <4>4
        <5> QED
          BY <4>1, <4>2, <4>4, <5>1
      <4> QED
        BY <4>1, <4>3, <4>4
    <3>2. CASE i \in DOMAIN q /\ \A j \in 1..i : Append(q, e)[j] = q[j]
      <4>1. i \in Nat /\ i \in 1..i /\ \A j \in 1..(i - 1) : j \in 1..i
        BY <2>1, <3>2
      <4>2. send'[f][i] = q[i] /\ \A j \in 1..(i - 1) : send'[f][j] = q[j]
        BY <2>3, <3>2, <4>1
      <4>3. Misses(q[i], d)
        BY <1>12, <4>2 DEF f
      <4>4. view[f][d] \notin Receipt /\ \A j \in 1..(i - 1) : ~Ticks(q[j], d)
        BY <3>2, <4>3 DEF MovesOn, MissesFirst, f, q
      <4> QED
        BY <4>2, <4>4 DEF f
    \* It is appended: then the DM was not begun with, and nothing before ticks it.
    <3>3. CASE /\ i = Len(q) + 1 /\ Append(q, e)[i] = e
               /\ \A j \in 1..(i - 1) : Append(q, e)[j] = q[j] /\ q[j] \in On(q)
      <4>1. Misses(e, d)
        BY <1>12, <2>3, <3>3 DEF f
      <4>2. w = f
        BY <1>4, <2>3, <4>1 DEF Misses
      <4>3. x \in On(job[f]) /\ x.op = "send" /\ Misses(x.event, d)
        BY <1>2, <4>1, <4>2 DEF e
      <4>4. d \notin Begun
        BY <4>3 DEF MovesOn, MissesFirst, f
      <4>5. view[f][d] \notin Receipt
        BY <4>4 DEF MovesOn, AboutBegun, f
      <4>6. \A y \in On(q) : ~Ticks(y, d)
        <5>1. \A y \in On(q) : SpeaksOf(y, Begun)
          BY <2>1 DEF MovesOn, AboutBegun, q
        <5> QED
          BY <4>4, <5>1 DEF SpeaksOf, Ticks, Receipt
      <4>7. \A j \in 1..(i - 1) : send'[f][j] \in On(q)
        BY <2>3, <3>3
      <4> QED
        BY <4>5, <4>6, <4>7 DEF f
    <3> QED
      BY <3>1, <3>2, <3>3
  <2> QED
    BY <1>6, <2>1, <2>2, <2>3
<1>13. \A l \in Link : \A y \in On(mesh'[l]) : y \in On(mesh[l])
  BY <1>1
<1> QED
  BY <1>1, <1>9, <1>11, <1>12, <1>13, WorkMoves

\* Forwarding to another server keeps MovesOn.
LEMMA PropagateMoves ==
    ASSUME TypeOK, MovesOn, NEW w \in Worker, MeshPropagate(w)
    PROVE  MovesOn'
<1> DEFINE x == Head(job[w])
           e == x.event
<1>1. /\ Does(w, "propagate") /\ UNCHANGED <<stored, send, dropped>>
      /\ mesh \in [Link -> Seq(Event)]
  BY DEF MeshPropagate, TypeOK
<1>0. PICK got \in SUBSET Ways(HomeOf(w), e) :
          /\ mesh' = [l \in Link |-> IF l \in got THEN Append(mesh[l], e) ELSE mesh[l]]
          /\ lost' = IF got = Ways(HomeOf(w), e) THEN lost ELSE lost \cup {e.dm}
  BY DEF MeshPropagate
<1>14. lost \subseteq lost' /\ (e.dm \notin lost' => got = Ways(HomeOf(w), e))
  BY <1>0
<1>15. \A l \in got : l[1] = HomeOf(w)
  BY <1>0 DEF Ways
<1>2. /\ x \in Effect /\ x.op = "propagate" /\ EffectAbout(w, x, Begun)
      /\ UNCHANGED <<view, posted, inbox>>
      /\ \A effect, s : Coming(effect, s) =>
            Coming(effect, s)' \/ (HomeOf(w) = s /\ effect = x)
  BY <1>1, WorkOn DEF MovesOn
<1>3. e \in Event
  BY <1>2 DEF Effect
<1>4. /\ e.dm \in Begun /\ (e.type = "dm" => HomeOf(w) = SenderHome(e.dm))
  <2>1. SpeaksOf(e, Begun) /\ (e.type = "dm" => w = From[e.dm])
    BY <1>2 DEF EffectAbout
  <2>2. e.type # "dm_history" /\ e.dm \in DM
    BY <1>3 DEF Event, Receipt
  <2>3. From[e.dm] \in User
    BY <2>2, EndsAssumption
  <2> QED
    BY <2>1, <2>2, <2>3 DEF SpeaksOf, HomeOf, SenderHome
<1>5. \A y : x = Propagate(y) => e = y
  BY DEF Propagate
<1> HIDE DEF e
<1>6. \A l \in Link : mesh'[l] = IF l \in got THEN Append(mesh[l], e) ELSE mesh[l]
  BY <1>0
<1>7. \A l \in Link : On(Append(mesh[l], e)) = On(mesh[l]) \cup {e}
  BY <1>1, OnAppend
<1>8. /\ \A l \in Link : On(mesh[l]) \subseteq On(mesh'[l])
      /\ \A l \in Link \cap got : e \in On(mesh'[l])
  BY <1>6, <1>7
<1>9. \A l \in Link : \A y \in On(mesh'[l]) :
         y \in On(mesh[l]) \/ (y.dm \in Begun /\ (y.type = "dm" => l[1] = SenderHome(y.dm)))
  <2>1. \A l \in Link : \A y \in On(mesh'[l]) : y \in On(mesh[l]) \/ (l[1] = HomeOf(w) /\ y = e)
    BY <1>6, <1>7, <1>15
  <2> QED
    BY <1>4, <2>1
<1>10. \A effect, s : effect.op # "propagate" /\ Coming(effect, s) => Coming(effect, s)'
  BY <1>2
<1> HIDE DEF x
<1>11. ASSUME NEW d \in posted \ lost' PROVE Progress(d)'
  <2> DEFINE h == SenderHome(d)
             k == Home[To[d]]
  <2>1. Progress(d) /\ d \in DM /\ h \in Server /\ k \in Server
    BY <1>14, Ends
  <2>2. /\ Save(d).op # "propagate" /\ Status(d, "delivered").op # "propagate"
        /\ Send(From[d], About(d, "delivered")).op # "propagate"
    BY DEF Send, Save, Status
  <2>3. Asking(d) => Asking(d)'
    BY <1>2, <1>10, <2>2 DEF Asking, On, SenderHome
  \* What the worker passes on about d is on every way from his server.
  <2>4. \A y : \A s \in Server, t \in Server :
            s # t /\ y.dm = d /\ (y.type = "dm" \/ <<s, t>> \in Direct) /\ Coming(Propagate(y), s) =>
                Coming(Propagate(y), s)' \/ y \in On(mesh'[<<s, t>>])
    <3> SUFFICES ASSUME NEW y, NEW s \in Server, NEW t \in Server, s # t, y.dm = d,
                        y.type = "dm" \/ <<s, t>> \in Direct,
                        HomeOf(w) = s, x = Propagate(y)
                 PROVE  y \in On(mesh'[<<s, t>>])
      BY <1>2
    <3>1. <<s, t>> \in Link /\ <<s, t>>[1] = s
      BY DEF Link
    <3>2. e = y
      BY <1>5
    <3>3. got = Ways(s, y)
      BY <1>14, <3>2
    <3>4. <<s, t>> \in got
      BY <3>1, <3>3 DEF Ways
    <3> QED
      BY <1>8, <3>1, <3>2, <3>4
  <2>8. /\ About(d, "dm").dm = d /\ About(d, "dm").type = "dm"
        /\ About(d, "delivered").dm = d
    BY DEF About
  <2>5. \A s \in Server \ {h} : Passing(d, s) => Passing(d, s)'
    <3> SUFFICES ASSUME NEW s \in Server, s # h, Passing(d, s) PROVE Passing(d, s)'
      OBVIOUS
    <3>1. <<h, s>> \in Link
      BY <2>1 DEF Link
    <3>2. \/ Coming(Propagate(About(d, "dm")), h)' \/ About(d, "dm") \in On(mesh'[<<h, s>>])
      BY <1>8, <2>1, <2>4, <2>8, <3>1 DEF Passing
    <3> QED
      BY <3>2 DEF Passing, On, SenderHome
  <2>6. Acking(d) => Acking(d)'
    <3> SUFFICES ASSUME Acking(d) PROVE Acking(d)'
      OBVIOUS
    <3>1. k # h /\ <<k, h>> \in Link
      BY <2>1 DEF Acking, Link
    <3>2. CASE Passing(d, k)
      <4>1. Passing(d, k)'
        BY <2>1, <2>5, <3>1, <3>2
      <4> QED
        BY <3>1, <4>1 DEF Acking, SenderHome
    <3>4. CASE ~Linked(d)
      BY <3>1, <3>4 DEF Acking, Linked, SenderHome
    <3>3. CASE /\ Linked(d)
               /\ \/ Coming(Propagate(About(d, "delivered")), k)
                  \/ About(d, "delivered") \in On(mesh[<<k, h>>])
      <4>2. <<k, h>> \in Direct
        BY <3>1, <3>3 DEF Linked, SenderHome
      <4>1. \/ Coming(Propagate(About(d, "delivered")), k)'
            \/ About(d, "delivered") \in On(mesh'[<<k, h>>])
        BY <1>8, <2>1, <2>4, <2>8, <3>1, <3>3, <4>2
      <4> QED
        BY <3>1, <4>1 DEF Acking, On, SenderHome
    <3> QED
      BY <3>2, <3>3, <3>4 DEF Acking
  <2>7. /\ Coming(Status(d, "delivered"), h) => Coming(Status(d, "delivered"), h)'
        /\ \A s : Coming(Save(d), s) => Coming(Save(d), s)'
        /\ Coming(Send(From[d], About(d, "delivered")), h) =>
              Coming(Send(From[d], About(d, "delivered")), h)'
    BY <1>10, <2>2
  <2> QED
    BY <1>1, <1>2, <2>1, <2>3, <2>5, <2>6, <2>7, ProgressKept
<1>12. \A d \in DM \ lost' : \A i \in DOMAIN send'[From[d]] :
          Misses(send'[From[d]][i], d) =>
              /\ view[From[d]][d] \notin Receipt
              /\ \A j \in 1..(i - 1) : ~Ticks(send'[From[d]][j], d)
  BY <1>1, <1>14 DEF MovesOn, MissesFirst
<1>13. \A u \in User : \A y \in On(send'[u]) : y \in On(send[u])
  BY <1>1
<1> QED
  BY <1>1, <1>9, <1>11, <1>12, <1>13, <1>14, WorkMoves

-----------------------------------------------------------------------------
\* What has to be done for a DM is done, or still to come.
THEOREM MovesOnInvariant == Spec => []MovesOn
<1>1. ASSUME Init PROVE MovesOn
  <2> USE EndsAssumption, HomeAssumption
  <2>1. /\ \A u \in User : On(inbox[u]) = {} /\ On(send[u]) = {} /\ send[u] = <<>>
        /\ \A l \in Link : On(mesh[l]) = {}
        /\ \A v \in Worker : On(job[v]) = {}
        /\ \A v \in User, d \in DM : view[v][d] = "none"
        /\ \A v \in User : job[v] = <<>>
        /\ posted = {}
    BY <1>1, OnNone DEF Init, Worker
  <2>2. AboutBegun
    BY <2>1 DEF AboutBegun, Receipt
  <2>3. SaveFirst
    BY <2>1 DEF SaveFirst
  <2>4. MissesFirst
    <3>1. \A d \in DM : From[d] \in User /\ From[d] \in Worker
      BY DEF Worker
    <3>2. \A u \in User : DOMAIN send[u] = {}
      BY <2>1
    <3> QED
      BY <2>1, <3>1, <3>2 DEF MissesFirst
  <2> QED
    BY <2>1, <2>2, <2>3, <2>4 DEF MovesOn
<1>2. ASSUME MovesOn, TypeOK, HandoverInv, TypeOK', [Next]_vars PROVE MovesOn'
  <2>1. CASE UNCHANGED vars
    <3>1. /\ UNCHANGED <<view, posted, inbox, stored, send, mesh, job, lost, dropped>>
      BY <2>1 DEF vars
    <3>2. Begun' = Begun
      BY <3>1, BegunSame
    <3>3. AboutBegun'
      BY <1>2, <3>1, <3>2, AboutKept DEF MovesOn
    <3>4. SaveFirst'
      <4> SUFFICES ASSUME NEW u \in User, job'[u] # <<>>
                   PROVE  /\ \A effect \in On(Tail(job'[u])) : effect.op # "save"
                          /\ Head(job'[u]).op = "save" =>
                                Rest(Head(job'[u]).dm) \subseteq On(Tail(job'[u]))
        BY DEF SaveFirst, On, Rest, SenderHome
      <4>1. job'[u] = job[u]
        BY <3>1
      <4> QED
        BY <1>2, <4>1 DEF MovesOn, SaveFirst
    <3>5. MissesFirst'
      <4>1. \A d \in DM \ lost' : \A effect \in On(job'[From[d]]) :
                effect.op = "send" /\ Misses(effect.event, d) => d \notin Begun'
        BY <1>2, <3>1, <3>2 DEF MovesOn, MissesFirst
      <4>2. \A d \in DM \ lost' : \A i \in DOMAIN send'[From[d]] :
                Misses(send'[From[d]][i], d) =>
                    /\ view'[From[d]][d] \notin Receipt
                    /\ \A j \in 1..(i - 1) : ~Ticks(send'[From[d]][j], d)
        BY <1>2, <3>1 DEF MovesOn, MissesFirst
      <4> QED
        BY <4>1, <4>2 DEF MissesFirst, On
    <3>6. \A d \in posted' \ lost' : Progress(d)'
      <4> SUFFICES ASSUME NEW d \in posted \ lost PROVE Progress(d)'
        BY <3>1
      <4>1. Progress(d) /\ d \in DM /\ SenderHome(d) \in Server
        BY <1>2, Ends
      <4>2. \A effect, s : Coming(effect, s) => Coming(effect, s)'
        BY <3>1, ComingGrows
      <4>3. Asking(d) => Asking(d)'
        BY <3>1, <4>2 DEF Asking, On, SenderHome
      <4>4. \A s : Passing(d, s) => Passing(d, s)'
        BY <3>1, <4>2 DEF Passing, On, SenderHome
      <4>5. Acking(d) => Acking(d)'
        BY <3>1, <4>2, <4>4 DEF Acking, On, SenderHome
      <4> QED
        BY <3>1, <4>1, <4>2, <4>3, <4>4, <4>5, ProgressKept
    <3> QED
      BY <3>3, <3>4, <3>5, <3>6 DEF MovesOn
  <2>2. ASSUME NEW d \in DM, SendDM(d) PROVE MovesOn'
    BY <1>2, <2>2, SendDMMoves
  <2>3. ASSUME NEW u \in User, Browser(u) PROVE MovesOn'
    BY <1>2, <2>3, SwitchMoves, ReceiveDMMoves, ReceiveHistoryMoves, ReceiveReceiptMoves DEF Browser
  <2>4. ASSUME NEW u \in User, Handle(u) PROVE MovesOn'
    BY <1>2, <2>4, ThrottledMoves, HandleDMMoves, HandleReceiptMoves, HandleHistoryMoves DEF Handle
  <2>5. ASSUME NEW l \in Link, InjectFromMesh(l) PROVE MovesOn'
    BY <1>2, <2>5, InjectMoves
  <2>6. ASSUME NEW w \in Worker, Work(w) PROVE MovesOn'
    BY <1>2, <2>6, SaveMoves, StatusMoves, SendMoves, PropagateMoves DEF Work
  <2> QED
    BY <1>2, <2>1, <2>2, <2>3, <2>4, <2>5, <2>6 DEF Next
<1> QED
  BY <1>1, <1>2, HandoverInvariant, PTL DEF Spec

\* When everything has arrived, a DM of which nothing was refused or dropped is
\* with every server, and if the servers of its two users are peers, its sender
\* and his server have heard that it was delivered, whatever was sent before,
\* between and again (hub.go:503, 530, 972).
THEOREM NoneStuckHolds == Spec => []NoneStuck
<1>1. ASSUME MovesOn, TypeOK, Quiet
      PROVE  \A d \in posted \ lost :
                 /\ \A s \in Server : stored[s][d] # "none"
                 /\ Linked(d) => /\ stored[Home[From[d]]][d] \in Receipt
                                 /\ view[From[d]][d] \in Receipt \/ From[d] \in dropped
  <2>1. /\ \A u \in User : On(inbox[u]) = {} /\ On(send[u]) = {}
        /\ \A l \in Link : On(mesh[l]) = {}
        /\ \A v \in Worker : On(job[v]) = {}
    BY <1>1, OnNone DEF Quiet
  <2>2. \A effect, s : ~Coming(effect, s)
    BY <2>1 DEF Coming
  <2> SUFFICES ASSUME NEW d \in posted \ lost
               PROVE  /\ \A s \in Server : stored[s][d] # "none"
                      /\ Linked(d) => /\ stored[Home[From[d]]][d] \in Receipt
                                      /\ view[From[d]][d] \in Receipt \/ From[d] \in dropped
    OBVIOUS
  <2> DEFINE h == SenderHome(d)
             k == Home[To[d]]
  <2>3. Progress(d) /\ From[d] \in User /\ h \in Server /\ k \in Server
    BY <1>1, Ends
  <2>4. ~Asking(d)
    BY <2>1, <2>2, <2>3 DEF Asking
  <2>5. \A s \in Server \ {h} : ~Passing(d, s)
    <3>1. \A s \in Server \ {h} : <<h, s>> \in Link
      BY <2>3 DEF Link
    <3> QED
      BY <2>1, <2>2, <3>1 DEF Passing
  <2>6. Linked(d) => ~Acking(d)
    <3>1. k # h => <<k, h>> \in Link
      BY <2>3 DEF Link
    <3> QED
      BY <2>1, <2>2, <2>3, <2>5, <3>1 DEF Acking
  <2>7. Linked(d) => stored[h][d] \in Receipt
    BY <2>2, <2>3, <2>4, <2>6 DEF Progress
  <2>8. Linked(d) => view[From[d]][d] \in Receipt \/ From[d] \in dropped
    BY <2>1, <2>2, <2>3, <2>4, <2>6 DEF Progress
  <2>9. \A s \in Server : stored[s][d] # "none"
    <3>1. "none" \notin Receipt
      BY DEF Receipt
    <3> QED
      BY <2>2, <2>3, <2>4, <2>5, <3>1 DEF Progress
  <2> QED
    BY <2>7, <2>8, <2>9 DEF SenderHome
<1>2. ASSUME MovesOn, TypeOK PROVE NoneStuck
  BY <1>1, <1>2 DEF NoneStuck
<1> QED
  BY <1>2, MovesOnInvariant, HandoverInvariant, PTL
=============================================================================
