----------------------------- MODULE CallProofs -----------------------------
(***************************************************************************)
(* Buttons and state of a call agree, and a peer connection has media, for *)
(* any number of users and calls.  The first call is one between a caller  *)
(* and the one he called, opens no microphone without a click, and leaves  *)
(* the two browsers in agreement.                                          *)
(***************************************************************************)
EXTENDS Call, SequenceTheorems, TLAPS

\* The next signal on the wire.
LEMMA NextSignal ==
    ASSUME NEW wire \in Seq(Signal), wire # <<>>
    PROVE  Head(wire) \in Signal /\ Tail(wire) \in Seq(Signal)
OBVIOUS

\* send() keeps the type of the wire.
LEMMA SendsType ==
    ASSUME TypeOK, NEW u \in User, NEW type \in SignalType, NEW to \in User \cup {Nobody},
           Sends(u, type, to)
    PROVE  inbox' \in [User -> Seq(Signal)]
<1>1. [type |-> type, from |-> u, to |-> to] \in Signal
  BY DEF Signal
<1> QED
  BY <1>1 DEF Sends, TypeOK

\* A view that is typed keeps the views of all typed.
LEMMA ShowsType ==
    ASSUME TypeOK, NEW u \in User, NEW s \in {"idle", "calling", "ringing", "in_call"},
           NEW p \in User \cup {Nobody}, NEW m \in BOOLEAN, NEW o \in BOOLEAN,
           Shows(u, s, p, m, o)
    PROVE  /\ state' \in [User -> {"idle", "calling", "ringing", "in_call"}]
           /\ peer' \in [User -> User \cup {Nobody}]
           /\ modal' \in [User -> BOOLEAN]
           /\ overlay' \in [User -> BOOLEAN]
BY DEF Shows, TypeOK

\* A handler at its first await is a task.
LEMMA StartsType ==
    ASSUME TypeOK, NEW u \in User, NEW kind \in {"accept", "offer", "answer"},
           NEW at \in {"media", "remote", "describe", "encrypt", "decrypt"},
           Starts(u, kind, at)
    PROVE  started' \in [User -> Nat] /\ task' \in [User -> SUBSET Task]
<1>1. started[u] \in Nat /\ started[u] + 1 \in Nat \ {0}
  BY DEF TypeOK
<1>2. [no |-> started[u] + 1, kind |-> kind, at |-> at, to |-> Nobody] \in Task
  BY <1>1 DEF Task
<1> QED
  BY <1>1, <1>2 DEF Starts, TypeOK

\* A handler at a later await is a task.
LEMMA AwaitsType ==
    ASSUME TypeOK, NEW u \in User, NEW t \in task[u],
           NEW at \in {"media", "remote", "describe", "encrypt", "decrypt"},
           NEW to \in User \cup {Nobody}, Awaits(u, t, at, to)
    PROVE  started' \in [User -> Nat] /\ task' \in [User -> SUBSET Task]
<1>1. t \in Task
  BY DEF TypeOK
<1>2. [t EXCEPT !.at = at, !.to = to] \in Task
  BY <1>1 DEF Task
<1> QED
  BY <1>2 DEF Awaits, TypeOK

\* cleanup keeps types.
LEMMA CleanupType ==
    ASSUME TypeOK, NEW u \in User, NEW done, Cleanup(u, done)
    PROVE  /\ state' \in [User -> {"idle", "calling", "ringing", "in_call"}]
           /\ peer' \in [User -> User \cup {Nobody}]
           /\ modal' \in [User -> BOOLEAN]
           /\ overlay' \in [User -> BOOLEAN]
           /\ stream' \in [User -> BOOLEAN]
           /\ pc' \in [User -> PC]
           /\ started' \in [User -> Nat]
           /\ task' \in [User -> SUBSET Task]
<1>1. /\ state' \in [User -> {"idle", "calling", "ringing", "in_call"}]
      /\ peer' \in [User -> User \cup {Nobody}]
      /\ modal' \in [User -> BOOLEAN]
      /\ overlay' \in [User -> BOOLEAN]
  BY ShowsType DEF Cleanup
<1>2. pc' \in [User -> PC]
  BY DEF Cleanup, TypeOK, PC
<1>3. task' \in [User -> SUBSET Task]
  BY DEF Cleanup, TypeOK
<1> QED
  BY <1>1, <1>2, <1>3 DEF Cleanup, TypeOK

\* A received signal leaves the rest of the wire.
LEMMA ReceivesType ==
    ASSUME TypeOK, NEW u \in User, NEW type, Receives(u, type)
    PROVE  send' \in [User -> Seq(Signal)] /\ Head(send[u]) \in Signal
<1>1. Head(send[u]) \in Signal /\ Tail(send[u]) \in Seq(Signal)
  BY NextSignal DEF Receives, TypeOK
<1> QED
  BY <1>1 DEF Receives, TypeOK

\* A sig set on a connection leaves it a connection.
LEMMA SigType ==
    ASSUME TypeOK, NEW u \in User, pc[u].id # 0, NEW sig \in {"new", "local", "remote", "stable"},
           pc' = [pc EXCEPT ![u].sig = sig]
    PROVE  pc' \in [User -> PC] /\ \A v \in User : pc'[v] # NoPC => pc[v] # NoPC
<1>1. pc[u] \in [id : Nat \ {0}, sig : {"new", "local", "remote", "stable"}]
  BY DEF TypeOK, PC, NoPC
<1>2. [pc[u] EXCEPT !.sig = sig] \in PC /\ pc[u] # NoPC
  BY <1>1 DEF PC, NoPC
<1> QED
  BY <1>2 DEF TypeOK

\* What the user does, the server and a lost connection keep the types.
LEMMA UserStepType ==
    ASSUME TypeOK, NEW u \in User,
           (\E v \in User : StartCall(u, v)) \/ AcceptIncoming(u) \/ RejectIncoming(u)
               \/ EndCall(u) \/ Relay(u) \/ ConnectionLost(u)
    PROVE  TypeOK'
<1> USE DEF view, media, handlers, userVars
<1>1. ASSUME NEW v \in User, StartCall(u, v)
      PROVE  TypeOK'
  <2>1. calls' \in 0..MaxCalls
    BY <1>1, BoundAssumption DEF StartCall, TypeOK
  <2>2. inbox' \in [User -> Seq(Signal)]
    BY <1>1, SendsType DEF StartCall, SignalType
  <2>3. modal[u] \in BOOLEAN
    BY DEF TypeOK
  <2>4. Shows(u, "calling", v, modal[u], TRUE)
    BY <1>1 DEF StartCall
  <2>5. /\ state' \in [User -> {"idle", "calling", "ringing", "in_call"}]
        /\ peer' \in [User -> User \cup {Nobody}]
        /\ modal' \in [User -> BOOLEAN]
        /\ overlay' \in [User -> BOOLEAN]
    BY <2>3, <2>4, ShowsType
  <2>6. agreed' \subseteq User
    BY <1>1 DEF StartCall, TypeOK
  <2> QED
    BY <1>1, <2>1, <2>2, <2>5, <2>6 DEF StartCall, TypeOK
<1>2. CASE AcceptIncoming(u)
  <2>1. peer[u] \in User \cup {Nobody}
    BY DEF TypeOK
  <2>2. inbox' \in [User -> Seq(Signal)]
    BY <1>2, <2>1, SendsType DEF AcceptIncoming, SignalType
  <2>3. /\ state' \in [User -> {"idle", "calling", "ringing", "in_call"}]
        /\ peer' \in [User -> User \cup {Nobody}]
        /\ modal' \in [User -> BOOLEAN]
        /\ overlay' \in [User -> BOOLEAN]
    BY <1>2, <2>1, ShowsType DEF AcceptIncoming
  <2>4. agreed' \subseteq User
    BY <1>2 DEF AcceptIncoming, TypeOK
  <2> QED
    BY <1>2, <2>2, <2>3, <2>4 DEF AcceptIncoming, TypeOK
<1>3. CASE RejectIncoming(u)
  <2>1. peer[u] \in User \cup {Nobody} /\ overlay[u] \in BOOLEAN
    BY DEF TypeOK
  <2>2. inbox' \in [User -> Seq(Signal)]
    BY <1>3, <2>1, SendsType DEF RejectIncoming, SignalType
  <2>3. /\ state' \in [User -> {"idle", "calling", "ringing", "in_call"}]
        /\ peer' \in [User -> User \cup {Nobody}]
        /\ modal' \in [User -> BOOLEAN]
        /\ overlay' \in [User -> BOOLEAN]
    BY <1>3, <2>1, ShowsType DEF RejectIncoming
  <2> QED
    BY <1>3, <2>2, <2>3 DEF RejectIncoming, TypeOK
<1>4. CASE EndCall(u)
  <2>1. peer[u] \in User \cup {Nobody}
    BY DEF TypeOK
  <2>2. inbox' \in [User -> Seq(Signal)]
    BY <1>4, <2>1, SendsType DEF EndCall, Ends, SignalType
  <2> QED
    BY <1>4, <2>2, CleanupType DEF EndCall, Ends, TypeOK
<1>5. CASE Relay(u)
  <2> DEFINE signal == Head(inbox[u])
  <2>1. signal \in Signal /\ Tail(inbox[u]) \in Seq(Signal)
    BY <1>5, NextSignal DEF Relay, TypeOK
  <2>2. signal.to \in User \cup {Nobody}
    BY <2>1 DEF Signal
  <2>3. send' \in [User -> Seq(Signal)]
    BY <1>5, <2>1, <2>2 DEF Relay, TypeOK
  <2> QED
    BY <1>5, <2>1, <2>3 DEF Relay, TypeOK
<1>6. CASE ConnectionLost(u)
  BY <1>6, CleanupType DEF ConnectionLost, TypeOK
<1> QED
  BY <1>1, <1>2, <1>3, <1>4, <1>5, <1>6

\* Handlers of signals keep the types up to their first await.
LEMMA ReceiveType ==
    ASSUME TypeOK, NEW u \in User, Receive(u)
    PROVE  TypeOK'
<1> USE DEF view, media, handlers, userVars
<1>1. CASE OnCallRequest(u)
  <2>1. Head(send[u]).from \in User /\ send' \in [User -> Seq(Signal)] /\ overlay[u] \in BOOLEAN
    BY <1>1, ReceivesType DEF OnCallRequest, Signal, TypeOK
  <2>2. inbox' \in [User -> Seq(Signal)]
    BY <1>1, <2>1, SendsType DEF OnCallRequest, SignalType, TypeOK
  <2>3. CASE state[u] = "idle"
    <3>1. Shows(u, "ringing", Head(send[u]).from, TRUE, overlay[u])
      BY <1>1, <2>3 DEF OnCallRequest
    <3>2. /\ state' \in [User -> {"idle", "calling", "ringing", "in_call"}]
          /\ peer' \in [User -> User \cup {Nobody}]
          /\ modal' \in [User -> BOOLEAN]
          /\ overlay' \in [User -> BOOLEAN]
      BY <2>1, <3>1, ShowsType
    <3> QED
      BY <1>1, <2>1, <2>2, <3>2 DEF OnCallRequest, Receives, TypeOK
  <2>4. CASE state[u] # "idle"
    BY <1>1, <2>1, <2>2, <2>4 DEF OnCallRequest, Receives, TypeOK
  <2> QED
    BY <2>3, <2>4
<1>2. CASE OnCallAccept(u)
  <2>1. send' \in [User -> Seq(Signal)]
    BY <1>2, ReceivesType DEF OnCallAccept
  <2>2. CASE state[u] = "calling"
    <3>1. peer[u] \in User \cup {Nobody} /\ modal[u] \in BOOLEAN /\ overlay[u] \in BOOLEAN
      BY DEF TypeOK
    <3>2. Shows(u, "in_call", peer[u], modal[u], overlay[u]) /\ Starts(u, "accept", "media")
      BY <1>2, <2>2 DEF OnCallAccept
    <3>3. /\ state' \in [User -> {"idle", "calling", "ringing", "in_call"}]
          /\ peer' \in [User -> User \cup {Nobody}]
          /\ modal' \in [User -> BOOLEAN]
          /\ overlay' \in [User -> BOOLEAN]
      BY <3>1, <3>2, ShowsType
    <3>4. started' \in [User -> Nat] /\ task' \in [User -> SUBSET Task]
      BY <3>2, StartsType
    <3> QED
      BY <1>2, <2>1, <3>3, <3>4 DEF OnCallAccept, Receives, TypeOK
  <2>3. CASE state[u] # "calling"
    BY <1>2, <2>1, <2>3 DEF OnCallAccept, Receives, TypeOK
  <2> QED
    BY <2>2, <2>3
<1>3. CASE OnCallOffer(u)
  BY <1>3, ReceivesType, StartsType DEF OnCallOffer, Receives, TypeOK
<1>4. CASE OnCallAnswer(u)
  <2>1. started' \in [User -> Nat] /\ task' \in [User -> SUBSET Task]
    BY <1>4, StartsType DEF OnCallAnswer, TypeOK
  <2> QED
    BY <1>4, <2>1, ReceivesType DEF OnCallAnswer, Receives, TypeOK
<1>5. CASE OnCallOver(u)
  <2>1. send' \in [User -> Seq(Signal)] /\ UNCHANGED userVars
    BY <1>5, ReceivesType DEF OnCallOver, Receives
  <2> QED
    BY <1>5, <2>1, CleanupType DEF OnCallOver, TypeOK
<1> QED
  BY <1>1, <1>2, <1>3, <1>4, <1>5 DEF Receive

\* Handlers that go on after an await keep the types.
LEMMA ResumeType ==
    ASSUME TypeOK, NEW u \in User, Resume(u)
    PROVE  TypeOK'
<1> USE DEF view, media, handlers, userVars
<1>0. \A t \in task[u] : t \in Task /\ t.no # 0 /\ t.no \in Nat
  BY DEF TypeOK, Task
<1>1. CASE MediaReady(u)
  <2>1. PICK t \in task[u] :
           /\ pc' = [pc EXCEPT ![u] = [id |-> t.no, sig |-> "new"]]
           /\ Awaits(u, t, IF t.kind = "offer" THEN "remote" ELSE "describe", Nobody)
    BY <1>1 DEF MediaReady
  <2>2. pc' \in [User -> PC]
    BY <1>0, <2>1 DEF TypeOK, PC
  <2>3. started' \in [User -> Nat] /\ task' \in [User -> SUBSET Task]
    BY <2>1, AwaitsType
  <2> QED
    BY <1>1, <2>2, <2>3 DEF MediaReady, TypeOK
<1>2. CASE Fails(u)
  <2>1. PICK t \in task[u] : Ends(u, {t}) /\ UNCHANGED <<send, userVars>>
    BY <1>2 DEF Fails
  <2>2. peer[u] \in User \cup {Nobody}
    BY DEF TypeOK
  <2>3. inbox' \in [User -> Seq(Signal)]
    BY <2>1, <2>2, SendsType DEF Ends, SignalType
  <2> QED
    BY <2>1, <2>3, CleanupType DEF Ends, TypeOK
<1>3. CASE RemoteSet(u)
  <2>1. PICK t \in task[u] :
           t.no = pc[u].id /\ pc' = [pc EXCEPT ![u].sig = "remote"] /\ Awaits(u, t, "describe", Nobody)
    BY <1>3 DEF RemoteSet
  <2>2. pc' \in [User -> PC]
    BY <1>0, <2>1, SigType
  <2>3. started' \in [User -> Nat] /\ task' \in [User -> SUBSET Task]
    BY <2>1, AwaitsType
  <2> QED
    BY <1>3, <2>2, <2>3 DEF RemoteSet, TypeOK
<1>4. CASE Described(u)
  <2>1. PICK t \in task[u] :
           /\ pc' = IF t.no # pc[u].id THEN pc
                    ELSE [pc EXCEPT ![u].sig = IF t.kind = "offer" THEN "stable" ELSE "local"]
           /\ Awaits(u, t, "encrypt", peer[u])
    BY <1>4 DEF Described
  <2>2. pc' \in [User -> PC]
    BY <1>0, <2>1, SigType DEF TypeOK
  <2>3. started' \in [User -> Nat] /\ task' \in [User -> SUBSET Task]
    BY <2>1, AwaitsType DEF TypeOK
  <2> QED
    BY <1>4, <2>2, <2>3 DEF Described, TypeOK
<1>5. CASE Encrypted(u)
  <2>1. PICK t \in task[u] :
           /\ Sends(u, IF t.kind = "offer" THEN "call_answer" ELSE "call_offer", t.to)
           /\ task' = [task EXCEPT ![u] = @ \ {t}]
    BY <1>5 DEF Encrypted
  <2>2. t.to \in User \cup {Nobody}
    BY <1>0 DEF Task
  <2>3. inbox' \in [User -> Seq(Signal)]
    BY <2>1, <2>2, SendsType DEF SignalType
  <2> QED
    BY <1>5, <2>1, <2>3 DEF Encrypted, TypeOK
<1>6. CASE AnswerSet(u)
  <2>1. pc' \in [User -> PC]
    <3>1. CASE pc[u].sig = "local"
      <4>1. pc[u].id # 0 /\ pc' = [pc EXCEPT ![u].sig = "stable"]
        BY <1>6, <3>1 DEF AnswerSet, TypeOK, PC, NoPC
      <4> QED
        BY <4>1, SigType
    <3>2. CASE pc[u].sig # "local"
      BY <1>6, <3>2 DEF AnswerSet, TypeOK
    <3> QED
      BY <3>1, <3>2
  <2> QED
    BY <1>6, <2>1 DEF AnswerSet, TypeOK
<1> QED
  BY <1>1, <1>2, <1>3, <1>4, <1>5, <1>6 DEF Resume

\* The variables of all browsers keep their types.
THEOREM TypeCorrect == Spec => []TypeOK
<1>1. Init => TypeOK
  <2>1. <<>> \in Seq(Signal) /\ 0 \in 0..MaxCalls
    BY BoundAssumption
  <2>2. Init => inbox \in [User -> Seq(Signal)] /\ send \in [User -> Seq(Signal)]
    BY <2>1 DEF Init
  <2>3. Init => pc \in [User -> PC]
    BY DEF Init, PC
  <2> QED
    BY <2>1, <2>2, <2>3 DEF Init, TypeOK
<1>2. TypeOK /\ [Next]_vars => TypeOK'
  <2>1. TypeOK /\ Next => TypeOK'
    BY UserStepType, ReceiveType, ResumeType DEF Next
  <2>2. TypeOK /\ UNCHANGED vars => TypeOK'
    BY DEF TypeOK, vars
  <2> QED
    BY <2>1, <2>2
<1> QED
  BY <1>1, <1>2, PTL DEF Spec

(***************************************************************************)
(* Buttons                                                                 *)
(***************************************************************************)

\* A view that fits keeps the views of all users fitting.
LEMMA ShowsButtons ==
    ASSUME TypeOK, ButtonsFitState, NEW u \in User, NEW s, NEW p, NEW m, NEW o,
           Shows(u, s, p, m, o),
           m <=> s = "ringing", o <=> s \in {"calling", "in_call"}, p = Nobody <=> s = "idle",
           m \in BOOLEAN, o \in BOOLEAN
    PROVE  ButtonsFitState'
<1> SUFFICES ASSUME NEW v \in User
             PROVE  /\ modal'[v] <=> state'[v] = "ringing"
                    /\ overlay'[v] <=> state'[v] \in {"calling", "in_call"}
                    /\ peer'[v] = Nobody <=> state'[v] = "idle"
  BY DEF ButtonsFitState
<1>1. CASE v = u
  BY <1>1 DEF Shows, TypeOK
<1>2. CASE v # u
  BY <1>2 DEF Shows, TypeOK, ButtonsFitState
<1> QED
  BY <1>1, <1>2

\* cleanup leaves no button without its state.
LEMMA CleanupButtons ==
    ASSUME TypeOK, ButtonsFitState, NEW u \in User, NEW done, Cleanup(u, done)
    PROVE  ButtonsFitState'
BY ShowsButtons DEF Cleanup

\* Who changes nothing of the view keeps the buttons fitting.
LEMMA UnchangedButtons ==
    ASSUME ButtonsFitState, UNCHANGED view
    PROVE  ButtonsFitState'
BY DEF ButtonsFitState, view

\* Every step keeps buttons and states fitting.
LEMMA StepButtons ==
    ASSUME TypeOK, ButtonsFitState, NEW u \in User,
           \/ \E v \in User : StartCall(u, v)
           \/ AcceptIncoming(u) \/ RejectIncoming(u) \/ EndCall(u)
           \/ Receive(u) \/ Resume(u) \/ Relay(u) \/ ConnectionLost(u)
    PROVE  ButtonsFitState'
<1>1. ASSUME NEW v \in User, StartCall(u, v)
      PROVE  ButtonsFitState'
  <2>1. state[u] = "idle" /\ Shows(u, "calling", v, modal[u], TRUE)
    BY <1>1 DEF StartCall
  <2>2. modal[u] = FALSE /\ v # Nobody
    BY <2>1, NobodyAssumption DEF ButtonsFitState, TypeOK
  <2>3. Shows(u, "calling", v, FALSE, TRUE)
    BY <2>1, <2>2
  <2> QED
    BY <2>2, <2>3, ShowsButtons
<1>2. CASE AcceptIncoming(u)
  <2>1. peer[u] # Nobody /\ Shows(u, "in_call", peer[u], FALSE, TRUE)
    BY <1>2 DEF AcceptIncoming, ButtonsFitState
  <2> QED
    BY <2>1, ShowsButtons
<1>3. CASE RejectIncoming(u)
  <2>1. overlay[u] = FALSE
    BY <1>3 DEF RejectIncoming, ButtonsFitState, TypeOK
  <2>2. Shows(u, "idle", Nobody, FALSE, FALSE)
    BY <1>3, <2>1 DEF RejectIncoming
  <2> QED
    BY <2>2, ShowsButtons
<1>4. CASE EndCall(u)
  BY <1>4, CleanupButtons DEF EndCall, Ends
<1>5. CASE OnCallRequest(u)
  <2>1. CASE state[u] = "idle"
    <3>1. Head(send[u]).from # Nobody
      BY <1>5, ReceivesType, NobodyAssumption DEF OnCallRequest, Signal
    <3>2. overlay[u] = FALSE
      BY <2>1 DEF ButtonsFitState, TypeOK
    <3>3. Shows(u, "ringing", Head(send[u]).from, TRUE, FALSE)
      BY <1>5, <2>1, <3>2 DEF OnCallRequest
    <3> QED
      BY <3>1, <3>3, ShowsButtons
  <2>2. CASE state[u] # "idle"
    BY <1>5, <2>2, UnchangedButtons DEF OnCallRequest
  <2> QED
    BY <2>1, <2>2
<1>6. CASE OnCallAccept(u)
  <2>1. CASE state[u] = "calling"
    <3>1. modal[u] = FALSE /\ overlay[u] = TRUE /\ peer[u] # Nobody
      BY <2>1 DEF ButtonsFitState, TypeOK
    <3>2. Shows(u, "in_call", peer[u], FALSE, TRUE)
      BY <1>6, <2>1, <3>1 DEF OnCallAccept
    <3> QED
      BY <3>1, <3>2, ShowsButtons
  <2>2. CASE state[u] # "calling"
    BY <1>6, <2>2, UnchangedButtons DEF OnCallAccept
  <2> QED
    BY <2>1, <2>2
<1>7. CASE OnCallOffer(u) \/ OnCallAnswer(u) \/ Relay(u)
  BY <1>7, UnchangedButtons DEF OnCallOffer, OnCallAnswer, Relay
<1>8. CASE OnCallOver(u)
  BY <1>8, CleanupButtons DEF OnCallOver
<1>9. CASE Fails(u)
  BY <1>9, CleanupButtons DEF Fails, Ends
<1>10. CASE MediaReady(u) \/ RemoteSet(u) \/ Described(u) \/ Encrypted(u) \/ AnswerSet(u)
  BY <1>10, UnchangedButtons DEF MediaReady, RemoteSet, Described, Encrypted, AnswerSet
<1>11. CASE ConnectionLost(u)
  BY <1>11, CleanupButtons DEF ConnectionLost
<1> QED
  BY <1>1, <1>2, <1>3, <1>4, <1>5, <1>6, <1>7, <1>8, <1>9, <1>10, <1>11 DEF Receive, Resume

\* The modal shows when it rings and the overlay when there is a call, so that
\* accept, reject and end always have a party to tell, whatever signals come.
THEOREM ButtonsFitStateHolds == Spec => []ButtonsFitState
<1>1. Init => ButtonsFitState
  BY DEF Init, ButtonsFitState
<1>2. TypeOK /\ ButtonsFitState /\ [Next]_vars => ButtonsFitState'
  <2>1. TypeOK /\ ButtonsFitState /\ Next => ButtonsFitState'
    BY StepButtons DEF Next
  <2>2. ButtonsFitState /\ UNCHANGED vars => ButtonsFitState'
    BY UnchangedButtons DEF vars, view
  <2> QED
    BY <2>1, <2>2
<1> QED
  BY <1>1, <1>2, TypeCorrect, PTL DEF Spec

(***************************************************************************)
(* Media                                                                   *)
(***************************************************************************)

\* cleanup clears stream and connection together.
LEMMA CleanupMedia ==
    ASSUME TypeOK, ConnectionHasMedia, NEW u \in User, NEW done, Cleanup(u, done)
    PROVE  ConnectionHasMedia'
BY DEF Cleanup, ConnectionHasMedia, TypeOK

\* Who touches neither stream nor connection keeps them together.
LEMMA UnchangedMedia ==
    ASSUME ConnectionHasMedia, UNCHANGED media
    PROVE  ConnectionHasMedia'
BY DEF ConnectionHasMedia, media

\* A connection that changes its state keeps its stream.
LEMMA SigMedia ==
    ASSUME TypeOK, ConnectionHasMedia, NEW u \in User, UNCHANGED stream,
           NEW sig \in {"new", "local", "remote", "stable"},
           \/ UNCHANGED pc
           \/ pc[u].id # 0 /\ pc' = [pc EXCEPT ![u].sig = sig]
    PROVE  ConnectionHasMedia'
<1>1. \A v \in User : pc'[v] # NoPC => pc[v] # NoPC
  BY SigType
<1> QED
  BY <1>1 DEF ConnectionHasMedia

\* Every step keeps a connection with its stream.
LEMMA StepMedia ==
    ASSUME TypeOK, ConnectionHasMedia, NEW u \in User,
           \/ \E v \in User : StartCall(u, v)
           \/ AcceptIncoming(u) \/ RejectIncoming(u) \/ EndCall(u)
           \/ Receive(u) \/ Resume(u) \/ Relay(u) \/ ConnectionLost(u)
    PROVE  ConnectionHasMedia'
<1>0. \A t \in task[u] : t.no # 0
  BY DEF TypeOK, Task
<1>1. CASE \/ \E v \in User : StartCall(u, v)
           \/ AcceptIncoming(u) \/ RejectIncoming(u) \/ Relay(u)
  BY <1>1, UnchangedMedia DEF StartCall, AcceptIncoming, RejectIncoming, Relay
<1>2. CASE EndCall(u) \/ OnCallOver(u) \/ ConnectionLost(u) \/ Fails(u)
  BY <1>2, CleanupMedia DEF EndCall, OnCallOver, ConnectionLost, Fails, Ends
<1>3. CASE OnCallRequest(u) \/ OnCallAccept(u) \/ OnCallOffer(u) \/ OnCallAnswer(u) \/ Encrypted(u)
  BY <1>3, UnchangedMedia DEF OnCallRequest, OnCallAccept, OnCallOffer, OnCallAnswer, Encrypted
<1>4. CASE MediaReady(u)
  BY <1>4 DEF MediaReady, ConnectionHasMedia, TypeOK
<1>5. CASE RemoteSet(u)
  BY <1>0, <1>5, SigMedia DEF RemoteSet
<1>6. CASE Described(u)
  <2>1. PICK t \in task[u] :
           /\ pc' = IF t.no # pc[u].id THEN pc
                    ELSE [pc EXCEPT ![u].sig = IF t.kind = "offer" THEN "stable" ELSE "local"]
           /\ UNCHANGED stream
    BY <1>6 DEF Described
  <2> QED
    BY <1>0, <2>1, SigMedia
<1>7. CASE AnswerSet(u)
  <2>1. pc[u].sig = "local" => pc[u].id # 0
    BY DEF TypeOK, PC, NoPC
  <2> QED
    BY <1>7, <2>1, SigMedia DEF AnswerSet
<1> QED
  BY <1>1, <1>2, <1>3, <1>4, <1>5, <1>6, <1>7 DEF Receive, Resume

\* addTrack after the awaits always finds a local stream: a peer connection is
\* never without one, for any number of users and calls.
THEOREM ConnectionHasMediaHolds == Spec => []ConnectionHasMedia
<1>1. Init => ConnectionHasMedia
  BY DEF Init, ConnectionHasMedia
<1>2. TypeOK /\ ConnectionHasMedia /\ [Next]_vars => ConnectionHasMedia'
  <2>1. TypeOK /\ ConnectionHasMedia /\ Next => ConnectionHasMedia'
    BY StepMedia DEF Next
  <2>2. ConnectionHasMedia /\ UNCHANGED vars => ConnectionHasMedia'
    BY UnchangedMedia DEF vars, media
  <2> QED
    BY <2>1, <2>2
<1> QED
  BY <1>1, <1>2, TypeCorrect, PTL DEF Spec

(***************************************************************************)
(* The first call                                                          *)
(***************************************************************************)

\* Before the first call nothing has happened.
NoCallYet ==
    \A u \in User :
        /\ state[u] = "idle" /\ ~modal[u] /\ ~overlay[u] /\ peer[u] = Nobody
        /\ ~stream[u] /\ pc[u] = NoPC /\ task[u] = {}
        /\ inbox[u] = <<>> /\ send[u] = <<>>

\* Signals of a call to v: it is v who is asked, and accepted once A has v; v is
\* offered a connection only then.
CallTo(v, A) ==
    {s \in Signal :
        /\ s.type = "call_request" => s.to = v
        /\ s.type = "call_accept" => v \in A
        /\ s.type = "call_offer" => v \in A /\ s.to \in {v, Nobody}}

\* Handlers of u in a call of c to v
TaskOf(u, c, v, A) ==
    {t \in Task :
        /\ t.kind = "accept" => u = c /\ v \in A /\ (t.at = "encrypt" => t.to \in {v, Nobody})
        /\ t.kind = "offer" => u \in A
        /\ t.kind = "answer" => t.at = "decrypt"}

\* c called v, and nobody called since.
Between(c, v) ==
    /\ c # v /\ c \in agreed
    /\ peer[c] \in {v, Nobody}
    /\ \A u \in User :
          /\ state[u] = "calling" => u = c
          /\ state[u] = "ringing" => u = v
          /\ stream[u] => u \in agreed
          /\ task[u] \subseteq TaskOf(u, c, v, agreed)
          /\ inbox[u] \in Seq(CallTo(v, agreed))
          /\ send[u] \in Seq({s \in CallTo(v, agreed) : s.to = u})

FirstCallInv ==
    /\ calls = 0 => NoCallYet
    /\ calls = 1 => \E c, v \in User : Between(c, v)

\* A wire of some signals is a wire of more signals.
LEMMA WireGrows ==
    ASSUME NEW S, NEW T, S \subseteq T, NEW q \in Seq(S)
    PROVE  q \in Seq(T)
<1>1. q \in [1..Len(q) -> S] /\ Len(q) \in Nat
  OBVIOUS
<1>2. q \in [1..Len(q) -> T]
  BY <1>1
<1> QED
  BY <1>1, <1>2

\* What has agreed has agreed for good.
LEMMA AgreedGrows ==
    ASSUME NEW c, NEW v, Between(c, v), NEW A, agreed \subseteq A, NEW u \in User
    PROVE  /\ stream[u] => u \in A
           /\ task[u] \subseteq TaskOf(u, c, v, A)
           /\ inbox[u] \in Seq(CallTo(v, A))
           /\ send[u] \in Seq({s \in CallTo(v, A) : s.to = u})
<1>1. CallTo(v, agreed) \subseteq CallTo(v, A)
  BY DEF CallTo
<1>2. TaskOf(u, c, v, agreed) \subseteq TaskOf(u, c, v, A)
  BY DEF TaskOf
<1>3. inbox[u] \in Seq(CallTo(v, A))
  BY <1>1, WireGrows DEF Between
<1>4. send[u] \in Seq({s \in CallTo(v, A) : s.to = u})
  <2>1. {s \in CallTo(v, agreed) : s.to = u} \subseteq {s \in CallTo(v, A) : s.to = u}
    BY <1>1
  <2>2. send[u] \in Seq({s \in CallTo(v, agreed) : s.to = u})
    BY DEF Between
  <2> QED
    BY <2>1, <2>2, WireGrows
<1> QED
  BY <1>2, <1>3, <1>4 DEF Between

\* What a step may do to the first call
LEMMA BetweenGrows ==
    ASSUME NEW c \in User, NEW v \in User, Between(c, v), agreed \subseteq agreed',
           peer'[c] \in {peer[c], Nobody},
           \A x \in User : state'[x] = "calling" => state[x] = "calling",
           \A x \in User : state'[x] = "ringing" => state[x] = "ringing" \/ x = v,
           \A x \in User : stream'[x] => stream[x] \/ x \in agreed',
           \A x \in User : \A t \in task'[x] : t \in task[x] \/ t \in TaskOf(x, c, v, agreed'),
           \A x \in User : inbox'[x] \in Seq(CallTo(v, agreed')),
           \A x \in User : send'[x] \in Seq({s \in CallTo(v, agreed') : s.to = x})
    PROVE  Between(c, v)'
<1>1. \A u \in User : /\ stream[u] => u \in agreed'
                      /\ task[u] \subseteq TaskOf(u, c, v, agreed')
  BY AgreedGrows
<1>2. \A u \in User :
        /\ state'[u] = "calling" => u = c
        /\ state'[u] = "ringing" => u = v
        /\ stream'[u] => u \in agreed'
        /\ task'[u] \subseteq TaskOf(u, c, v, agreed')
  BY <1>1 DEF Between
<1> QED
  BY <1>2 DEF Between

\* The same, when nobody agrees in it.
LEMMA BetweenStep ==
    ASSUME NEW c \in User, NEW v \in User, Between(c, v), agreed' = agreed,
           peer'[c] \in {peer[c], Nobody},
           \A x \in User : state'[x] = "calling" => state[x] = "calling",
           \A x \in User : state'[x] = "ringing" => state[x] = "ringing" \/ x = v,
           \A x \in User : stream'[x] => stream[x] \/ x \in agreed,
           \A x \in User : \A t \in task'[x] : t \in task[x] \/ t \in TaskOf(x, c, v, agreed),
           \A x \in User : inbox'[x] \in Seq(CallTo(v, agreed)),
           \A x \in User : send'[x] \in Seq({s \in CallTo(v, agreed) : s.to = x})
    PROVE  Between(c, v)'
<1>1. \A u \in User : /\ stream[u] => u \in agreed
                      /\ task[u] \subseteq TaskOf(u, c, v, agreed)
  BY DEF Between
<1>2. \A u \in User :
        /\ state'[u] = "calling" => u = c
        /\ state'[u] = "ringing" => u = v
        /\ stream'[u] => u \in agreed
        /\ task'[u] \subseteq TaskOf(u, c, v, agreed)
  BY <1>1 DEF Between
<1> QED
  BY <1>2 DEF Between

\* send() of a signal that fits the call
LEMMA SendsCall ==
    ASSUME TypeOK, NEW u \in User, NEW type \in SignalType, NEW to \in User \cup {Nobody},
           Sends(u, type, to), NEW v \in User, NEW A,
           \A x \in User : inbox[x] \in Seq(CallTo(v, A)),
           type = "call_request" => to = v,
           type = "call_accept" => v \in A,
           type = "call_offer" => v \in A /\ to \in {v, Nobody}
    PROVE  \A x \in User : inbox'[x] \in Seq(CallTo(v, A))
<1> DEFINE s == [type |-> type, from |-> u, to |-> to]
<1>1. s \in CallTo(v, A)
  BY DEF CallTo, Signal
<1>2. \A x \in User : inbox'[x] = IF x = u THEN Append(inbox[u], s) ELSE inbox[x]
  BY DEF Sends, TypeOK
<1> HIDE DEF s
<1> DEFINE S == CallTo(v, A)
<1>3. s \in S /\ \A x \in User : inbox[x] \in Seq(S)
  BY <1>1
<1> HIDE DEF S
<1>4. Append(inbox[u], s) \in Seq(S)
  BY <1>3
<1>5. \A x \in User : inbox'[x] \in Seq(S)
  BY <1>2, <1>3, <1>4
<1> QED
  BY <1>5 DEF S

\* A signal that is received fitted the call, and so do the others.
LEMMA ReceivesCall ==
    ASSUME TypeOK, NEW u \in User, NEW type, Receives(u, type), NEW c, NEW v, Between(c, v)
    PROVE  /\ agreed' = agreed /\ calls' = calls
           /\ Head(send[u]) \in CallTo(v, agreed)
           /\ Head(send[u]).to = u /\ Head(send[u]).type = type
           /\ \A x \in User : send'[x] \in Seq({s \in CallTo(v, agreed) : s.to = x})
<1>1. \A x \in User : send[x] \in Seq({s \in CallTo(v, agreed) : s.to = x})
  BY DEF Between
<1>2. /\ send[u] # <<>> /\ Head(send[u]).type = type /\ UNCHANGED userVars
      /\ \A x \in User : send'[x] = IF x = u THEN Tail(send[u]) ELSE send[x]
  BY DEF Receives, TypeOK
<1>3. /\ Head(send[u]) \in {s \in CallTo(v, agreed) : s.to = u}
      /\ Tail(send[u]) \in Seq({s \in CallTo(v, agreed) : s.to = u})
  BY <1>1, <1>2
<1> QED
  BY <1>1, <1>2, <1>3 DEF userVars

\* cleanup takes away: it makes no state, party, stream or handler that was not there.
LEMMA CleanupCall ==
    ASSUME TypeOK, NEW u \in User, NEW done, Cleanup(u, done)
    PROVE  /\ \A x \in User :
                /\ state'[x] \in {"calling", "ringing"} => state'[x] = state[x]
                /\ peer'[x] \in {peer[x], Nobody}
                /\ stream'[x] => stream[x]
                /\ \A t \in task'[x] : t \in task[x]
BY DEF Cleanup, Shows, TypeOK

\* A new handler that fits the call leaves only handlers that do.
LEMMA StartsCall ==
    ASSUME TypeOK, NEW u \in User, NEW kind \in {"accept", "offer", "answer"},
           NEW at \in {"media", "decrypt"}, Starts(u, kind, at),
           NEW c, NEW v, NEW A,
           kind = "accept" => u = c /\ v \in A,
           kind = "offer" => u \in A,
           kind = "answer" => at = "decrypt"
    PROVE  \A x \in User : \A t \in task'[x] : t \in task[x] \/ t \in TaskOf(x, c, v, A)
<1> DEFINE n == [no |-> started[u] + 1, kind |-> kind, at |-> at, to |-> Nobody]
<1>1. started[u] + 1 \in Nat \ {0}
  BY DEF TypeOK
<1>2. n \in TaskOf(u, c, v, A)
  BY <1>1 DEF TaskOf, Task
<1>3. \A x \in User : \A t \in task'[x] : t \in task[x] \/ (x = u /\ t = n)
  BY DEF Starts, TypeOK
<1> QED
  BY <1>2, <1>3

\* A handler that goes on still fits the call.
LEMMA AwaitsCall ==
    ASSUME TypeOK, NEW u \in User, NEW t \in task[u],
           NEW at \in {"remote", "describe", "encrypt"}, NEW to \in User \cup {Nobody},
           Awaits(u, t, at, to), NEW c, NEW v, Between(c, v),
           t.kind # "answer", t.kind = "accept" /\ at = "encrypt" => to \in {v, Nobody}
    PROVE  \A x \in User : \A y \in task'[x] : y \in task[x] \/ y \in TaskOf(x, c, v, agreed)
<1> DEFINE n == [t EXCEPT !.at = at, !.to = to]
<1>1. t \in TaskOf(u, c, v, agreed) /\ t \in Task
  BY DEF Between, TypeOK
<1>2. n \in Task /\ n.kind = t.kind /\ n.at = at /\ n.to = to
  BY <1>1 DEF Task
<1>3. n \in TaskOf(u, c, v, agreed)
  BY <1>1, <1>2 DEF TaskOf
<1>4. \A x \in User : \A y \in task'[x] : y \in task[x] \/ (x = u /\ y = n)
  BY DEF Awaits, TypeOK
<1> QED
  BY <1>3, <1>4

\* Every step but a second call is a step of the first.
LEMMA BetweenUser ==
    ASSUME TypeOK, ButtonsFitState, NEW c \in User, NEW v \in User, Between(c, v), NEW u \in User,
           AcceptIncoming(u) \/ RejectIncoming(u) \/ EndCall(u) \/ Relay(u) \/ ConnectionLost(u)
    PROVE  Between(c, v)'
<1> USE DEF media, handlers, userVars, view
<1>1. peer[u] \in User \cup {Nobody}
  BY DEF TypeOK
<1>2. CASE AcceptIncoming(u)
  <2>1. u = v /\ modal[u]
    BY <1>2 DEF AcceptIncoming, ButtonsFitState, Between
  <2>2. /\ agreed' = agreed \cup {u} /\ Sends(u, "call_accept", peer[u])
        /\ Shows(u, "in_call", peer[u], FALSE, TRUE)
        /\ UNCHANGED <<stream, task, send>>
    BY <1>2 DEF AcceptIncoming
  <2>3. agreed \subseteq agreed' /\ v \in agreed'
    BY <2>1, <2>2
  <2>4. /\ \A x \in User : inbox[x] \in Seq(CallTo(v, agreed'))
        /\ \A x \in User : send[x] \in Seq({s \in CallTo(v, agreed') : s.to = x})
    <3> DEFINE A == agreed'
    <3>1. agreed \subseteq A
      BY <2>3
    <3> HIDE DEF A
    <3>2. \A x \in User : inbox[x] \in Seq(CallTo(v, A))
      BY <3>1, AgreedGrows
    <3>3. \A x \in User : send[x] \in Seq({s \in CallTo(v, A) : s.to = x})
      BY <3>1, AgreedGrows
    <3> QED
      BY <3>2, <3>3 DEF A
  <2>5. \A x \in User : inbox'[x] \in Seq(CallTo(v, agreed'))
    BY <1>1, <2>2, <2>3, <2>4, SendsCall DEF SignalType
  <2>6. \A x \in User : /\ state'[x] = IF x = u THEN "in_call" ELSE state[x]
                        /\ peer'[x] = peer[x]
    BY <2>2 DEF Shows, TypeOK
  <2>7. /\ peer'[c] \in {peer[c], Nobody}
        /\ \A x \in User : state'[x] = "calling" => state[x] = "calling"
        /\ \A x \in User : state'[x] = "ringing" => state[x] = "ringing" \/ x = v
    BY <2>6
  <2>8. /\ \A x \in User : stream'[x] => stream[x] \/ x \in agreed'
        /\ \A x \in User : \A t \in task'[x] : t \in task[x] \/ t \in TaskOf(x, c, v, agreed')
    BY <2>2
  <2>9. \A x \in User : send'[x] \in Seq({s \in CallTo(v, agreed') : s.to = x})
    BY <2>2, <2>4
  <2> QED
    BY <2>3, <2>5, <2>7, <2>8, <2>9, BetweenGrows
<1>3. CASE RejectIncoming(u)
  <2>1. /\ agreed' = agreed /\ Sends(u, "call_reject", peer[u])
        /\ Shows(u, "idle", Nobody, FALSE, overlay[u])
        /\ UNCHANGED <<stream, task, send>>
    BY <1>3 DEF RejectIncoming
  <2>2. /\ \A x \in User : inbox[x] \in Seq(CallTo(v, agreed))
        /\ \A x \in User : send[x] \in Seq({s \in CallTo(v, agreed) : s.to = x})
    BY DEF Between
  <2>3. \A x \in User : inbox'[x] \in Seq(CallTo(v, agreed))
    BY <1>1, <2>1, <2>2, SendsCall DEF SignalType
  <2>4. \A x \in User : /\ state'[x] = IF x = u THEN "idle" ELSE state[x]
                        /\ peer'[x] \in {peer[x], Nobody}
    BY <2>1 DEF Shows, TypeOK
  <2> QED
    BY <2>1, <2>2, <2>3, <2>4, BetweenStep
<1>4. CASE EndCall(u)
  <2>1. /\ agreed' = agreed /\ Sends(u, "call_end", peer[u]) /\ Cleanup(u, {}) /\ send' = send
    BY <1>4 DEF EndCall, Ends
  <2>2. /\ \A x \in User : inbox[x] \in Seq(CallTo(v, agreed))
        /\ \A x \in User : send[x] \in Seq({s \in CallTo(v, agreed) : s.to = x})
    BY DEF Between
  <2>3. \A x \in User : inbox'[x] \in Seq(CallTo(v, agreed))
    BY <1>1, <2>1, <2>2, SendsCall DEF SignalType
  <2> QED
    BY <2>1, <2>2, <2>3, CleanupCall, BetweenStep
<1>5. CASE Relay(u)
  <2> DEFINE s == Head(inbox[u])
  <2>1. /\ inbox[u] # <<>> /\ agreed' = agreed
        /\ inbox' = [inbox EXCEPT ![u] = Tail(@)]
        /\ send' = IF s.to = Nobody THEN send ELSE [send EXCEPT ![s.to] = Append(@, s)]
        /\ UNCHANGED <<state, peer, stream, task>>
    BY <1>5 DEF Relay
  <2>2. /\ \A x \in User : inbox[x] \in Seq(CallTo(v, agreed))
        /\ \A x \in User : send[x] \in Seq({y \in CallTo(v, agreed) : y.to = x})
    BY DEF Between
  <2>3. s \in CallTo(v, agreed) /\ Tail(inbox[u]) \in Seq(CallTo(v, agreed))
    BY <2>1, <2>2
  <2>4. s.to \in User \cup {Nobody}
    BY <2>3 DEF CallTo, Signal
  <2> HIDE DEF s
  <2>5. \A x \in User : inbox'[x] \in Seq(CallTo(v, agreed))
    <3>1. \A x \in User : inbox'[x] = IF x = u THEN Tail(inbox[u]) ELSE inbox[x]
      BY <2>1 DEF TypeOK
    <3> QED
      BY <2>2, <2>3, <3>1
  <2>6. \A x \in User : send'[x] \in Seq({y \in CallTo(v, agreed) : y.to = x})
    <3>1. CASE s.to = Nobody
      BY <2>1, <2>2, <3>1
    <3>2. CASE s.to # Nobody
      <4>1. s.to \in User
        BY <2>4, <3>2
      <4>2. \A x \in User : send'[x] = IF x = s.to THEN Append(send[s.to], s) ELSE send[x]
        BY <2>1, <3>2, <4>1 DEF TypeOK
      <4> DEFINE T == {y \in CallTo(v, agreed) : y.to = s.to}
      <4>3. s \in T /\ send[s.to] \in Seq(T)
        BY <2>2, <2>3, <4>1
      <4> HIDE DEF T
      <4>4. Append(send[s.to], s) \in Seq(T)
        BY <4>3
      <4>5. Append(send[s.to], s) \in Seq({y \in CallTo(v, agreed) : y.to = s.to})
        BY <4>4 DEF T
      <4> QED
        BY <2>2, <4>2, <4>5
    <3> QED
      BY <3>1, <3>2
  <2> QED
    BY <2>1, <2>5, <2>6, BetweenStep
<1>6. CASE ConnectionLost(u)
  <2>1. agreed' = agreed /\ Cleanup(u, {}) /\ UNCHANGED <<inbox, send>>
    BY <1>6 DEF ConnectionLost
  <2>2. /\ \A x \in User : inbox[x] \in Seq(CallTo(v, agreed))
        /\ \A x \in User : send[x] \in Seq({s \in CallTo(v, agreed) : s.to = x})
    BY DEF Between
  <2> QED
    BY <2>1, <2>2, CleanupCall, BetweenStep
<1> QED
  BY <1>2, <1>3, <1>4, <1>5, <1>6

\* Handlers of signals keep the first call between its two users.
LEMMA BetweenReceive ==
    ASSUME TypeOK, NEW c \in User, NEW v \in User, Between(c, v), NEW u \in User, Receive(u)
    PROVE  Between(c, v)' /\ calls' = calls
<1> USE DEF media, handlers, userVars, view
<1> DEFINE s == Head(send[u])
<1>1. \A x \in User : inbox[x] \in Seq(CallTo(v, agreed))
  BY DEF Between
<1>2. CASE OnCallRequest(u)
  <2>1. Receives(u, "call_request") /\ UNCHANGED <<stream, task>>
    BY <1>2 DEF OnCallRequest
  <2>2. /\ agreed' = agreed /\ calls' = calls /\ s \in CallTo(v, agreed) /\ s.to = u
        /\ s.type = "call_request"
        /\ \A x \in User : send'[x] \in Seq({y \in CallTo(v, agreed) : y.to = x})
    BY <2>1, ReceivesCall
  <2>3. u = v /\ s.from \in User
    BY <2>2 DEF CallTo, Signal
  <2> HIDE DEF s
  <2>4. \A x \in User : inbox'[x] \in Seq(CallTo(v, agreed))
    <3>1. CASE Sends(u, "call_reject", s.from)
      BY <1>1, <2>3, <3>1, SendsCall DEF SignalType
    <3>2. CASE inbox' = inbox
      BY <1>1, <3>2
    <3> QED
      BY <1>2, <3>1, <3>2 DEF OnCallRequest, s
  <2>5. /\ \A x \in User : state'[x] # state[x] => state'[x] = "ringing" /\ x = v
        /\ peer'[c] = peer[c]
    <3>1. c # v
      BY DEF Between
    <3>2. CASE Shows(u, "ringing", s.from, TRUE, overlay[u])
      BY <2>3, <3>1, <3>2 DEF Shows, TypeOK
    <3>3. CASE UNCHANGED <<state, peer>>
      BY <3>3
    <3> QED
      BY <1>2, <3>2, <3>3 DEF OnCallRequest, s
  <2> QED
    BY <2>1, <2>2, <2>4, <2>5, BetweenStep
<1>3. CASE OnCallAccept(u)
  <2>1. Receives(u, "call_accept") /\ UNCHANGED <<stream, inbox>>
    BY <1>3 DEF OnCallAccept
  <2>2. /\ agreed' = agreed /\ calls' = calls /\ s \in CallTo(v, agreed)
        /\ s.type = "call_accept"
        /\ \A x \in User : send'[x] \in Seq({y \in CallTo(v, agreed) : y.to = x})
    BY <2>1, ReceivesCall
  <2>3. v \in agreed
    BY <2>2 DEF CallTo
  <2>4. CASE state[u] = "calling"
    <3>1. u = c
      BY <2>4 DEF Between
    <3>2. Shows(u, "in_call", peer[u], modal[u], overlay[u]) /\ Starts(u, "accept", "media")
      BY <1>3, <2>4 DEF OnCallAccept
    <3>3. \A x \in User : \A t \in task'[x] : t \in task[x] \/ t \in TaskOf(x, c, v, agreed)
      BY <2>3, <3>1, <3>2, StartsCall
    <3>4. \A x \in User : /\ state'[x] = IF x = u THEN "in_call" ELSE state[x]
                          /\ peer'[x] = peer[x]
      BY <3>2 DEF Shows, TypeOK
    <3> QED
      BY <1>1, <2>1, <2>2, <3>3, <3>4, BetweenStep
  <2>5. CASE UNCHANGED <<state, peer, task>>
    BY <1>1, <2>1, <2>2, <2>5, BetweenStep
  <2> QED
    BY <1>3, <2>4, <2>5 DEF OnCallAccept
<1>4. CASE OnCallOffer(u)
  <2>1. /\ Receives(u, "call_offer") /\ Starts(u, "offer", "media")
        /\ UNCHANGED <<state, peer, stream, inbox>>
    BY <1>4 DEF OnCallOffer
  <2>2. /\ agreed' = agreed /\ calls' = calls /\ s \in CallTo(v, agreed) /\ s.to = u
        /\ s.type = "call_offer"
        /\ \A x \in User : send'[x] \in Seq({y \in CallTo(v, agreed) : y.to = x})
    BY <2>1, ReceivesCall
  <2>3. u \in agreed
    BY <2>2, NobodyAssumption DEF CallTo
  <2>4. \A x \in User : \A t \in task'[x] : t \in task[x] \/ t \in TaskOf(x, c, v, agreed)
    BY <2>1, <2>3, StartsCall
  <2> QED
    BY <1>1, <2>1, <2>2, <2>4, BetweenStep
<1>5. CASE OnCallAnswer(u)
  <2>1. Receives(u, "call_answer") /\ UNCHANGED <<state, peer, stream, inbox>>
    BY <1>5 DEF OnCallAnswer
  <2>2. /\ agreed' = agreed /\ calls' = calls
        /\ \A x \in User : send'[x] \in Seq({y \in CallTo(v, agreed) : y.to = x})
    BY <2>1, ReceivesCall
  <2>3. \A x \in User : \A t \in task'[x] : t \in task[x] \/ t \in TaskOf(x, c, v, agreed)
    <3>1. CASE Starts(u, "answer", "decrypt")
      BY <3>1, StartsCall
    <3>2. CASE task' = task
      BY <3>2
    <3> QED
      BY <1>5, <3>1, <3>2 DEF OnCallAnswer
  <2> QED
    BY <1>1, <2>1, <2>2, <2>3, BetweenStep
<1>6. CASE OnCallOver(u)
  <2>1. \E type : Receives(u, type)
    BY <1>6 DEF OnCallOver
  <2>2. /\ agreed' = agreed /\ calls' = calls
        /\ \A x \in User : send'[x] \in Seq({y \in CallTo(v, agreed) : y.to = x})
    BY <2>1, ReceivesCall
  <2>3. Cleanup(u, {}) /\ inbox' = inbox
    BY <1>6 DEF OnCallOver
  <2> QED
    BY <1>1, <2>2, <2>3, CleanupCall, BetweenStep
<1> QED
  BY <1>2, <1>3, <1>4, <1>5, <1>6 DEF Receive

\* Handlers after an await keep the first call between its two users.
LEMMA BetweenResume ==
    ASSUME TypeOK, NEW c \in User, NEW v \in User, Between(c, v), NEW u \in User, Resume(u)
    PROVE  Between(c, v)' /\ calls' = calls
<1> USE DEF media, handlers, userVars, view
<1>1. /\ \A x \in User : inbox[x] \in Seq(CallTo(v, agreed))
      /\ \A x \in User : send[x] \in Seq({s \in CallTo(v, agreed) : s.to = x})
  BY DEF Between
<1>2. \A t \in task[u] :
         /\ t \in Task
         /\ t.kind = "accept" => u = c /\ v \in agreed /\ (t.at = "encrypt" => t.to \in {v, Nobody})
         /\ t.kind = "offer" => u \in agreed
         /\ t.kind = "answer" => t.at = "decrypt"
         /\ t.kind \in {"accept", "offer", "answer"} /\ t.to \in User \cup {Nobody}
  BY DEF Between, TaskOf, Task
<1>3. /\ agreed' = agreed /\ calls' = calls /\ send' = send
  BY DEF Resume, MediaReady, Fails, RemoteSet, Described, Encrypted, AnswerSet
<1>4. CASE MediaReady(u)
  <2>1. PICK t \in task[u] :
           /\ t.at = "media"
           /\ stream' = [stream EXCEPT ![u] = TRUE]
           /\ Awaits(u, t, IF t.kind = "offer" THEN "remote" ELSE "describe", Nobody)
           /\ UNCHANGED <<state, peer, inbox>>
    BY <1>4 DEF MediaReady
  <2>2. t.kind # "answer" /\ u \in agreed
    BY <1>2, <2>1 DEF Between
  <2>3. \A x \in User : \A y \in task'[x] : y \in task[x] \/ y \in TaskOf(x, c, v, agreed)
    BY <2>1, <2>2, AwaitsCall
  <2>4. \A x \in User : stream'[x] => stream[x] \/ x \in agreed
    BY <2>1, <2>2 DEF TypeOK
  <2> QED
    BY <1>1, <1>3, <2>1, <2>3, <2>4, BetweenStep
<1>5. CASE Fails(u)
  <2>1. PICK t \in task[u] : Sends(u, "call_end", peer[u]) /\ Cleanup(u, {t})
    BY <1>5 DEF Fails, Ends
  <2>2. peer[u] \in User \cup {Nobody}
    BY DEF TypeOK
  <2>3. \A x \in User : inbox'[x] \in Seq(CallTo(v, agreed))
    BY <1>1, <2>1, <2>2, SendsCall DEF SignalType
  <2> QED
    BY <1>1, <1>3, <2>1, <2>3, CleanupCall, BetweenStep
<1>6. CASE RemoteSet(u)
  <2>1. PICK t \in task[u] :
           /\ t.at = "remote" /\ Awaits(u, t, "describe", Nobody)
           /\ UNCHANGED <<state, peer, stream, inbox>>
    BY <1>6 DEF RemoteSet
  <2>2. \A x \in User : \A y \in task'[x] : y \in task[x] \/ y \in TaskOf(x, c, v, agreed)
    BY <1>2, <2>1, AwaitsCall
  <2> QED
    BY <1>1, <1>3, <2>1, <2>2, BetweenStep
<1>7. CASE Described(u)
  <2>1. PICK t \in task[u] :
           /\ t.at = "describe" /\ Awaits(u, t, "encrypt", peer[u])
           /\ UNCHANGED <<state, peer, stream, inbox>>
    BY <1>7 DEF Described
  <2>2. peer[u] \in User \cup {Nobody} /\ (u = c => peer[u] \in {v, Nobody})
    BY DEF TypeOK, Between
  <2>3. \A x \in User : \A y \in task'[x] : y \in task[x] \/ y \in TaskOf(x, c, v, agreed)
    BY <1>2, <2>1, <2>2, AwaitsCall
  <2> QED
    BY <1>1, <1>3, <2>1, <2>3, BetweenStep
<1>8. CASE Encrypted(u)
  <2>1. PICK t \in task[u] :
           /\ t.at = "encrypt"
           /\ Sends(u, IF t.kind = "offer" THEN "call_answer" ELSE "call_offer", t.to)
           /\ task' = [task EXCEPT ![u] = @ \ {t}]
           /\ UNCHANGED <<state, peer, stream>>
    BY <1>8 DEF Encrypted
  <2>2. \A x \in User : inbox'[x] \in Seq(CallTo(v, agreed))
    <3> DEFINE type == IF t.kind = "offer" THEN "call_answer" ELSE "call_offer"
    <3>1. type \in SignalType /\ t.to \in User \cup {Nobody}
      BY <1>2 DEF SignalType
    <3>2. /\ type # "call_request" /\ type # "call_accept"
          /\ type = "call_offer" => v \in agreed /\ t.to \in {v, Nobody}
      BY <1>2, <2>1
    <3>3. Sends(u, type, t.to)
      BY <2>1
    <3> HIDE DEF type
    <3> QED
      BY <1>1, <3>1, <3>2, <3>3, SendsCall
  <2>3. \A x \in User : \A y \in task'[x] : y \in task[x]
    BY <2>1 DEF TypeOK
  <2> QED
    BY <1>1, <1>3, <2>1, <2>2, <2>3, BetweenStep
<1>9. CASE AnswerSet(u)
  <2>1. PICK t \in task[u] :
           task' = [task EXCEPT ![u] = @ \ {t}] /\ UNCHANGED <<state, peer, stream, inbox>>
    BY <1>9 DEF AnswerSet
  <2>2. \A x \in User : \A y \in task'[x] : y \in task[x]
    BY <2>1 DEF TypeOK
  <2> QED
    BY <1>1, <1>3, <2>1, <2>2, BetweenStep
<1> QED
  BY <1>4, <1>5, <1>6, <1>7, <1>8, <1>9 DEF Resume

\* Before the first call nobody can do anything but call.
LEMMA OnlyCalls ==
    ASSUME NoCallYet, NEW u \in User
    PROVE  /\ ~AcceptIncoming(u) /\ ~RejectIncoming(u) /\ ~EndCall(u)
           /\ ~Receive(u) /\ ~Resume(u) /\ ~Relay(u) /\ ~ConnectionLost(u)
<1>1. ~Receive(u)
  BY DEF NoCallYet, Receive, OnCallRequest, OnCallAccept, OnCallOffer, OnCallAnswer,
         OnCallOver, Receives
<1>2. ~Resume(u)
  BY DEF NoCallYet, Resume, MediaReady, Fails, RemoteSet, Described, Encrypted, AnswerSet
<1>3. ~AcceptIncoming(u) /\ ~RejectIncoming(u) /\ ~EndCall(u) /\ ~Relay(u)
  BY DEF NoCallYet, AcceptIncoming, RejectIncoming, EndCall, Relay
<1>4. ~ConnectionLost(u)
  BY DEF NoCallYet, ConnectionLost, NoPC
<1> QED
  BY <1>1, <1>2, <1>3, <1>4

\* Every step keeps the invariant of the first call.
LEMMA FirstCall ==
    ASSUME TypeOK, NoCallYet, NEW u \in User, NEW w \in User, StartCall(u, w)
    PROVE  Between(u, w)'
<1> DEFINE s == [type |-> "call_request", from |-> u, to |-> w]
<1>1. /\ w # u /\ agreed' = agreed \cup {u}
      /\ Shows(u, "calling", w, modal[u], TRUE) /\ Sends(u, "call_request", w)
      /\ UNCHANGED <<stream, task, send>>
  BY DEF StartCall, media, handlers
<1>2. \A x \in User :
         /\ state'[x] = IF x = u THEN "calling" ELSE "idle"
         /\ peer'[x] = IF x = u THEN w ELSE Nobody
         /\ ~stream'[x] /\ task'[x] = {} /\ send'[x] = <<>>
         /\ inbox'[x] = IF x = u THEN Append(<<>>, s) ELSE <<>>
  BY <1>1 DEF Shows, Sends, TypeOK, NoCallYet
<1>3. s \in CallTo(w, agreed')
  BY DEF CallTo, Signal, SignalType
<1> HIDE DEF s
<1>4. \A x \in User : inbox'[x] \in Seq(CallTo(w, agreed'))
  <2> DEFINE S == CallTo(w, agreed')
  <2>1. s \in S
    BY <1>3
  <2> HIDE DEF S
  <2>2. <<>> \in Seq(S) /\ Append(<<>>, s) \in Seq(S)
    BY <2>1
  <2>3. \A x \in User : inbox'[x] \in Seq(S)
    BY <1>2, <2>2
  <2> QED
    BY <2>3 DEF S
<1>5. \A x \in User : send'[x] \in Seq({y \in CallTo(w, agreed') : y.to = x})
  <2> SUFFICES ASSUME NEW x \in User
               PROVE  send'[x] \in Seq({y \in CallTo(w, agreed') : y.to = x})
    OBVIOUS
  <2> DEFINE T == {y \in CallTo(w, agreed') : y.to = x}
  <2> HIDE DEF T
  <2>1. send'[x] = <<>>
    BY <1>2
  <2>2. send'[x] \in Seq(T)
    BY <2>1
  <2> QED
    BY <2>2 DEF T
<1> QED
  BY <1>1, <1>2, <1>4, <1>5 DEF Between

\* The first call is one between its caller and the one he called, whatever
\* signals, failures and lost connections come between.
THEOREM FirstCallInvariant == Spec => []FirstCallInv
<1>1. Init => FirstCallInv
  BY DEF Init, FirstCallInv, NoCallYet
<1>2. TypeOK /\ ButtonsFitState /\ FirstCallInv /\ [Next]_vars => FirstCallInv'
  <2> SUFFICES ASSUME TypeOK, ButtonsFitState, FirstCallInv, [Next]_vars PROVE FirstCallInv'
    OBVIOUS
  <2>1. ASSUME NEW u \in User, NEW w \in User, StartCall(u, w) PROVE FirstCallInv'
    <3>1. calls' = calls + 1 /\ calls \in Nat
      BY <2>1, BoundAssumption DEF StartCall, TypeOK
    <3>2. CASE calls = 0
      BY <2>1, <3>1, <3>2, FirstCall DEF FirstCallInv
    <3>3. CASE calls # 0
      BY <3>1, <3>3 DEF FirstCallInv
    <3> QED
      BY <3>2, <3>3
  <2>2. ASSUME NEW u \in User,
               \/ AcceptIncoming(u) \/ RejectIncoming(u) \/ EndCall(u)
               \/ Receive(u) \/ Resume(u) \/ Relay(u) \/ ConnectionLost(u)
        PROVE  FirstCallInv'
    <3>1. calls # 0
      BY <2>2, OnlyCalls DEF FirstCallInv
    <3>2. calls' = calls
      BY <2>2 DEF AcceptIncoming, RejectIncoming, EndCall, Relay, ConnectionLost, userVars,
                  Receive, OnCallRequest, OnCallAccept, OnCallOffer, OnCallAnswer, OnCallOver,
                  Receives, Resume, MediaReady, Fails, RemoteSet, Described, Encrypted, AnswerSet
    <3>3. ASSUME NEW c \in User, NEW v \in User, Between(c, v) PROVE Between(c, v)'
      BY <2>2, <3>3, BetweenUser, BetweenReceive, BetweenResume
    <3> QED
      BY <3>1, <3>2, <3>3 DEF FirstCallInv
  <2>3. CASE UNCHANGED vars
    <3>1. UNCHANGED <<state, peer, modal, overlay, stream, pc, task, inbox, send, calls, agreed>>
      BY <2>3 DEF vars
    <3>2. CASE calls = 0
      BY <3>1, <3>2 DEF FirstCallInv, NoCallYet
    <3>3. CASE calls # 0
      <4>1. ASSUME NEW c \in User, NEW v \in User, Between(c, v) PROVE Between(c, v)'
        <5>1. /\ \A x \in User : inbox[x] \in Seq(CallTo(v, agreed))
              /\ \A x \in User : send[x] \in Seq({s \in CallTo(v, agreed) : s.to = x})
          BY <4>1 DEF Between
        <5> QED
          BY <3>1, <4>1, <5>1, BetweenStep
      <4> QED
        BY <3>1, <3>3, <4>1 DEF FirstCallInv
    <3> QED
      BY <3>2, <3>3
  <2> QED
    BY <2>1, <2>2, <2>3 DEF Next
<1> QED
  BY <1>1, <1>2, TypeCorrect, ButtonsFitStateHolds, PTL DEF Spec

\* In the first call no microphone goes on without a click on call or accept,
\* although onCallOffer (call.js:145) looks neither at the state nor at who offers.
THEOREM FirstCallIsAgreedHolds == Spec => []FirstCallIsAgreed
<1>1. TypeOK /\ FirstCallInv => FirstCallIsAgreed
  <2> SUFFICES ASSUME TypeOK, FirstCallInv, calls <= 1, NEW u \in User, stream[u]
               PROVE  u \in agreed
    BY DEF FirstCallIsAgreed
  <2>1. calls = 0 \/ calls = 1
    BY BoundAssumption DEF TypeOK
  <2>2. CASE calls = 0
    BY <2>2 DEF FirstCallInv, NoCallYet
  <2>3. CASE calls = 1
    BY <2>3 DEF FirstCallInv, Between
  <2> QED
    BY <2>1, <2>2, <2>3
<1> QED
  BY <1>1, TypeCorrect, FirstCallInvariant, PTL

(***************************************************************************)
(* What the browsers of the first call agree on                            *)
(***************************************************************************)

\* What is on a wire
On(wire) == {wire[i] : i \in 1..Len(wire)}

\* Signals under way from a to b
Way(a, b) == {s \in On(inbox[a]) \cup On(send[b]) : s.to = b}

\* a has said to b what has not arrived yet: a signal of the type, that it is over.
Said(a, b, type) == \E s \in Way(a, b) : s.type = type
Over(a, b) == Said(a, b, "call_end") \/ Said(a, b, "call_reject")

\* Users outside the call have no part in it.
Others(c, v) ==
    \A x \in User \ {c, v} :
        /\ state[x] = "idle" /\ pc[x] = NoPC /\ task[x] = {}
        /\ inbox[x] = <<>> /\ send[x] = <<>>

\* The callee is in a call with the caller or none; he answers offers, and the
\* caller makes them.
Roles(c, v) ==
    /\ peer[v] \in {c, Nobody}
    /\ \A t \in task[c] : t.kind \in {"accept", "answer"}
    /\ \A t \in task[v] : t.kind = "offer" /\ t.to \in {c, Nobody}

\* What the caller says to the callee, and the callee to the caller
CallerSays(c, v) ==
    {s \in Signal :
        /\ s.type \in {"call_request", "call_offer", "call_end"} /\ s.to \in {v, Nobody}
        /\ s.type = "call_request" => s.from = c}
CalleeSays(c) ==
    {s \in Signal :
        s.type \in {"call_accept", "call_reject", "call_answer", "call_end"} /\ s.to \in {c, Nobody}}

\* A request is the first signal of its wire.
First(wire) == \A i \in 1..Len(wire) : wire[i].type = "call_request" => i = 1

\* A wire has one offer to b.
Once(wire, b) ==
    \A i, j \in 1..Len(wire) :
        /\ wire[i].type = "call_offer" /\ wire[i].to = b
        /\ wire[j].type = "call_offer" /\ wire[j].to = b
        => i = j

\* From the caller comes first the request, and then one offer.
Wires(c, v) ==
    /\ inbox[c] \in Seq(CallerSays(c, v)) /\ send[v] \in Seq({s \in CallerSays(c, v) : s.to = v})
    /\ inbox[v] \in Seq(CalleeSays(c)) /\ send[c] \in Seq({s \in CalleeSays(c) : s.to = c})
    /\ First(inbox[c]) /\ First(send[v])
    /\ (\E s \in On(inbox[c]) : s.type = "call_request") => send[v] = <<>>
    /\ Once(inbox[c], v) /\ Once(send[v], v)
    /\ (\E s \in On(inbox[c]) : s.type = "call_offer" /\ s.to = v) =>
          ~ \E s \in On(send[v]) : s.type = "call_offer"

\* The caller works at an accept.
Accepting(c) == \E t \in task[c] : t.kind = "accept"

\* An offer, an answer are on their way; an answer that was set is one, too.
Offered(c, v) == Said(c, v, "call_offer")
Answered(c, v) ==
    \/ Said(v, c, "call_answer")
    \/ \E t \in task[c] : t.kind = "answer"
    \/ pc[c].sig = "stable"

\* It is too late for the callee not to answer.
Late(c, v) == Answered(c, v) \/ \E t \in task[v] : t.at = "encrypt" /\ t.to = c

\* Only one of an accept, an offer and an answer is being worked at.
OneAtATime(c, v) ==
    /\ Accepting(c) =>
          /\ ~Offered(c, v) /\ ~Answered(c, v)
          /\ task[v] = {} /\ pc[v] = NoPC
          /\ \A s, t \in task[c] : s = t
    /\ Offered(c, v) => ~Answered(c, v) /\ task[v] = {} /\ pc[v] = NoPC
    /\ task[v] # {} => ~Answered(c, v) /\ \A s, t \in task[v] : s = t

\* A caller in the call has described his end, one out of it has closed it.
LocalSet(c) == IF state[c] = "in_call" THEN pc[c].sig = "local" ELSE pc[c] = NoPC

\* The connection of the caller goes along with his handlers and with what is said.
CallerConnects(c, v) ==
    /\ \A t \in task[c] : t.kind = "accept" =>
          /\ t.at \in {"media", "describe", "encrypt"}
          /\ t.at = "media" => pc[c] = NoPC
          /\ t.at = "describe" => pc[c] = [id |-> t.no, sig |-> "new"]
          /\ t.at = "encrypt" => /\ t.to = v => LocalSet(c)
                                 /\ state[c] = "in_call" => t.to = v
    /\ Offered(c, v) \/ task[v] # {} => LocalSet(c)
    /\ Answered(c, v) => IF state[c] = "in_call" THEN pc[c].sig \in {"local", "stable"}
                         ELSE pc[c] = NoPC

\* So does that of the callee.
CalleeConnects(c, v) ==
    /\ \A t \in task[v] :
          /\ t.at \in {"media", "remote", "describe", "encrypt"}
          /\ t.at = "media" => pc[v] = NoPC
          /\ t.at = "remote" => pc[v] = [id |-> t.no, sig |-> "new"]
          /\ t.at = "describe" => pc[v] = [id |-> t.no, sig |-> "remote"]
          /\ t.at = "encrypt" => (state[v] = "in_call" => pc[v].sig = "stable")
    /\ Answered(c, v) => (state[v] = "in_call" => pc[v].sig = "stable")

\* Nothing has been done yet to connect the two.
NotConnected(c, v) ==
    /\ task[c] = {} /\ task[v] = {} /\ pc[c] = NoPC /\ pc[v] = NoPC
    /\ ~Offered(c, v) /\ ~Answered(c, v)

\* Who says that it is over is out of the call.
OverIsOver(c, v) ==
    /\ Over(c, v) => state[c] = "idle"
    /\ Over(v, c) => state[v] = "idle"

\* Before the call is accepted: a caller waits for a request, a ringing callee or a
\* reply on its way, and a callee rings for a caller or for one who has given up.
Ringing(c, v) ==
    /\ state[c] = "calling" =>
          /\ NotConnected(c, v)
          /\ \/ Said(c, v, "call_request") \/ state[v] = "ringing" \/ Over(v, c)
             \/ state[v] = "in_call" /\ Said(v, c, "call_accept")
    /\ Said(c, v, "call_request") => state[v] = "idle"
    /\ Said(c, v, "call_request") \/ state[v] = "ringing" =>
          /\ NotConnected(c, v) /\ (\A type \in SignalType : ~Said(v, c, type))
          /\ state[c] = "calling" \/ (state[c] = "idle" /\ Over(c, v))

\* Once it is accepted: who is in the call has the other in it, hears from him that
\* it is over, or gets a connection that is stable and has no far end.
Together(c, v) ==
    /\ state[c] = "in_call" =>
          \/ state[v] = "in_call" \/ Over(v, c)
          \/ pc[v] = NoPC /\ Late(c, v)
    /\ state[c] = "in_call" /\ pc[v].sig = "stable" => Over(v, c) \/ Late(c, v)
    /\ state[v] = "in_call" =>
          \/ state[c] = "in_call" \/ Over(c, v)
          \/ state[c] = "calling" /\ Said(v, c, "call_accept")
          \/ pc[v].sig = "stable" /\ pc[c] = NoPC /\ ~Accepting(c)

\* How far the call has come
Course(c, v) ==
    /\ OneAtATime(c, v) /\ CallerConnects(c, v) /\ CalleeConnects(c, v)
    /\ OverIsOver(c, v) /\ Ringing(c, v) /\ Together(c, v)

\* What holds of the first call, of c to v
Agreement(c, v) == Others(c, v) /\ Roles(c, v) /\ Wires(c, v) /\ Course(c, v)

\* Nothing is on the empty wire.
LEMMA OnNone == On(<<>>) = {}
BY DEF On

\* What is on a wire one longer: the last, or what was on it.
LEMMA OnAppend ==
    ASSUME NEW S, NEW q \in Seq(S), NEW e
    PROVE  On(Append(q, e)) = On(q) \cup {e}
<1>1. /\ Len(Append(q, e)) = Len(q) + 1 /\ Len(q) \in Nat
      /\ Append(q, e)[Len(q) + 1] = e
      /\ \A i \in 1..Len(q) : Append(q, e)[i] = q[i]
  OBVIOUS
<1>2. 1..(Len(q) + 1) = 1..Len(q) \cup {Len(q) + 1}
  BY <1>1
<1> QED
  BY <1>1, <1>2 DEF On

\* What is on a wire after its first was taken was on it.
LEMMA OnTail ==
    ASSUME NEW S, NEW q \in Seq(S), q # <<>>
    PROVE  On(q) = {Head(q)} \cup On(Tail(q))
<1>1. /\ Len(q) \in Nat \ {0} /\ Len(Tail(q)) = Len(q) - 1 /\ Head(q) = q[1]
      /\ \A i \in 1..Len(Tail(q)) : Tail(q)[i] = q[i + 1]
  OBVIOUS
<1>2. \A i \in 1..Len(q) : i = 1 \/ i - 1 \in 1..Len(Tail(q))
  BY <1>1
<1>3. On(q) \subseteq {Head(q)} \cup On(Tail(q))
  <2> SUFFICES ASSUME NEW i \in 1..Len(q) PROVE q[i] \in {Head(q)} \cup On(Tail(q))
    BY DEF On
  <2>1. CASE i = 1
    BY <1>1, <2>1
  <2>2. CASE i - 1 \in 1..Len(Tail(q))
    <3>1. Tail(q)[i - 1] = q[i]
      BY <1>1, <2>2
    <3> QED
      BY <2>2, <3>1 DEF On
  <2> QED
    BY <1>2, <2>1, <2>2
<1>4. {Head(q)} \cup On(Tail(q)) \subseteq On(q)
  <2>1. 1 \in 1..Len(q) /\ \A i \in 1..Len(Tail(q)) : i + 1 \in 1..Len(q)
    BY <1>1
  <2> QED
    BY <1>1, <2>1 DEF On
<1> QED
  BY <1>3, <1>4

\* A wire one longer has its request first, and one offer to b, if what it had
\* before leaves room for what is added.
LEMMA AppendShape ==
    ASSUME NEW q \in Seq(Signal), NEW e \in Signal, NEW b
    PROVE  /\ First(q) /\ (e.type = "call_request" => q = <<>>) => First(Append(q, e))
           /\ /\ Once(q, b)
              /\ e.type = "call_offer" /\ e.to = b =>
                    ~ \E s \in On(q) : s.type = "call_offer" /\ s.to = b
              => Once(Append(q, e), b)
<1>1. /\ Len(Append(q, e)) = Len(q) + 1 /\ Len(q) \in Nat
      /\ Append(q, e)[Len(q) + 1] = e
      /\ \A i \in 1..Len(q) : Append(q, e)[i] = q[i]
  OBVIOUS
<1>2. \A i \in 1..(Len(q) + 1) : i \in 1..Len(q) \/ i = Len(q) + 1
  BY <1>1
<1>3. ASSUME First(q), e.type = "call_request" => q = <<>>
      PROVE  First(Append(q, e))
  <2>1. q = <<>> => Len(q) = 0
    OBVIOUS
  <2> QED
    BY <1>1, <1>2, <1>3, <2>1 DEF First
<1>4. ASSUME Once(q, b),
             e.type = "call_offer" /\ e.to = b =>
                 ~ \E s \in On(q) : s.type = "call_offer" /\ s.to = b
      PROVE  Once(Append(q, e), b)
  <2>1. \A i \in 1..Len(q) : q[i] \in On(q)
    BY DEF On
  <2> QED
    BY <1>1, <1>2, <1>4, <2>1 DEF Once
<1> QED
  BY <1>3, <1>4

\* Behind the first signal of a wire there is no request, and no second offer to b.
LEMMA TailShape ==
    ASSUME NEW q \in Seq(Signal), q # <<>>, First(q), NEW b, Once(q, b)
    PROVE  /\ First(Tail(q)) /\ Once(Tail(q), b)
           /\ \A s \in On(Tail(q)) : s.type # "call_request"
           /\ Head(q).type = "call_offer" /\ Head(q).to = b =>
                 ~ \E s \in On(Tail(q)) : s.type = "call_offer" /\ s.to = b
<1>1. /\ Len(q) \in Nat \ {0} /\ Len(Tail(q)) = Len(q) - 1 /\ Head(q) = q[1]
      /\ \A i \in 1..Len(Tail(q)) : Tail(q)[i] = q[i + 1]
  OBVIOUS
<1>2. \A i \in 1..Len(Tail(q)) : i + 1 \in 1..Len(q) /\ i + 1 # 1 /\ i \in Nat
  BY <1>1
<1>3. 1 \in 1..Len(q)
  BY <1>1
<1>4. \A i \in 1..Len(Tail(q)) : Tail(q)[i].type # "call_request"
  BY <1>1, <1>2 DEF First
<1>5. Once(Tail(q), b)
  <2> SUFFICES ASSUME NEW i \in 1..Len(Tail(q)), NEW j \in 1..Len(Tail(q)),
                      Tail(q)[i].type = "call_offer", Tail(q)[i].to = b,
                      Tail(q)[j].type = "call_offer", Tail(q)[j].to = b
               PROVE  i = j
    BY DEF Once
  <2>1. i + 1 = j + 1
    BY <1>1, <1>2 DEF Once
  <2> QED
    BY <1>2, <2>1
<1>6. ASSUME Head(q).type = "call_offer", Head(q).to = b,
             NEW i \in 1..Len(Tail(q)), Tail(q)[i].type = "call_offer", Tail(q)[i].to = b
      PROVE  FALSE
  BY <1>1, <1>2, <1>3, <1>6 DEF Once
<1> QED
  BY <1>4, <1>5, <1>6 DEF First, On

\* The wires of a call hold signals.
LEMMA WiresAreSignals ==
    ASSUME TypeOK, NEW c \in User, NEW v \in User, Wires(c, v)
    PROVE  /\ inbox[c] \in Seq(Signal) /\ send[v] \in Seq(Signal)
           /\ inbox[v] \in Seq(Signal) /\ send[c] \in Seq(Signal)
           /\ \A s \in On(inbox[c]) : s \in CallerSays(c, v)
           /\ \A s \in On(send[v]) : s \in CallerSays(c, v) /\ s.to = v
           /\ \A s \in On(inbox[v]) : s \in CalleeSays(c)
           /\ \A s \in On(send[c]) : s \in CalleeSays(c) /\ s.to = c
<1>1. /\ \A i \in 1..Len(inbox[c]) : inbox[c][i] \in CallerSays(c, v)
      /\ \A i \in 1..Len(inbox[v]) : inbox[v][i] \in CalleeSays(c)
  BY DEF Wires
<1>2. \A i \in 1..Len(send[v]) : send[v][i] \in {s \in CallerSays(c, v) : s.to = v}
  BY DEF Wires
<1>3. \A i \in 1..Len(send[c]) : send[c][i] \in {s \in CalleeSays(c) : s.to = c}
  BY DEF Wires
<1> QED
  BY <1>1, <1>2, <1>3 DEF TypeOK, On

\* What a signal sent adds to what is said
LEMMA SaidSends ==
    ASSUME TypeOK, NEW u \in User, NEW type \in SignalType, NEW to \in User \cup {Nobody},
           Sends(u, type, to), send' = send, NEW a \in User, NEW b \in User, NEW k
    PROVE  Said(a, b, k)' <=> Said(a, b, k) \/ (a = u /\ b = to /\ k = type)
<1> DEFINE s == [type |-> type, from |-> u, to |-> to]
<1>1. s \in Signal /\ inbox[u] \in Seq(Signal) /\ inbox'[u] = Append(inbox[u], s)
      /\ \A x \in User \ {u} : inbox'[x] = inbox[x]
  BY DEF Sends, TypeOK, Signal
<1>2. On(inbox'[u]) = On(inbox[u]) \cup {s}
  BY <1>1, OnAppend
<1>3. s.type = type /\ s.to = to
  OBVIOUS
<1> HIDE DEF s
<1>4. CASE a = u
  <2>1. \A x : x \in On(inbox'[a]) \cup On(send'[b]) <=> x \in On(inbox[a]) \cup On(send[b]) \/ x = s
    BY <1>2, <1>4
  <2> QED
    BY <1>3, <1>4, <2>1 DEF Said, Way
<1>5. CASE a # u
  BY <1>1, <1>5 DEF Said, Way
<1> QED
  BY <1>4, <1>5

\* What a signal received takes from it
LEMMA SaidReceives ==
    ASSUME TypeOK, NEW u \in User, send[u] # <<>>, Head(send[u]).to = u,
           send' = [send EXCEPT ![u] = Tail(@)], inbox' = inbox,
           NEW a \in User, NEW b \in User, NEW k
    PROVE  /\ Said(a, b, k)' => Said(a, b, k)
           /\ Said(a, b, k) => Said(a, b, k)' \/ (b = u /\ k = Head(send[u]).type)
<1>1. /\ On(send[u]) = {Head(send[u])} \cup On(Tail(send[u]))
      /\ send'[u] = Tail(send[u]) /\ \A x \in User \ {u} : send'[x] = send[x]
  BY OnTail DEF TypeOK
<1>2. CASE b = u
  BY <1>1, <1>2 DEF Said, Way
<1>3. CASE b # u
  BY <1>1, <1>3 DEF Said, Way
<1> QED
  BY <1>2, <1>3

\* The caller may say one offer, and that it is over.
LEMMA WiresCallerSends ==
    ASSUME TypeOK, NEW c \in User, NEW v \in User, c # v, Wires(c, v),
           NEW type \in {"call_offer", "call_end"}, NEW to \in {v, Nobody},
           type = "call_offer" /\ to = v => ~Said(c, v, "call_offer"),
           Sends(c, type, to), send' = send
    PROVE  Wires(c, v)'
<1> DEFINE s == [type |-> type, from |-> c, to |-> to]
<1>1. /\ s \in Signal /\ inbox'[c] = Append(inbox[c], s) /\ inbox'[v] = inbox[v]
      /\ s.type = type /\ s.to = to
  BY DEF Sends, TypeOK, Signal, SignalType
<1>2. s \in CallerSays(c, v) /\ s.type # "call_request"
  BY <1>1 DEF CallerSays
<1> HIDE DEF s
<1>3. inbox'[c] \in Seq(CallerSays(c, v))
  <2> DEFINE S == CallerSays(c, v)
  <2>1. inbox[c] \in Seq(S) /\ s \in S
    BY <1>2 DEF Wires
  <2> HIDE DEF S
  <2>2. Append(inbox[c], s) \in Seq(S)
    BY <2>1
  <2> QED
    BY <1>1, <2>2 DEF S
<1>4. On(inbox'[c]) = On(inbox[c]) \cup {s} /\ inbox[c] \in Seq(Signal)
  BY <1>1, OnAppend, WiresAreSignals
<1>5. First(inbox'[c])
  BY <1>1, <1>2, <1>4, AppendShape DEF Wires
<1>6. type = "call_offer" /\ to = v =>
        /\ ~ \E x \in On(inbox[c]) : x.type = "call_offer" /\ x.to = v
        /\ ~ \E x \in On(send[v]) : x.type = "call_offer"
  BY WiresAreSignals DEF Said, Way
<1>7. Once(inbox'[c], v)
  BY <1>1, <1>4, <1>6, AppendShape DEF Wires
<1>8. (\E x \in On(inbox'[c]) : x.type = "call_request") => send[v] = <<>>
  BY <1>2, <1>4 DEF Wires
<1>9. (\E x \in On(inbox'[c]) : x.type = "call_offer" /\ x.to = v) =>
        ~ \E x \in On(send[v]) : x.type = "call_offer"
  BY <1>1, <1>4, <1>6 DEF Wires
<1> QED
  BY <1>1, <1>3, <1>5, <1>7, <1>8, <1>9 DEF Wires

\* The callee may accept, refuse, answer, and say that it is over.
LEMMA WiresCalleeSends ==
    ASSUME TypeOK, NEW c \in User, NEW v \in User, c # v, Wires(c, v),
           NEW type \in {"call_accept", "call_reject", "call_answer", "call_end"},
           NEW to \in {c, Nobody}, Sends(v, type, to), send' = send
    PROVE  Wires(c, v)'
<1> DEFINE s == [type |-> type, from |-> v, to |-> to]
           S == CalleeSays(c)
<1>1. s \in S /\ inbox'[v] = Append(inbox[v], s) /\ inbox'[c] = inbox[c]
  BY DEF Sends, TypeOK, Signal, SignalType, CalleeSays
<1>2. inbox[v] \in Seq(S)
  BY DEF Wires
<1> HIDE DEF s, S
<1>3. inbox'[v] \in Seq(S)
  BY <1>1, <1>2
<1> QED
  BY <1>1, <1>3 DEF Wires, S

\* What the callee receives is gone: the request, and the offer.
LEMMA WiresCalleeReceives ==
    ASSUME TypeOK, NEW c \in User, NEW v \in User, c # v, Wires(c, v), send[v] # <<>>,
           send' = [send EXCEPT ![v] = Tail(@)], inbox' = inbox
    PROVE  /\ Wires(c, v)'
           /\ Head(send[v]) \in CallerSays(c, v) /\ Head(send[v]).to = v
           /\ ~Said(c, v, "call_request")'
           /\ Head(send[v]).type = "call_offer" => ~Said(c, v, "call_offer")'
           /\ Said(c, v, Head(send[v]).type)
<1> DEFINE h == Head(send[v])
           q == Tail(send[v])
<1>1. /\ send'[v] = q /\ send'[c] = send[c]
      /\ send[v] \in Seq(Signal) /\ First(send[v]) /\ Once(send[v], v)
  BY WiresAreSignals DEF Wires, TypeOK
<1>2. On(send[v]) = {h} \cup On(q)
  BY <1>1, OnTail
<1>3. h \in CallerSays(c, v) /\ h.to = v /\ \A s \in On(q) : s \in CallerSays(c, v) /\ s.to = v
  BY <1>2, WiresAreSignals
<1>4. /\ First(q) /\ Once(q, v) /\ \A s \in On(q) : s.type # "call_request"
      /\ h.type = "call_offer" => ~ \E s \in On(q) : s.type = "call_offer" /\ s.to = v
  BY <1>1, <1>3, TailShape
<1>5. q \in Seq({s \in CallerSays(c, v) : s.to = v})
  <2> DEFINE S == {s \in CallerSays(c, v) : s.to = v}
  <2>1. send[v] \in Seq(S)
    BY DEF Wires
  <2> HIDE DEF S
  <2>2. q \in Seq(S)
    BY <2>1
  <2> QED
    BY <2>2 DEF S
<1> HIDE DEF h, q
<1>6. Wires(c, v)'
  <2>1. ~ \E s \in On(inbox[c]) : s.type = "call_request"
    BY DEF Wires
  <2> QED
    BY <1>1, <1>2, <1>4, <1>5, <2>1 DEF Wires
<1>7. ~Said(c, v, "call_request")'
  BY <1>1, <1>4 DEF Said, Way, Wires
<1>8. h.type = "call_offer" => ~Said(c, v, "call_offer")'
  <2>1. h.type = "call_offer" => ~ \E s \in On(inbox[c]) : s.type = "call_offer" /\ s.to = v
    BY <1>2 DEF Wires
  <2> QED
    BY <1>1, <1>3, <1>4, <2>1 DEF Said, Way
<1>9. Said(c, v, h.type)
  BY <1>2, <1>3 DEF Said, Way
<1> QED
  BY <1>3, <1>6, <1>7, <1>8, <1>9 DEF h

\* What the caller receives is for him.
LEMMA WiresCallerReceives ==
    ASSUME TypeOK, NEW c \in User, NEW v \in User, c # v, Wires(c, v), send[c] # <<>>,
           send' = [send EXCEPT ![c] = Tail(@)], inbox' = inbox
    PROVE  /\ Wires(c, v)'
           /\ Head(send[c]) \in CalleeSays(c) /\ Head(send[c]).to = c
           /\ Said(v, c, Head(send[c]).type)
<1> DEFINE h == Head(send[c])
           q == Tail(send[c])
           S == {s \in CalleeSays(c) : s.to = c}
<1>1. send'[c] = q /\ send'[v] = send[v] /\ send[c] \in Seq(S) /\ send[c] \in Seq(Signal)
  BY DEF Wires, TypeOK
<1>2. On(send[c]) = {h} \cup On(q)
  BY <1>1, OnTail
<1>3. h \in CalleeSays(c) /\ h.to = c
  BY <1>2, WiresAreSignals
<1>4. q \in Seq(S)
  <2> HIDE DEF S
  <2> QED
    BY <1>1
<1>5. Said(v, c, h.type)
  BY <1>2, <1>3 DEF Said, Way
<1> HIDE DEF h, q
<1> QED
  BY <1>1, <1>3, <1>4, <1>5 DEF Wires, h

\* The server says nothing new.
LEMMA WiresCallerRelay ==
    ASSUME TypeOK, NEW c \in User, NEW v \in User, c # v, Nobody \notin User, Wires(c, v), Relay(c)
    PROVE  /\ Wires(c, v)' /\ \A k : Said(c, v, k)' <=> Said(c, v, k)
           /\ \A k : Said(v, c, k)' <=> Said(v, c, k)
           /\ \A x \in User \ {v} : send'[x] = send[x]
<1> DEFINE h == Head(inbox[c])
           q == Tail(inbox[c])
<1>1. /\ inbox[c] # <<>> /\ inbox' = [inbox EXCEPT ![c] = q]
      /\ send' = IF h.to = Nobody THEN send ELSE [send EXCEPT ![h.to] = Append(@, h)]
  BY DEF Relay
<1>2. /\ inbox[c] \in Seq(Signal) /\ send[v] \in Seq(Signal)
      /\ First(inbox[c]) /\ Once(inbox[c], v) /\ First(send[v]) /\ Once(send[v], v)
  BY WiresAreSignals DEF Wires
<1>3. On(inbox[c]) = {h} \cup On(q)
  BY <1>1, <1>2, OnTail
<1>4. h \in CallerSays(c, v) /\ h \in Signal /\ h.to \in {v, Nobody}
  BY <1>3, WiresAreSignals DEF CallerSays
<1>5. /\ First(q) /\ Once(q, v) /\ \A s \in On(q) : s.type # "call_request"
      /\ h.type = "call_offer" /\ h.to = v =>
            ~ \E s \in On(q) : s.type = "call_offer" /\ s.to = v
  BY <1>1, <1>2, TailShape
<1>6. q \in Seq(CallerSays(c, v))
  <2> DEFINE S == CallerSays(c, v)
  <2>1. inbox[c] \in Seq(S)
    BY DEF Wires
  <2> HIDE DEF S
  <2>2. q \in Seq(S)
    BY <1>1, <2>1
  <2> QED
    BY <2>2 DEF S
<1>7. inbox'[c] = q /\ inbox'[v] = inbox[v]
  BY <1>1 DEF TypeOK
<1>8. /\ h.to = Nobody => send' = send
      /\ h.to = v => send'[v] = Append(send[v], h) /\ \A x \in User \ {v} : send'[x] = send[x]
  BY <1>1 DEF TypeOK
<1> HIDE DEF h, q
<1>9. CASE h.to = Nobody
  <2>1. On(inbox[c]) = {h} \cup On(inbox'[c]) /\ send' = send /\ h.to # v
    BY <1>3, <1>7, <1>8, <1>9
  <2>2. Wires(c, v)'
    BY <1>5, <1>6, <1>7, <2>1 DEF Wires
  <2> QED
    BY <1>7, <2>1, <2>2 DEF Said, Way
<1>10. CASE h.to = v
  <2>1. On(send'[v]) = On(send[v]) \cup {h}
    BY <1>2, <1>8, <1>10, OnAppend
  <2>2. h.type = "call_request" => send[v] = <<>>
    BY <1>3 DEF Wires
  <2>3. h.type = "call_offer" => ~ \E s \in On(send[v]) : s.type = "call_offer"
    BY <1>3, <1>10 DEF Wires
  <2>4. First(send'[v]) /\ Once(send'[v], v)
    BY <1>2, <1>4, <1>8, <1>10, <2>2, <2>3, AppendShape
  <2>5. send'[v] \in Seq({s \in CallerSays(c, v) : s.to = v})
    <3> DEFINE S == {s \in CallerSays(c, v) : s.to = v}
    <3>1. send[v] \in Seq(S) /\ h \in S
      BY <1>4, <1>10 DEF Wires
    <3> HIDE DEF S
    <3>2. Append(send[v], h) \in Seq(S)
      BY <3>1
    <3> QED
      BY <1>8, <1>10, <3>2 DEF S
  <2>6. (\E s \in On(q) : s.type = "call_offer" /\ s.to = v) =>
          ~ \E s \in On(send'[v]) : s.type = "call_offer"
    BY <1>3, <1>5, <1>10, <2>1 DEF Wires
  <2>7. Wires(c, v)'
    BY <1>5, <1>6, <1>7, <1>8, <1>10, <2>4, <2>5, <2>6 DEF Wires
  <2> QED
    BY <1>3, <1>7, <1>8, <1>10, <2>1, <2>7 DEF Said, Way
<1> QED
  BY <1>4, <1>9, <1>10

\* Nor of what the callee said.
LEMMA WiresCalleeRelay ==
    ASSUME TypeOK, NEW c \in User, NEW v \in User, c # v, Nobody \notin User, Wires(c, v), Relay(v)
    PROVE  /\ Wires(c, v)' /\ \A k : Said(c, v, k)' <=> Said(c, v, k)
           /\ \A k : Said(v, c, k)' <=> Said(v, c, k)
           /\ \A x \in User \ {c} : send'[x] = send[x]
<1> DEFINE h == Head(inbox[v])
           q == Tail(inbox[v])
           S == CalleeSays(c)
           T == {s \in CalleeSays(c) : s.to = c}
<1>1. /\ inbox[v] # <<>> /\ inbox' = [inbox EXCEPT ![v] = q]
      /\ send' = IF h.to = Nobody THEN send ELSE [send EXCEPT ![h.to] = Append(@, h)]
  BY DEF Relay
<1>2. inbox[v] \in Seq(S) /\ send[c] \in Seq(T) /\ inbox[v] \in Seq(Signal) /\ send[c] \in Seq(Signal)
  BY DEF Wires, TypeOK
<1>3. On(inbox[v]) = {h} \cup On(q)
  BY <1>1, <1>2, OnTail
<1>4. h \in S /\ h.to \in {c, Nobody} /\ (h.to = c => h \in T)
  BY <1>3, WiresAreSignals DEF CalleeSays
<1>5. q \in Seq(S) /\ (h \in T => Append(send[c], h) \in Seq(T))
  <2> HIDE DEF S, T
  <2> QED
    BY <1>1, <1>2
<1>6. inbox'[v] = q /\ inbox'[c] = inbox[c]
  BY <1>1 DEF TypeOK
<1>7. /\ h.to = Nobody => send' = send
      /\ h.to = c => send'[c] = Append(send[c], h) /\ \A x \in User \ {c} : send'[x] = send[x]
  BY <1>1 DEF TypeOK
<1> HIDE DEF h, q
<1>8. CASE h.to = Nobody
  <2>1. On(inbox[v]) = {h} \cup On(inbox'[v]) /\ send' = send /\ h.to # c
    BY <1>3, <1>6, <1>7, <1>8
  <2>2. Wires(c, v)'
    BY <1>5, <1>6, <2>1 DEF Wires
  <2> QED
    BY <1>6, <2>1, <2>2 DEF Said, Way
<1>9. CASE h.to = c
  <2>1. On(send'[c]) = On(send[c]) \cup {h}
    BY <1>2, <1>7, <1>9, OnAppend
  <2>2. Wires(c, v)'
    BY <1>4, <1>5, <1>6, <1>7, <1>9 DEF Wires
  <2> QED
    BY <1>3, <1>6, <1>7, <1>9, <2>1, <2>2 DEF Said, Way
<1> QED
  BY <1>4, <1>8, <1>9

\* A caller who cleans up has said so, or was told that it is over, or has lost
\* a connection that the callee has, too, or had ended the call before.
LEMMA CallerCleans ==
    ASSUME NEW c \in User, NEW v \in User, c # v, Course(c, v), Roles(c, v),
           state[c] # "ringing",
           state'[c] = "idle", pc'[c] = NoPC, task'[c] \subseteq task[c],
           \A t \in task'[c] : t.at = "describe" => t.no # pc[c].id,
           state'[v] = state[v], pc'[v] = pc[v], task'[v] = task[v],
           \A k : Said(v, c, k)' => Said(v, c, k),
           \A k : Said(c, v, k) => Said(c, v, k)',
           \A k : Said(c, v, k)' => Said(c, v, k) \/ k = "call_end",
           state[c] = "idle" \/ Over(c, v)' \/ Over(v, c) \/ pc[c].sig = "stable",
           state[c] = "idle" => \A k : Said(v, c, k) => Said(v, c, k)' \/ k # "call_accept"
    PROVE  Course(c, v)'
<1> USE DEF Course
<1>1. NoPC.sig = "none"
  BY DEF NoPC
<1>2. Answered(c, v)' => Answered(c, v)
  BY <1>1 DEF Answered
<1>3. Offered(c, v)' <=> Offered(c, v)
  BY DEF Offered
<1>4. Accepting(c)' => Accepting(c)
  BY DEF Accepting
<1>5. OneAtATime(c, v)'
  BY <1>2, <1>3, <1>4 DEF OneAtATime
<1>6. CallerConnects(c, v)'
  <2>1. LocalSet(c)'
    BY DEF LocalSet
  <2>2. ASSUME NEW t \in task'[c], t.kind = "accept"
        PROVE  t.at \in {"media", "encrypt"}
    <3>1. t \in task[c]
      OBVIOUS
    <3>2. /\ t.at \in {"media", "describe", "encrypt"}
          /\ t.at = "describe" => pc[c] = [id |-> t.no, sig |-> "new"]
      BY <2>2, <3>1 DEF CallerConnects
    <3>3. t.at = "describe" => t.no = pc[c].id
      BY <3>2
    <3> QED
      BY <3>2, <3>3
  <2> QED
    BY <2>1, <2>2 DEF CallerConnects
<1>7. CalleeConnects(c, v)'
  BY <1>2 DEF CalleeConnects
<1>8. OverIsOver(c, v)'
  BY DEF OverIsOver, Over
<1>9. Ringing(c, v)'
  <2>1. NotConnected(c, v) => NotConnected(c, v)'
    BY <1>2, <1>3 DEF NotConnected
  <2>2. Said(c, v, "call_request")' <=> Said(c, v, "call_request")
    OBVIOUS
  <2>3. Said(c, v, "call_request") \/ state[v] = "ringing" => Over(c, v)'
    BY <1>1 DEF Ringing, NotConnected, Over, SignalType
  <2> QED
    BY <2>1, <2>2, <2>3 DEF Ringing
<1>10. Together(c, v)'
  <2> SUFFICES ASSUME state[v] = "in_call", ~Over(c, v)'
               PROVE  pc[v].sig = "stable" /\ ~Accepting(c)
    BY <1>4 DEF Together
  <2>1. ~Over(c, v) /\ ~Over(v, c)
    BY DEF Over, OverIsOver
  <2>2. CASE state[c] = "idle"
    BY <2>1, <2>2 DEF Together
  <2>3. CASE pc[c].sig = "stable"
    <3>1. Answered(c, v)
      BY <2>3 DEF Answered
    <3> QED
      BY <3>1 DEF OneAtATime, CalleeConnects
  <2> QED
    BY <2>1, <2>2, <2>3
<1> QED
  BY <1>5, <1>6, <1>7, <1>8, <1>9, <1>10

\* So does a callee; and what he had encrypted goes on.
LEMMA CalleeCleans ==
    ASSUME NEW c \in User, NEW v \in User, c # v, Course(c, v), Roles(c, v),
           state[v] # "calling",
           state'[v] = "idle", pc'[v] = NoPC, task'[v] \subseteq task[v],
           \A t \in task'[v] : t.at \in {"remote", "describe"} => t.no # pc[v].id,
           \A t \in task[v] : t.at = "encrypt" => t \in task'[v],
           state'[c] = state[c], pc'[c] = pc[c], task'[c] = task[c],
           \A k : Said(c, v, k)' => Said(c, v, k),
           \A k : Said(c, v, k) => Said(c, v, k)' \/ (Over(c, v) /\ ~Said(c, v, "call_request")'),
           \A k : Said(v, c, k) => Said(v, c, k)',
           \A k : Said(v, c, k)' => Said(v, c, k) \/ k \in {"call_end", "call_reject"},
           state[v] = "idle" \/ Over(v, c)' \/ Over(c, v) \/ pc[v].sig = "stable",
           Said(v, c, "call_end")' \/ Said(v, c, "call_reject")' =>
               Over(v, c) \/ state[v] # "idle"
    PROVE  Course(c, v)'
<1> USE DEF Course
<1>1. NoPC.sig = "none"
  BY DEF NoPC
<1>2. Answered(c, v)' <=> Answered(c, v)
  BY DEF Answered
<1>3. Offered(c, v)' => Offered(c, v)
  BY DEF Offered
<1>4. Accepting(c)' <=> Accepting(c)
  BY DEF Accepting
<1>5. OneAtATime(c, v)'
  BY <1>2, <1>3, <1>4 DEF OneAtATime
<1>6. CallerConnects(c, v)'
  BY <1>2, <1>3 DEF CallerConnects, LocalSet
<1>7. CalleeConnects(c, v)'
  <2> SUFFICES ASSUME NEW t \in task'[v]
               PROVE  t.at \in {"media", "encrypt"}
    BY DEF CalleeConnects
  <2>1. t \in task[v]
    OBVIOUS
  <2>2. /\ t.at \in {"media", "remote", "describe", "encrypt"}
        /\ t.at = "remote" => pc[v] = [id |-> t.no, sig |-> "new"]
        /\ t.at = "describe" => pc[v] = [id |-> t.no, sig |-> "remote"]
    BY <2>1 DEF CalleeConnects
  <2>3. t.at \in {"remote", "describe"} => t.no = pc[v].id
    BY <2>2
  <2> QED
    BY <2>2, <2>3
<1>8. OverIsOver(c, v)'
  BY DEF OverIsOver, Over
<1>9. Ringing(c, v)'
  <2>1. NotConnected(c, v) => NotConnected(c, v)'
    BY <1>2, <1>3 DEF NotConnected
  <2>2. ASSUME Said(c, v, "call_request")'
        PROVE  /\ NotConnected(c, v)' /\ \A type \in SignalType : ~Said(v, c, type)'
               /\ state[c] = "calling" \/ (state[c] = "idle" /\ Over(c, v)')
    <3>1. Said(c, v, "call_request") /\ state[v] = "idle"
      BY <2>2 DEF Ringing
    <3>2. \A type \in SignalType : ~Said(v, c, type)'
      BY <3>1 DEF Ringing, Over, SignalType
    <3>3. Over(c, v) => Over(c, v)'
      BY <2>2 DEF Over
    <3> QED
      BY <2>1, <3>1, <3>2, <3>3 DEF Ringing
  <2>3. ASSUME state[c] = "calling"
        PROVE  NotConnected(c, v)' /\ (Said(c, v, "call_request")' \/ Over(v, c)')
    <3>1. ~Over(c, v) /\ NotConnected(c, v)
      BY <2>3 DEF OverIsOver, Ringing
    <3>2. pc[v].sig # "stable"
      BY <1>1, <3>1 DEF NotConnected
    <3>3. state[v] = "idle" \/ Over(v, c)'
      BY <3>1, <3>2
    <3>4. state[v] = "idle" => Said(c, v, "call_request") \/ Over(v, c)
      BY <2>3 DEF Ringing
    <3>5. Over(v, c) => Over(v, c)'
      BY DEF Over
    <3> QED
      BY <2>1, <3>1, <3>3, <3>4, <3>5
  <2> QED
    BY <2>2, <2>3 DEF Ringing
<1>10. Together(c, v)'
  <2>1. Over(v, c) => Over(v, c)'
    BY DEF Over
  <2>2. Late(c, v) => Late(c, v)'
    BY <1>2 DEF Late
  <2>3. state[c] = "in_call" => Over(v, c)' \/ Late(c, v)
    <3> SUFFICES ASSUME state[c] = "in_call", ~Over(v, c)' PROVE Late(c, v)
      OBVIOUS
    <3>1. ~Over(c, v)
      BY DEF OverIsOver
    <3> QED
      BY <2>1, <3>1 DEF Together
  <2> QED
    BY <1>1, <2>2, <2>3 DEF Together
<1> QED
  BY <1>5, <1>6, <1>7, <1>8, <1>9, <1>10

\* What a step leaves as it is for user x
Still(x) ==
    /\ state'[x] = state[x] /\ peer'[x] = peer[x] /\ pc'[x] = pc[x]
    /\ task'[x] = task[x] /\ inbox'[x] = inbox[x]

\* The steps of a user are his own.
LEMMA OwnOnly ==
    ASSUME TypeOK, NEW u \in User,
           \/ AcceptIncoming(u) \/ RejectIncoming(u) \/ EndCall(u)
           \/ Receive(u) \/ Resume(u) \/ ConnectionLost(u)
    PROVE  \A x \in User \ {u} : Still(x) /\ send'[x] = send[x]
<1> USE DEF view, media, handlers, Still, TypeOK
<1>1. CASE AcceptIncoming(u) \/ RejectIncoming(u)
  BY <1>1 DEF AcceptIncoming, RejectIncoming, Shows, Sends
<1>2. ASSUME NEW done, Cleanup(u, done)
      PROVE  \A x \in User \ {u} : /\ state'[x] = state[x] /\ peer'[x] = peer[x]
                                   /\ pc'[x] = pc[x] /\ task'[x] = task[x]
  BY <1>2 DEF Cleanup, Shows
<1>3. CASE EndCall(u) \/ ConnectionLost(u)
  BY <1>2, <1>3 DEF EndCall, Ends, Sends, ConnectionLost
<1>4. CASE Receive(u)
  <2>1. CASE OnCallOver(u)
    BY <1>2, <2>1 DEF OnCallOver, Receives
  <2>2. CASE OnCallRequest(u)
    BY <2>2 DEF OnCallRequest, Receives, Shows, Sends
  <2>3. CASE OnCallAccept(u)
    BY <2>3 DEF OnCallAccept, Receives, Shows, Starts
  <2>4. CASE OnCallOffer(u) \/ OnCallAnswer(u)
    BY <2>4 DEF OnCallOffer, OnCallAnswer, Receives, Starts
  <2> QED
    BY <1>4, <2>1, <2>2, <2>3, <2>4 DEF Receive
<1>5. CASE Resume(u)
  <2>1. CASE Fails(u)
    BY <1>2, <2>1 DEF Fails, Ends, Sends
  <2>2. CASE MediaReady(u)
    BY <2>2 DEF MediaReady, Awaits
  <2>3. CASE RemoteSet(u)
    BY <2>3 DEF RemoteSet, Awaits
  <2>4. CASE Described(u)
    BY <2>4 DEF Described, Awaits
  <2>5. CASE Encrypted(u)
    BY <2>5 DEF Encrypted, Sends
  <2>6. CASE AnswerSet(u)
    BY <2>6 DEF AnswerSet
  <2> QED
    BY <1>5, <2>1, <2>2, <2>3, <2>4, <2>5, <2>6 DEF Resume
<1> QED
  BY <1>1, <1>3, <1>4, <1>5

\* Only the two have anything to do in the call.
LEMMA Insiders ==
    ASSUME TypeOK, ButtonsFitState, NEW c \in User, NEW v \in User, Others(c, v), NEW u \in User,
           \/ AcceptIncoming(u) \/ RejectIncoming(u) \/ EndCall(u)
           \/ Receive(u) \/ Resume(u) \/ Relay(u) \/ ConnectionLost(u)
    PROVE  u \in {c, v}
<1> SUFFICES ASSUME u \notin {c, v} PROVE FALSE
  OBVIOUS
<1>1. /\ state[u] = "idle" /\ pc[u].sig = "none" /\ task[u] = {}
      /\ inbox[u] = <<>> /\ send[u] = <<>> /\ ~modal[u] /\ ~overlay[u]
  BY DEF Others, NoPC, ButtonsFitState
<1>2. ~Receive(u)
  BY <1>1 DEF Receive, OnCallRequest, OnCallAccept, OnCallOffer, OnCallAnswer, OnCallOver, Receives
<1>3. ~Resume(u)
  BY <1>1 DEF Resume, MediaReady, Fails, RemoteSet, Described, Encrypted, AnswerSet
<1>4. ~AcceptIncoming(u) /\ ~RejectIncoming(u) /\ ~EndCall(u) /\ ~Relay(u) /\ ~ConnectionLost(u)
  BY <1>1 DEF AcceptIncoming, RejectIncoming, EndCall, Relay, ConnectionLost
<1> QED
  BY <1>2, <1>3, <1>4

\* Who is in the call has the other for his party.
LEMMA Parties ==
    ASSUME TypeOK, ButtonsFitState, NEW c \in User, NEW v \in User, Between(c, v), Roles(c, v)
    PROVE  /\ c # v /\ c # Nobody /\ v # Nobody
           /\ state[c] # "ringing" /\ state[v] # "calling"
           /\ IF state[c] = "idle" THEN peer[c] = Nobody ELSE peer[c] = v
           /\ IF state[v] = "idle" THEN peer[v] = Nobody ELSE peer[v] = c
           /\ modal[c] = FALSE
BY NobodyAssumption DEF Between, Roles, ButtonsFitState, TypeOK

\* cleanup, as far as the call sees it
LEMMA Cleans ==
    ASSUME TypeOK, NEW u \in User, NEW done, Cleanup(u, done)
    PROVE  /\ state'[u] = "idle" /\ peer'[u] = Nobody /\ pc'[u] = NoPC
           /\ task'[u] \subseteq task[u]
           /\ \A t \in task'[u] : t.at \in {"remote", "describe"} => t.no # pc[u].id
           /\ \A t \in task[u] : t \notin done /\ t.at = "encrypt" => t \in task'[u]
BY DEF Cleanup, Shows, Hung, TypeOK

\* Ways for a caller to get out of the call
LEMMA CallerLeaves ==
    ASSUME TypeOK, ButtonsFitState, NEW c \in User, NEW v \in User, Between(c, v),
           Roles(c, v), Wires(c, v), Course(c, v),
           EndCall(c) \/ OnCallOver(c) \/ Fails(c) \/ ConnectionLost(c)
    PROVE  Roles(c, v)' /\ Wires(c, v)' /\ Course(c, v)'
<1>1. Still(v) /\ send'[v] = send[v]
  <2>1. (OnCallOver(c) => Receive(c)) /\ (Fails(c) => Resume(c))
    BY DEF Receive, Resume
  <2>2. EndCall(c) \/ Receive(c) \/ Resume(c) \/ ConnectionLost(c)
    BY <2>1
  <2>3. c # v
    BY Parties
  <2> QED
    BY <2>2, <2>3, OwnOnly
<1>2. PICK done : Cleanup(c, done)
  BY DEF EndCall, Ends, OnCallOver, Fails, ConnectionLost
<1>3. /\ state'[c] = "idle" /\ pc'[c] = NoPC /\ task'[c] \subseteq task[c]
      /\ \A t \in task'[c] : t.at = "describe" => t.no # pc[c].id
  BY <1>2, Cleans
<1>4. Roles(c, v)'
  BY <1>1, <1>3 DEF Roles, Still
<1>5. state[c] # "ringing" /\ c # v
  BY Parties
<1>6. CASE EndCall(c) \/ Fails(c)
  <2>1. Sends(c, "call_end", peer[c]) /\ send' = send
    BY <1>6 DEF EndCall, Fails, Ends
  <2>2. peer[c] \in {v, Nobody} /\ (state[c] # "idle" => peer[c] = v)
    BY Parties
  <2>3. \A a \in User, b \in User : \A k :
           Said(a, b, k)' <=> Said(a, b, k) \/ (a = c /\ b = peer[c] /\ k = "call_end")
    BY <2>1, <2>2, SaidSends DEF SignalType
  <2>4. Wires(c, v)'
    BY <2>1, <2>2, <1>5, WiresCallerSends
  <2>5. state[c] = "idle" \/ Over(c, v)'
    BY <2>2, <2>3 DEF Over
  <2>6. Course(c, v)'
    BY <1>1, <1>3, <1>5, <2>3, <2>5, CallerCleans DEF Still
  <2> QED
    BY <1>4, <2>4, <2>6
<1>7. CASE OnCallOver(c)
  <2> DEFINE h == Head(send[c])
  <2>1. /\ send[c] # <<>> /\ send' = [send EXCEPT ![c] = Tail(@)] /\ inbox' = inbox
        /\ h.type \in {"call_end", "call_reject"}
    BY <1>7 DEF OnCallOver, Receives
  <2>2. Wires(c, v)' /\ h.to = c /\ Said(v, c, h.type)
    BY <2>1, <1>5, WiresCallerReceives
  <2>3. \A k : /\ Said(v, c, k)' => Said(v, c, k)
               /\ Said(v, c, k) => Said(v, c, k)' \/ k = h.type
               /\ Said(c, v, k)' <=> Said(c, v, k)
    BY <2>1, <2>2, <1>5, SaidReceives
  <2>4. Over(v, c) /\ h.type # "call_accept"
    BY <2>1, <2>2 DEF Over
  <2> HIDE DEF h
  <2>5. Course(c, v)'
    BY <1>1, <1>3, <1>5, <2>3, <2>4, CallerCleans DEF Still
  <2> QED
    BY <1>4, <2>2, <2>5
<1>8. CASE ConnectionLost(c)
  <2>1. inbox' = inbox /\ send' = send /\ pc[c].sig = "stable"
    BY <1>8 DEF ConnectionLost
  <2>2. \A a, b, k : Said(a, b, k)' <=> Said(a, b, k)
    BY <2>1 DEF Said, Way
  <2>3. Wires(c, v)'
    BY <2>1 DEF Wires
  <2>4. Course(c, v)'
    BY <1>1, <1>3, <1>5, <2>1, <2>2, CallerCleans DEF Still
  <2> QED
    BY <1>4, <2>3, <2>4
<1> QED
  BY <1>6, <1>7, <1>8

\* Ways for a callee to get out of the call
LEMMA CalleeLeaves ==
    ASSUME TypeOK, ButtonsFitState, NEW c \in User, NEW v \in User, Between(c, v),
           Roles(c, v), Wires(c, v), Course(c, v),
           RejectIncoming(v) \/ EndCall(v) \/ OnCallOver(v) \/ Fails(v) \/ ConnectionLost(v)
    PROVE  Roles(c, v)' /\ Wires(c, v)' /\ Course(c, v)'
<1>1. Still(c) /\ send'[c] = send[c]
  <2>1. (OnCallOver(v) => Receive(v)) /\ (Fails(v) => Resume(v))
    BY DEF Receive, Resume
  <2>2. RejectIncoming(v) \/ EndCall(v) \/ Receive(v) \/ Resume(v) \/ ConnectionLost(v)
    BY <2>1
  <2>3. c # v
    BY Parties
  <2> QED
    BY <2>2, <2>3, OwnOnly
<1>2. /\ state'[v] = "idle" /\ peer'[v] = Nobody /\ pc'[v] = NoPC /\ task'[v] \subseteq task[v]
      /\ \A t \in task'[v] : t.at \in {"remote", "describe"} => t.no # pc[v].id
      /\ \A t \in task[v] : t.at = "encrypt" => t \in task'[v]
  <2>1. CASE RejectIncoming(v)
    <3>1. /\ state[v] = "ringing" /\ state'[v] = "idle" /\ peer'[v] = Nobody
          /\ pc' = pc /\ task' = task
      BY <2>1 DEF RejectIncoming, ButtonsFitState, Shows, media, handlers, TypeOK
    <3>2. pc[v] = NoPC /\ task[v] = {}
      BY <3>1 DEF Course, Ringing, NotConnected
    <3> QED
      BY <3>1, <3>2
  <2>2. CASE EndCall(v) \/ OnCallOver(v) \/ ConnectionLost(v)
    <3>1. Cleanup(v, {})
      BY <2>2 DEF EndCall, Ends, OnCallOver, ConnectionLost
    <3> QED
      BY <3>1, Cleans
  <2>3. CASE Fails(v)
    <3>1. PICK t \in task[v] : Cleanup(v, {t}) /\ t.at # "encrypt"
      BY <2>3 DEF Fails, Ends
    <3> QED
      BY <3>1, Cleans
  <2> QED
    BY <2>1, <2>2, <2>3
<1>4. Roles(c, v)'
  BY <1>1, <1>2 DEF Roles, Still
<1>5. state[v] # "calling" /\ c # v
  BY Parties
<1>6. CASE RejectIncoming(v) \/ EndCall(v) \/ Fails(v)
  <2>1. PICK type \in {"call_end", "call_reject"} : Sends(v, type, peer[v])
    <3>1. Sends(v, "call_reject", peer[v]) \/ Sends(v, "call_end", peer[v])
      BY <1>6 DEF RejectIncoming, EndCall, Fails, Ends
    <3> QED
      BY <3>1
  <2>2. send' = send
    BY <1>6 DEF RejectIncoming, EndCall, Fails
  <2>3. peer[v] \in {c, Nobody} /\ (state[v] = "idle" <=> peer[v] = Nobody) /\ c # Nobody
    <3>1. c # Nobody /\ IF state[v] = "idle" THEN peer[v] = Nobody ELSE peer[v] = c
      BY Parties
    <3> QED
      BY <3>1
  <2>4. \A a \in User, b \in User : \A k :
           Said(a, b, k)' <=> Said(a, b, k) \/ (a = v /\ b = peer[v] /\ k = type)
    BY <2>1, <2>3, <2>2, SaidSends DEF SignalType
  <2>5. Wires(c, v)'
    BY <2>1, <2>3, <2>2, <1>5, WiresCalleeSends
  <2>6. state[v] = "idle" \/ Over(v, c)'
    BY <2>1, <2>3, <2>4 DEF Over
  <2>7. Said(v, c, "call_end")' \/ Said(v, c, "call_reject")' => Over(v, c) \/ state[v] # "idle"
    BY <2>3, <2>4 DEF Over
  <2>8. \A k : /\ Said(c, v, k)' <=> Said(c, v, k)
               /\ Said(v, c, k) => Said(v, c, k)'
               /\ Said(v, c, k)' => Said(v, c, k) \/ k \in {"call_end", "call_reject"}
    BY <1>5, <2>1, <2>4
  <2>9. Course(c, v)'
    BY <1>1, <1>2, <1>5, <2>6, <2>7, <2>8, CalleeCleans DEF Still
  <2> QED
    BY <1>4, <2>5, <2>9
<1>7. CASE OnCallOver(v)
  <2> DEFINE h == Head(send[v])
  <2>1. /\ send[v] # <<>> /\ send' = [send EXCEPT ![v] = Tail(@)] /\ inbox' = inbox
        /\ h.type \in {"call_end", "call_reject"}
    BY <1>7 DEF OnCallOver, Receives
  <2>2. Wires(c, v)' /\ h.to = v /\ Said(c, v, h.type) /\ ~Said(c, v, "call_request")'
    BY <2>1, <1>5, WiresCalleeReceives
  <2>3. \A k : /\ Said(c, v, k)' => Said(c, v, k)
               /\ Said(c, v, k) => Said(c, v, k)' \/ k = h.type
               /\ Said(v, c, k)' <=> Said(v, c, k)
    BY <2>1, <2>2, <1>5, SaidReceives
  <2>4. Over(c, v)
    BY <2>1, <2>2 DEF Over
  <2>5. Said(v, c, "call_end")' \/ Said(v, c, "call_reject")' => Over(v, c)
    BY <2>3 DEF Over
  <2> HIDE DEF h
  <2>6. Course(c, v)'
    BY <1>1, <1>2, <1>5, <2>2, <2>3, <2>4, <2>5, CalleeCleans DEF Still
  <2> QED
    BY <1>4, <2>2, <2>6
<1>8. CASE ConnectionLost(v)
  <2>1. inbox' = inbox /\ send' = send /\ pc[v].sig = "stable"
    BY <1>8 DEF ConnectionLost
  <2>2. \A a, b, k : Said(a, b, k)' <=> Said(a, b, k)
    BY <2>1 DEF Said, Way
  <2>3. Wires(c, v)'
    BY <2>1 DEF Wires
  <2>4. Said(v, c, "call_end")' \/ Said(v, c, "call_reject")' => Over(v, c)
    BY <2>2 DEF Over
  <2>5. Course(c, v)'
    BY <1>1, <1>2, <1>5, <2>1, <2>2, <2>4, CalleeCleans DEF Still
  <2> QED
    BY <1>4, <2>3, <2>5
<1> QED
  BY <1>6, <1>7, <1>8

\* Where the call is known as before, its course is.
LEMMA CourseSame ==
    ASSUME NEW c \in User, NEW v \in User, Course(c, v),
           state'[c] = state[c], state'[v] = state[v], pc'[c] = pc[c], pc'[v] = pc[v],
           task'[c] = task[c], task'[v] = task[v],
           \A k : Said(c, v, k)' <=> Said(c, v, k),
           \A k : Said(v, c, k)' => Said(v, c, k),
           \A k : Said(v, c, k) => Said(v, c, k)' \/ (k = "call_accept" /\ state[c] # "calling")
    PROVE  Course(c, v)'
<1> USE DEF Course
<1>1. /\ Offered(c, v)' <=> Offered(c, v)
      /\ Answered(c, v)' <=> Answered(c, v)
      /\ Accepting(c)' <=> Accepting(c)
      /\ Over(c, v)' <=> Over(c, v)
      /\ Over(v, c)' <=> Over(v, c)
      /\ LocalSet(c)' <=> LocalSet(c)
  BY DEF Offered, Answered, Accepting, Over, LocalSet
<1>2. OneAtATime(c, v)'
  BY <1>1 DEF OneAtATime
<1>3. CallerConnects(c, v)' /\ CalleeConnects(c, v)'
  BY <1>1 DEF CallerConnects, CalleeConnects
<1>4. OverIsOver(c, v)'
  BY <1>1 DEF OverIsOver
<1>5. Ringing(c, v)'
  BY <1>1 DEF Ringing, NotConnected
<1>6. Together(c, v)'
  BY <1>1 DEF Together, Late
<1> QED
  BY <1>2, <1>3, <1>4, <1>5, <1>6

\* The server passes signals on.
LEMMA RelayAgrees ==
    ASSUME TypeOK, NEW c \in User, NEW v \in User, c # v, Roles(c, v), Wires(c, v), Course(c, v),
           Relay(c) \/ Relay(v)
    PROVE  Roles(c, v)' /\ Wires(c, v)' /\ Course(c, v)'
<1>1. UNCHANGED <<state, peer, pc, task>>
  BY DEF Relay, view, media, handlers
<1>2. /\ Wires(c, v)' /\ \A k : Said(c, v, k)' <=> Said(c, v, k)
      /\ \A k : Said(v, c, k)' <=> Said(v, c, k)
  BY NobodyAssumption, WiresCallerRelay, WiresCalleeRelay
<1>3. Roles(c, v)'
  BY <1>1 DEF Roles
<1>4. Course(c, v)'
  BY <1>1, <1>2, CourseSame
<1> QED
  BY <1>2, <1>3, <1>4

\* The callee is called: nothing has come from him yet.
LEMMA RequestAgrees ==
    ASSUME TypeOK, NEW c \in User, NEW v \in User, c # v, Roles(c, v), Wires(c, v), Course(c, v),
           OnCallRequest(v)
    PROVE  Roles(c, v)' /\ Wires(c, v)' /\ Course(c, v)'
<1> USE DEF Course
<1> DEFINE h == Head(send[v])
<1>1. /\ send[v] # <<>> /\ send' = [send EXCEPT ![v] = Tail(@)] /\ h.type = "call_request"
      /\ UNCHANGED <<stream, pc, task, started>>
      /\ \/ state[v] = "idle" /\ Shows(v, "ringing", h.from, TRUE, overlay[v]) /\ inbox' = inbox
         \/ state[v] # "idle" /\ UNCHANGED view /\ Sends(v, "call_reject", h.from)
  BY DEF OnCallRequest, Receives, media, handlers
<1>2. h.type = "call_request" => Said(c, v, "call_request") /\ h.from = c
  <2>1. On(send[v]) = {h} \cup On(Tail(send[v]))
    BY <1>1, OnTail DEF TypeOK
  <2>2. h \in CallerSays(c, v) /\ h.to = v
    BY <2>1, WiresAreSignals
  <2> QED
    BY <2>1, <2>2 DEF Said, Way, CallerSays
<1>3. /\ state[v] = "idle" /\ NotConnected(c, v) /\ \A type \in SignalType : ~Said(v, c, type)
      /\ state[c] = "calling" \/ (state[c] = "idle" /\ Over(c, v))
  BY <1>1, <1>2 DEF Ringing
<1>4. /\ inbox' = inbox /\ state'[v] = "ringing" /\ peer'[v] = c /\ state'[c] = state[c]
      /\ pc' = pc /\ task' = task
  BY <1>1, <1>2, <1>3 DEF Shows, TypeOK
<1>5. Wires(c, v)' /\ h.to = v /\ ~Said(c, v, "call_request")'
  BY <1>1, <1>4, WiresCalleeReceives
<1>6. \A k : /\ Said(c, v, k)' => Said(c, v, k)
             /\ Said(c, v, k) => Said(c, v, k)' \/ k = "call_request"
             /\ Said(v, c, k)' <=> Said(v, c, k)
  <2>1. /\ send[v] # <<>> /\ h.to = v /\ send' = [send EXCEPT ![v] = Tail(@)] /\ inbox' = inbox
        /\ h.type = "call_request"
    BY <1>1, <1>4, <1>5
  <2>2. \A k : /\ Said(c, v, k)' => Said(c, v, k)
               /\ Said(c, v, k) => Said(c, v, k)' \/ k = "call_request"
    BY <2>1, SaidReceives
  <2>3. \A k : Said(v, c, k)' <=> Said(v, c, k)
    BY <2>1, SaidReceives
  <2> QED
    BY <2>2, <2>3
<1> HIDE DEF h
<1>7. NotConnected(c, v)' /\ ~Accepting(c)'
  BY <1>3, <1>4, <1>6 DEF NotConnected, Offered, Answered, Accepting
<1>8. Over(c, v)' <=> Over(c, v)
  BY <1>6 DEF Over
<1>9. ~Over(v, c)'
  BY <1>3, <1>6 DEF Over, SignalType
<1>10. OneAtATime(c, v)' /\ CallerConnects(c, v)' /\ CalleeConnects(c, v)'
  BY <1>7 DEF OneAtATime, CallerConnects, CalleeConnects, NotConnected, LocalSet
<1>11. OverIsOver(c, v)' /\ Ringing(c, v)'
  BY <1>3, <1>4, <1>5, <1>6, <1>7, <1>8, <1>9 DEF OverIsOver, Ringing
<1>12. Together(c, v)'
  BY <1>3, <1>4 DEF Together
<1>13. Roles(c, v)'
  BY <1>4 DEF Roles
<1> QED
  BY <1>5, <1>10, <1>11, <1>12, <1>13

\* The callee accepts: the caller waits for that, or has given up and said so.
LEMMA AcceptAgrees ==
    ASSUME TypeOK, ButtonsFitState, NEW c \in User, NEW v \in User, Between(c, v),
           Roles(c, v), Wires(c, v), Course(c, v), AcceptIncoming(v)
    PROVE  Roles(c, v)' /\ Wires(c, v)' /\ Course(c, v)'
<1> USE DEF Course
<1>1. state[v] = "ringing" /\ peer[v] = c /\ c # v
  <2>1. state[v] = "ringing"
    BY DEF AcceptIncoming, ButtonsFitState
  <2> QED
    BY <2>1, Parties
<1>2. /\ Sends(v, "call_accept", c) /\ UNCHANGED <<pc, task, send>>
      /\ state'[v] = "in_call" /\ peer'[v] = c /\ state'[c] = state[c]
  BY <1>1 DEF AcceptIncoming, Shows, media, handlers, TypeOK
<1>3. \A k : /\ Said(c, v, k)' <=> Said(c, v, k)
             /\ Said(v, c, k)' <=> Said(v, c, k) \/ k = "call_accept"
  BY <1>1, <1>2, SaidSends DEF SignalType
<1>4. Wires(c, v)'
  BY <1>1, <1>2, WiresCalleeSends
<1>5. /\ NotConnected(c, v) /\ \A type \in SignalType : ~Said(v, c, type)
      /\ state[c] = "calling" \/ (state[c] = "idle" /\ Over(c, v))
      /\ ~Said(c, v, "call_request")
  BY <1>1 DEF Ringing
<1>6. NotConnected(c, v)' /\ ~Accepting(c)'
  BY <1>2, <1>3, <1>5 DEF NotConnected, Offered, Answered, Accepting
<1>7. (Over(c, v)' <=> Over(c, v)) /\ ~Over(v, c)'
  BY <1>3, <1>5 DEF Over, SignalType
<1>8. OneAtATime(c, v)' /\ CallerConnects(c, v)' /\ CalleeConnects(c, v)'
  BY <1>6 DEF OneAtATime, CallerConnects, CalleeConnects, NotConnected, LocalSet
<1>9. OverIsOver(c, v)' /\ Ringing(c, v)'
  BY <1>2, <1>3, <1>5, <1>6, <1>7 DEF OverIsOver, Ringing
<1>10. Together(c, v)'
  BY <1>2, <1>3, <1>5, <1>6, <1>7 DEF Together, NotConnected
<1>11. Roles(c, v)'
  BY <1>2 DEF Roles
<1> QED
  BY <1>4, <1>8, <1>9, <1>10, <1>11

\* The caller is accepted: the callee waits for an offer, or is out and says so.
LEMMA AcceptedAgrees ==
    ASSUME TypeOK, NEW c \in User, NEW v \in User, c # v, Roles(c, v), Wires(c, v), Course(c, v),
           OnCallAccept(c)
    PROVE  Roles(c, v)' /\ Wires(c, v)' /\ Course(c, v)'
<1> USE DEF Course
<1> DEFINE h == Head(send[c])
           n == [no |-> started[c] + 1, kind |-> "accept", at |-> "media", to |-> Nobody]
<1>1. /\ send[c] # <<>> /\ send' = [send EXCEPT ![c] = Tail(@)] /\ h.type = "call_accept"
      /\ pc' = pc /\ inbox' = inbox
  BY DEF OnCallAccept, Receives, media
<1>2. Wires(c, v)' /\ h.to = c /\ Said(v, c, "call_accept")
  BY <1>1, WiresCallerReceives
<1>3. \A k : /\ Said(v, c, k)' => Said(v, c, k)
             /\ Said(v, c, k) => Said(v, c, k)' \/ k = "call_accept"
             /\ Said(c, v, k)' <=> Said(c, v, k)
  BY <1>1, <1>2, SaidReceives
<1> HIDE DEF h
<1>4. CASE state[c] # "calling"
  <2>1. UNCHANGED <<state, peer, task>>
    BY <1>4 DEF OnCallAccept, view, handlers
  <2>2. Course(c, v)'
    BY <1>1, <1>3, <1>4, <2>1, CourseSame
  <2>3. Roles(c, v)'
    BY <2>1 DEF Roles
  <2> QED
    BY <1>2, <2>2, <2>3
<1>5. CASE state[c] = "calling"
  <2>1. NotConnected(c, v) /\ ~Over(c, v)
    BY <1>5 DEF Ringing, OverIsOver
  <2>2. /\ state[v] # "ringing" /\ ~Said(c, v, "call_request")
        /\ state[v] = "in_call" \/ Over(v, c)
    BY <1>2, <1>5 DEF Ringing, SignalType
  <2>3. /\ state'[c] = "in_call" /\ state'[v] = state[v] /\ peer'[v] = peer[v]
        /\ task'[c] = {n} /\ task'[v] = {}
    BY <1>5, <2>1 DEF OnCallAccept, Shows, Starts, TypeOK, NotConnected
  <2>4. n.kind = "accept" /\ n.at = "media"
    OBVIOUS
  <2> HIDE DEF n
  <2>5. /\ ~Offered(c, v)' /\ ~Answered(c, v)' /\ ~Over(c, v)'
        /\ Over(v, c)' <=> Over(v, c)
    BY <1>1, <1>3, <2>1, <2>3, <2>4 DEF NotConnected, Offered, Answered, Over
  <2>6. OneAtATime(c, v)' /\ CallerConnects(c, v)' /\ CalleeConnects(c, v)'
    BY <1>1, <2>1, <2>3, <2>4, <2>5
    DEF OneAtATime, CallerConnects, CalleeConnects, NotConnected
  <2>7. OverIsOver(c, v)' /\ Ringing(c, v)'
    BY <1>3, <2>2, <2>3, <2>5 DEF OverIsOver, Ringing
  <2>8. Together(c, v)'
    BY <1>1, <2>1, <2>2, <2>3, <2>5 DEF Together, NotConnected, NoPC
  <2>9. Roles(c, v)'
    BY <2>3, <2>4 DEF Roles
  <2> QED
    BY <1>2, <2>6, <2>7, <2>8, <2>9
<1> QED
  BY <1>4, <1>5

\* What the handlers of the two wait for
LEMMA HandlersWait ==
    ASSUME NEW c \in User, NEW v \in User, Between(c, v), Roles(c, v), Course(c, v)
    PROVE  /\ \A t \in task[c] :
                \/ t.kind = "accept" /\ t.at \in {"media", "describe", "encrypt"} /\ task[c] = {t}
                \/ t.kind = "answer" /\ t.at = "decrypt"
           /\ \A t \in task[v] :
                /\ t.kind = "offer" /\ t.at \in {"media", "remote", "describe", "encrypt"}
                /\ task[v] = {t}
<1>1. \A t \in task[c] : t.kind = "answer" => t.at = "decrypt"
  BY DEF Between, TaskOf
<1>2. \A t \in task[c] : t.kind = "accept" =>
        t.at \in {"media", "describe", "encrypt"} /\ task[c] = {t}
  BY DEF Course, CallerConnects, OneAtATime, Accepting
<1>3. \A t \in task[v] : t.at \in {"media", "remote", "describe", "encrypt"} /\ task[v] = {t}
  BY DEF Course, CalleeConnects, OneAtATime
<1> QED
  BY <1>1, <1>2, <1>3 DEF Roles

\* The callee is offered a connection, and begins his own.
LEMMA OfferAgrees ==
    ASSUME TypeOK, NEW c \in User, NEW v \in User, c # v, Roles(c, v), Wires(c, v), Course(c, v),
           OnCallOffer(v)
    PROVE  Roles(c, v)' /\ Wires(c, v)' /\ Course(c, v)'
<1> USE DEF Course
<1> DEFINE h == Head(send[v])
           n == [no |-> started[v] + 1, kind |-> "offer", at |-> "media", to |-> Nobody]
<1>1. /\ send[v] # <<>> /\ send' = [send EXCEPT ![v] = Tail(@)] /\ h.type = "call_offer"
      /\ pc' = pc /\ inbox' = inbox /\ state' = state /\ peer' = peer
      /\ task' = [task EXCEPT ![v] = @ \cup {n}]
  BY DEF OnCallOffer, Receives, media, view, Starts
<1>2. /\ Wires(c, v)' /\ h.to = v /\ Said(c, v, "call_offer")
      /\ ~Said(c, v, "call_offer")' /\ ~Said(c, v, "call_request")'
  BY <1>1, WiresCalleeReceives
<1>3. \A k : /\ Said(c, v, k)' => Said(c, v, k)
             /\ Said(c, v, k) => Said(c, v, k)' \/ k = "call_offer"
             /\ Said(v, c, k)' <=> Said(v, c, k)
  BY <1>1, <1>2, SaidReceives
<1> HIDE DEF h
<1>4. /\ Offered(c, v) /\ ~Answered(c, v) /\ ~Accepting(c) /\ task[v] = {} /\ pc[v] = NoPC
      /\ LocalSet(c)
  BY <1>2 DEF Offered, OneAtATime, CallerConnects
<1>5. task'[v] = {n} /\ task'[c] = task[c] /\ n.kind = "offer" /\ n.at = "media" /\ n.to = Nobody
  BY <1>1, <1>4 DEF TypeOK
<1> HIDE DEF n
<1>6. /\ ~Offered(c, v)' /\ ~Answered(c, v)' /\ ~Accepting(c)'
      /\ LocalSet(c)'
      /\ Over(c, v)' <=> Over(c, v)
      /\ Over(v, c)' <=> Over(v, c)
  BY <1>1, <1>2, <1>3, <1>4, <1>5 DEF Offered, Answered, Accepting, LocalSet, Over
<1>7. state[c] # "calling" /\ state[v] # "ringing"
  BY <1>4 DEF Ringing, NotConnected
<1>8. OneAtATime(c, v)' /\ CallerConnects(c, v)' /\ CalleeConnects(c, v)'
  BY <1>1, <1>4, <1>5, <1>6 DEF OneAtATime, CallerConnects, CalleeConnects, Accepting
<1>9. OverIsOver(c, v)' /\ Ringing(c, v)'
  BY <1>1, <1>2, <1>6, <1>7 DEF OverIsOver, Ringing
<1>10. Together(c, v)'
  <2>1. ~Late(c, v)
    BY <1>4 DEF Late
  <2> QED
    BY <1>1, <1>4, <1>6, <1>7, <2>1 DEF Together, NoPC
<1>11. Roles(c, v)'
  BY <1>1, <1>5 DEF Roles
<1> QED
  BY <1>2, <1>8, <1>9, <1>10, <1>11

\* The caller is answered: if he is still in the call, his handler takes the answer.
LEMMA AnsweredAgrees ==
    ASSUME TypeOK, NEW c \in User, NEW v \in User, c # v, Roles(c, v), Wires(c, v), Course(c, v),
           OnCallAnswer(c)
    PROVE  Roles(c, v)' /\ Wires(c, v)' /\ Course(c, v)'
<1> USE DEF Course
<1> DEFINE h == Head(send[c])
           n == [no |-> started[c] + 1, kind |-> "answer", at |-> "decrypt", to |-> Nobody]
<1>1. /\ send[c] # <<>> /\ send' = [send EXCEPT ![c] = Tail(@)] /\ h.type = "call_answer"
      /\ pc' = pc /\ inbox' = inbox /\ state' = state /\ peer' = peer
      /\ pc[c] # NoPC => task' = [task EXCEPT ![c] = @ \cup {n}]
      /\ pc[c] = NoPC => task' = task
  BY DEF OnCallAnswer, Receives, media, view, handlers, Starts
<1>2. Wires(c, v)' /\ h.to = c /\ Said(v, c, "call_answer")
  BY <1>1, WiresCallerReceives
<1>3. \A k : /\ Said(v, c, k)' => Said(v, c, k)
             /\ Said(v, c, k) => Said(v, c, k)' \/ k = "call_answer"
             /\ Said(c, v, k)' <=> Said(c, v, k)
  BY <1>1, <1>2, SaidReceives
<1> HIDE DEF h
<1>4. Answered(c, v) /\ ~Offered(c, v) /\ ~Accepting(c) /\ task[v] = {}
  BY <1>2 DEF Answered, OneAtATime
<1>5. /\ task'[v] = task[v] /\ (pc[c] # NoPC => n \in task'[c])
      /\ \A t \in task'[c] : t \in task[c] \/ t = n
      /\ n.kind = "answer" /\ n.at = "decrypt"
  BY <1>1 DEF TypeOK
<1> HIDE DEF n
<1>6. /\ ~Offered(c, v)' /\ ~Accepting(c)'
      /\ pc[c] # NoPC => Answered(c, v)'
      /\ Over(c, v)' <=> Over(c, v)
      /\ Over(v, c)' <=> Over(v, c)
  BY <1>1, <1>3, <1>4, <1>5 DEF Offered, Answered, Accepting, Over
<1>7. state[c] = "in_call" => Answered(c, v)'
  <2>1. state[c] = "in_call" => pc[c].sig \in {"local", "stable"}
    BY <1>4 DEF CallerConnects
  <2>2. NoPC.sig = "none"
    BY DEF NoPC
  <2> QED
    BY <1>6, <2>1, <2>2
<1>8. state[c] # "calling" /\ state[v] # "ringing" /\ ~Said(c, v, "call_request")
  BY <1>4 DEF Ringing, NotConnected
<1>9. OneAtATime(c, v)' /\ CallerConnects(c, v)' /\ CalleeConnects(c, v)'
  BY <1>1, <1>4, <1>5, <1>6 DEF OneAtATime, CallerConnects, CalleeConnects, Accepting
<1>10. OverIsOver(c, v)' /\ Ringing(c, v)'
  BY <1>1, <1>3, <1>6, <1>8 DEF OverIsOver, Ringing
<1>11. Together(c, v)'
  BY <1>1, <1>4, <1>6, <1>7, <1>8 DEF Together, Late
<1>12. Roles(c, v)'
  BY <1>1, <1>5 DEF Roles
<1> QED
  BY <1>2, <1>9, <1>10, <1>11, <1>12

\* A handler that goes on without a signal: the states and what is said are as
\* before, and nothing was called or rings that would not be connected yet.
LEMMA CourseGoesOn ==
    ASSUME NEW c \in User, NEW v \in User, Course(c, v), task[c] # {} \/ task[v] # {},
           state' = state,
           \A k : Said(c, v, k)' <=> Said(c, v, k),
           \A k : Said(v, c, k)' <=> Said(v, c, k),
           OneAtATime(c, v)', CallerConnects(c, v)', CalleeConnects(c, v)', Together(c, v)'
    PROVE  Course(c, v)'
<1>1. OverIsOver(c, v)'
  BY DEF Course, OverIsOver, Over
<1>2. Ringing(c, v)'
  BY DEF Course, Ringing, NotConnected
<1> QED
  BY <1>1, <1>2 DEF Course

\* The caller has his media, describes his end, and has it encrypted for the callee.
LEMMA CallerGoesOn ==
    ASSUME TypeOK, ButtonsFitState, NEW c \in User, NEW v \in User, Between(c, v),
           Roles(c, v), Wires(c, v), Course(c, v), MediaReady(c) \/ RemoteSet(c) \/ Described(c)
    PROVE  Roles(c, v)' /\ Wires(c, v)' /\ Course(c, v)'
<1> USE DEF Course
<1>1. PICK t \in task[c] :
         \/ /\ t.at = "media" /\ pc' = [pc EXCEPT ![c] = [id |-> t.no, sig |-> "new"]]
            /\ Awaits(c, t, IF t.kind = "offer" THEN "remote" ELSE "describe", Nobody)
         \/ /\ t.at = "describe" /\ Awaits(c, t, "encrypt", peer[c])
            /\ pc' = IF t.no # pc[c].id THEN pc
                     ELSE [pc EXCEPT ![c].sig = IF t.kind = "offer" THEN "stable" ELSE "local"]
  BY HandlersWait DEF MediaReady, RemoteSet, Described
<1>2. t.kind = "accept" /\ t.at \in {"media", "describe", "encrypt"} /\ task[c] = {t} /\ c # v
  BY <1>1, HandlersWait, Parties
<1>3. UNCHANGED <<state, peer, inbox, send>>
  BY DEF MediaReady, RemoteSet, Described, view
<1>4. /\ Wires(c, v)'
      /\ \A k : Said(c, v, k)' <=> Said(c, v, k)
      /\ \A k : Said(v, c, k)' <=> Said(v, c, k)
  BY <1>3 DEF Wires, Said, Way
<1>5. /\ Accepting(c) /\ ~Offered(c, v) /\ ~Answered(c, v) /\ task[v] = {} /\ pc[v] = NoPC
      /\ pc'[v] = pc[v] /\ task'[v] = task[v]
  BY <1>1, <1>2 DEF Accepting, OneAtATime, Awaits, TypeOK
<1>6. CASE t.at = "media"
  <2> DEFINE n == [t EXCEPT !.at = "describe", !.to = Nobody]
  <2>1. /\ pc'[c] = [id |-> t.no, sig |-> "new"] /\ task'[c] = {n}
        /\ n.at = "describe" /\ n.no = t.no /\ n.kind = "accept"
    BY <1>1, <1>2, <1>6 DEF Awaits, TypeOK, Task
  <2> HIDE DEF n
  <2>2. ~Offered(c, v)' /\ ~Answered(c, v)' /\ Accepting(c)'
    BY <1>4, <1>5, <2>1 DEF Offered, Answered, Accepting
  <2>3. OneAtATime(c, v)' /\ CallerConnects(c, v)' /\ CalleeConnects(c, v)'
    BY <1>5, <2>1, <2>2 DEF OneAtATime, CallerConnects, CalleeConnects
  <2>4. Together(c, v)'
    BY <1>3, <1>4, <1>5, <2>2 DEF Together, Late, Over
  <2>5. Course(c, v)'
    BY <1>2, <1>3, <1>4, <2>3, <2>4, CourseGoesOn
  <2>6. Roles(c, v)'
    BY <1>3, <1>5, <2>1 DEF Roles
  <2> QED
    BY <1>4, <2>5, <2>6
<1>7. CASE t.at = "describe"
  <2> DEFINE n == [t EXCEPT !.at = "encrypt", !.to = peer[c]]
  <2>1. pc[c] = [id |-> t.no, sig |-> "new"]
    BY <1>2, <1>7 DEF CallerConnects
  <2>2. /\ pc'[c].sig = "local" /\ task'[c] = {n}
        /\ n.at = "encrypt" /\ n.to = peer[c] /\ n.kind = "accept"
    BY <1>1, <1>2, <1>7, <2>1 DEF Awaits, TypeOK, Task
  <2>3. state[c] = "in_call" <=> peer[c] = v
    <3>1. state[c] # "calling" /\ state[c] # "ringing"
      BY <1>2, Parties DEF Ringing, NotConnected
    <3>2. state[c] \in {"idle", "calling", "ringing", "in_call"} /\ v # Nobody
      BY Parties DEF TypeOK
    <3>3. IF state[c] = "idle" THEN peer[c] = Nobody ELSE peer[c] = v
      BY Parties
    <3> QED
      BY <3>1, <3>2, <3>3
  <2> HIDE DEF n
  <2>4. ~Offered(c, v)' /\ ~Answered(c, v)' /\ Accepting(c)'
    BY <1>4, <1>5, <2>2 DEF Offered, Answered, Accepting
  <2>5. OneAtATime(c, v)' /\ CallerConnects(c, v)' /\ CalleeConnects(c, v)'
    BY <1>3, <1>5, <2>2, <2>3, <2>4 DEF OneAtATime, CallerConnects, CalleeConnects, LocalSet
  <2>6. Together(c, v)'
    BY <1>3, <1>4, <1>5, <2>4 DEF Together, Late, Over
  <2>7. Course(c, v)'
    BY <1>2, <1>3, <1>4, <2>5, <2>6, CourseGoesOn
  <2>8. Roles(c, v)'
    BY <1>3, <1>5, <2>2 DEF Roles
  <2> QED
    BY <1>4, <2>7, <2>8
<1> QED
  BY <1>1, <1>6, <1>7

\* The callee has his media, takes the offer, describes his end, and has the
\* answer encrypted for the caller if he is still in the call.
LEMMA CalleeGoesOn ==
    ASSUME TypeOK, ButtonsFitState, NEW c \in User, NEW v \in User, Between(c, v),
           Roles(c, v), Wires(c, v), Course(c, v), MediaReady(v) \/ RemoteSet(v) \/ Described(v)
    PROVE  Roles(c, v)' /\ Wires(c, v)' /\ Course(c, v)'
<1> USE DEF Course
<1>1. PICK t \in task[v] :
         \/ /\ t.at = "media" /\ pc' = [pc EXCEPT ![v] = [id |-> t.no, sig |-> "new"]]
            /\ Awaits(v, t, IF t.kind = "offer" THEN "remote" ELSE "describe", Nobody)
         \/ /\ t.at = "remote" /\ pc' = [pc EXCEPT ![v].sig = "remote"]
            /\ Awaits(v, t, "describe", Nobody)
         \/ /\ t.at = "describe" /\ Awaits(v, t, "encrypt", peer[v])
            /\ pc' = IF t.no # pc[v].id THEN pc
                     ELSE [pc EXCEPT ![v].sig = IF t.kind = "offer" THEN "stable" ELSE "local"]
  BY DEF MediaReady, RemoteSet, Described
<1>2. t.kind = "offer" /\ task[v] = {t} /\ t \in Task
  BY HandlersWait DEF TypeOK
<1>3. c # v
  BY Parties
<1>4. UNCHANGED <<state, peer, inbox, send>>
  BY DEF MediaReady, RemoteSet, Described, view
<1>5. /\ Wires(c, v)'
      /\ \A k : Said(c, v, k)' <=> Said(c, v, k)
      /\ \A k : Said(v, c, k)' <=> Said(v, c, k)
  BY <1>4 DEF Wires, Said, Way
<1>6. pc'[c] = pc[c] /\ task'[c] = task[c]
  BY <1>1, <1>3 DEF Awaits, TypeOK
<1>7. /\ ~Accepting(c) /\ ~Offered(c, v) /\ ~Answered(c, v) /\ LocalSet(c)
      /\ ~Accepting(c)' /\ ~Offered(c, v)' /\ ~Answered(c, v)' /\ LocalSet(c)'
  <2>1. ~Accepting(c) /\ ~Offered(c, v) /\ ~Answered(c, v) /\ LocalSet(c)
    BY <1>2 DEF OneAtATime, CallerConnects
  <2> QED
    BY <1>4, <1>5, <1>6, <2>1 DEF Accepting, Offered, Answered, LocalSet
<1>8. t.at # "encrypt"
  BY <1>1
<1>9. state[c] = "in_call" => state[v] = "in_call" \/ Over(v, c)
  BY <1>2, <1>7, <1>8 DEF Together, Late
<1>10. pc[v].sig # "stable"
  <2>1. t.at \in {"media", "remote", "describe"}
    BY <1>1
  <2>2. \/ pc[v] = NoPC \/ pc[v] = [id |-> t.no, sig |-> "new"]
        \/ pc[v] = [id |-> t.no, sig |-> "remote"]
    BY <1>2, <2>1 DEF CalleeConnects
  <2> QED
    BY <2>2 DEF NoPC
<1>11. (Over(c, v)' <=> Over(c, v)) /\ (Over(v, c)' <=> Over(v, c))
  BY <1>5 DEF Over
<1>12. CallerConnects(c, v)'
  BY <1>6, <1>7 DEF CallerConnects, Accepting
<1>13. ASSUME NEW n, task'[v] = {n}, n.kind = "offer", n.to \in {c, Nobody},
              n.at \in {"media", "remote", "describe", "encrypt"}, n.at # "media",
              n.at = "remote" => pc'[v] = [id |-> n.no, sig |-> "new"],
              n.at = "describe" => pc'[v] = [id |-> n.no, sig |-> "remote"],
              n.at = "encrypt" => pc'[v].sig = "stable" /\ n.to = peer[v]
       PROVE  Roles(c, v)' /\ Course(c, v)'
  <2>1. Roles(c, v)'
    BY <1>4, <1>6, <1>13 DEF Roles
  <2>2. OneAtATime(c, v)' /\ CalleeConnects(c, v)'
    BY <1>7, <1>13 DEF OneAtATime, CalleeConnects
  <2>3. Together(c, v)'
    <3>1. pc'[v].sig = "stable" => n.at = "encrypt"
      BY <1>13
    <3>2. state[v] = "in_call" => peer[v] = c
      BY Parties
    <3>3. state[c] = "in_call" /\ pc'[v].sig = "stable" => Over(v, c) \/ Late(c, v)'
      BY <1>9, <1>13, <3>1, <3>2 DEF Late
    <3> QED
      BY <1>4, <1>5, <1>6, <1>7, <1>9, <1>10, <1>11, <3>3 DEF Together
  <2> QED
    BY <1>2, <1>4, <1>5, <1>12, <2>1, <2>2, <2>3, CourseGoesOn
<1>14. CASE t.at = "media"
  <2> DEFINE n == [t EXCEPT !.at = "remote", !.to = Nobody]
  <2>1. /\ pc'[v] = [id |-> t.no, sig |-> "new"] /\ task'[v] = {n} /\ n.kind = "offer"
        /\ n.at = "remote" /\ n.no = t.no /\ n.to = Nobody
    BY <1>1, <1>2, <1>14 DEF Awaits, TypeOK, Task
  <2> HIDE DEF n
  <2> QED
    BY <1>5, <1>13, <2>1
<1>15. CASE t.at = "remote"
  <2> DEFINE n == [t EXCEPT !.at = "describe", !.to = Nobody]
  <2>1. pc[v] = [id |-> t.no, sig |-> "new"]
    BY <1>2, <1>15 DEF CalleeConnects
  <2>2. /\ pc'[v] = [id |-> t.no, sig |-> "remote"] /\ task'[v] = {n} /\ n.kind = "offer"
        /\ n.at = "describe" /\ n.no = t.no /\ n.to = Nobody
    BY <1>1, <1>2, <1>15, <2>1 DEF Awaits, TypeOK, Task
  <2> HIDE DEF n
  <2> QED
    BY <1>5, <1>13, <2>2
<1>16. CASE t.at = "describe"
  <2> DEFINE n == [t EXCEPT !.at = "encrypt", !.to = peer[v]]
  <2>1. pc[v] = [id |-> t.no, sig |-> "remote"]
    BY <1>2, <1>16 DEF CalleeConnects
  <2>2. /\ pc'[v].sig = "stable" /\ task'[v] = {n} /\ n.kind = "offer"
        /\ n.at = "encrypt" /\ n.no = t.no /\ n.to = peer[v] /\ peer[v] \in {c, Nobody}
    BY <1>1, <1>2, <1>16, <2>1 DEF Awaits, TypeOK, Task, Roles
  <2> HIDE DEF n
  <2> QED
    BY <1>5, <1>13, <2>2
<1> QED
  BY <1>1, <1>14, <1>15, <1>16

\* The offer is encrypted: the callee is offered a connection if the caller was
\* in the call when he had described his end.
LEMMA OffersAgree ==
    ASSUME TypeOK, ButtonsFitState, NEW c \in User, NEW v \in User, Between(c, v),
           Roles(c, v), Wires(c, v), Course(c, v), Encrypted(c)
    PROVE  Roles(c, v)' /\ Wires(c, v)' /\ Course(c, v)'
<1> USE DEF Course
<1>1. PICK t \in task[c] :
         /\ t.at = "encrypt" /\ task' = [task EXCEPT ![c] = @ \ {t}]
         /\ Sends(c, IF t.kind = "offer" THEN "call_answer" ELSE "call_offer", t.to)
  BY DEF Encrypted
<1>2. t.kind = "accept" /\ task[c] = {t} /\ t.to \in {v, Nobody}
  BY <1>1, HandlersWait DEF Between, TaskOf
<1>3. c # v /\ v # Nobody
  BY Parties
<1>4. UNCHANGED <<state, peer, pc, send>> /\ Sends(c, "call_offer", t.to)
  BY <1>1, <1>2 DEF Encrypted, view, media
<1>5. task'[c] = {} /\ task'[v] = task[v]
  BY <1>1, <1>2, <1>3 DEF TypeOK
<1>6. /\ ~Offered(c, v) /\ ~Answered(c, v) /\ task[v] = {} /\ pc[v] = NoPC
      /\ t.to = v => LocalSet(c)
  <2>1. Accepting(c)
    BY <1>2 DEF Accepting
  <2> QED
    BY <1>1, <1>2, <2>1 DEF OneAtATime, CallerConnects
<1>7. \A a \in User, b \in User : \A k :
         Said(a, b, k)' <=> Said(a, b, k) \/ (a = c /\ b = t.to /\ k = "call_offer")
  BY <1>2, <1>4, SaidSends DEF SignalType
<1>8. Wires(c, v)'
  BY <1>2, <1>3, <1>4, <1>6, WiresCallerSends DEF Offered
<1>9. /\ Offered(c, v)' <=> t.to = v
      /\ ~Answered(c, v)' /\ ~Accepting(c)'
      /\ Over(c, v)' <=> Over(c, v)
      /\ Over(v, c)' <=> Over(v, c)
      /\ LocalSet(c)' <=> LocalSet(c)
  BY <1>3, <1>4, <1>5, <1>6, <1>7 DEF Offered, Answered, Accepting, Over, LocalSet
<1>10. OneAtATime(c, v)' /\ CallerConnects(c, v)' /\ CalleeConnects(c, v)'
  BY <1>4, <1>5, <1>6, <1>9 DEF OneAtATime, CallerConnects, CalleeConnects, Accepting
<1>11. state[c] # "calling" /\ state[v] # "ringing" /\ ~Said(c, v, "call_request")
  BY <1>2 DEF Ringing, NotConnected
<1>12. OverIsOver(c, v)' /\ Ringing(c, v)'
  BY <1>4, <1>7, <1>9, <1>11 DEF OverIsOver, Ringing
<1>13. Together(c, v)'
  <2>1. ~Late(c, v)
    BY <1>6 DEF Late
  <2>2. pc[v].sig # "stable"
    BY <1>6 DEF NoPC
  <2> QED
    BY <1>4, <1>9, <1>11, <2>1, <2>2 DEF Together
<1>14. Roles(c, v)'
  BY <1>4, <1>5 DEF Roles
<1> QED
  BY <1>8, <1>10, <1>12, <1>13, <1>14

\* The answer is encrypted: it was late already.
LEMMA AnswersAgree ==
    ASSUME TypeOK, ButtonsFitState, NEW c \in User, NEW v \in User, Between(c, v),
           Roles(c, v), Wires(c, v), Course(c, v), Encrypted(v)
    PROVE  Roles(c, v)' /\ Wires(c, v)' /\ Course(c, v)'
<1> USE DEF Course
<1>1. PICK t \in task[v] :
         /\ t.at = "encrypt" /\ task' = [task EXCEPT ![v] = @ \ {t}]
         /\ Sends(v, IF t.kind = "offer" THEN "call_answer" ELSE "call_offer", t.to)
  BY DEF Encrypted
<1>2. t.kind = "offer" /\ task[v] = {t} /\ t.to \in {c, Nobody}
  BY <1>1, HandlersWait DEF Roles
<1>3. c # v /\ c # Nobody
  BY Parties
<1>4. UNCHANGED <<state, peer, pc, send>> /\ Sends(v, "call_answer", t.to)
  BY <1>1, <1>2 DEF Encrypted, view, media
<1>5. task'[v] = {} /\ task'[c] = task[c]
  BY <1>1, <1>2, <1>3 DEF TypeOK
<1>6. /\ ~Accepting(c) /\ ~Offered(c, v) /\ ~Answered(c, v) /\ LocalSet(c)
      /\ state[v] = "in_call" => pc[v].sig = "stable"
  BY <1>1, <1>2 DEF OneAtATime, CallerConnects, CalleeConnects
<1>7. \A a \in User, b \in User : \A k :
         Said(a, b, k)' <=> Said(a, b, k) \/ (a = v /\ b = t.to /\ k = "call_answer")
  BY <1>2, <1>4, SaidSends DEF SignalType
<1>8. Wires(c, v)'
  BY <1>2, <1>3, <1>4, WiresCalleeSends
<1>9. /\ ~Offered(c, v)' /\ ~Accepting(c)'
      /\ Answered(c, v)' <=> t.to = c
      /\ Late(c, v) <=> t.to = c
      /\ Over(c, v)' <=> Over(c, v)
      /\ Over(v, c)' <=> Over(v, c)
  BY <1>1, <1>2, <1>3, <1>4, <1>5, <1>6, <1>7 DEF Offered, Answered, Late, Accepting, Over
<1>10. OneAtATime(c, v)' /\ CallerConnects(c, v)' /\ CalleeConnects(c, v)'
  BY <1>4, <1>5, <1>6, <1>9 DEF OneAtATime, CallerConnects, CalleeConnects, Accepting, LocalSet
<1>11. state[c] # "calling" /\ state[v] # "ringing" /\ ~Said(c, v, "call_request")
  BY <1>2 DEF Ringing, NotConnected
<1>12. OverIsOver(c, v)' /\ Ringing(c, v)'
  BY <1>4, <1>7, <1>9, <1>11 DEF OverIsOver, Ringing
<1>13. Together(c, v)'
  <2>1. Late(c, v)' <=> Late(c, v)
    BY <1>5, <1>9 DEF Late
  <2> QED
    BY <1>4, <1>6, <1>9, <1>11, <2>1 DEF Together
<1>14. Roles(c, v)'
  BY <1>4, <1>5 DEF Roles
<1> QED
  BY <1>8, <1>10, <1>12, <1>13, <1>14

\* The answer is set: of a caller still in the call, the connection is stable.
LEMMA AnswerSetAgrees ==
    ASSUME TypeOK, ButtonsFitState, NEW c \in User, NEW v \in User, Between(c, v),
           Roles(c, v), Wires(c, v), Course(c, v), AnswerSet(c)
    PROVE  Roles(c, v)' /\ Wires(c, v)' /\ Course(c, v)'
<1> USE DEF Course
<1>1. PICK t \in task[c] :
         /\ t.at = "decrypt" /\ task' = [task EXCEPT ![c] = @ \ {t}]
         /\ pc' = IF pc[c].sig = "local" THEN [pc EXCEPT ![c].sig = "stable"] ELSE pc
  BY DEF AnswerSet
<1>2. t.kind = "answer"
  BY <1>1, HandlersWait
<1>3. c # v
  BY Parties
<1>4. UNCHANGED <<state, peer, inbox, send>>
  BY DEF AnswerSet, view
<1>5. /\ Wires(c, v)'
      /\ \A k : Said(c, v, k)' <=> Said(c, v, k)
      /\ \A k : Said(v, c, k)' <=> Said(v, c, k)
  BY <1>4 DEF Wires, Said, Way
<1>6. task'[c] \subseteq task[c] /\ task'[v] = task[v] /\ pc'[v] = pc[v]
  BY <1>1, <1>3 DEF TypeOK
<1>7. Answered(c, v) /\ ~Offered(c, v) /\ ~Accepting(c) /\ task[v] = {}
  <2>1. Answered(c, v)
    BY <1>2 DEF Answered
  <2> QED
    BY <2>1 DEF OneAtATime
<1>8. IF state[c] = "in_call" THEN pc'[c].sig = "stable" ELSE pc'[c] = NoPC
  <2>1. IF state[c] = "in_call" THEN pc[c].sig \in {"local", "stable"} ELSE pc[c] = NoPC
    BY <1>7 DEF CallerConnects
  <2>2. CASE state[c] = "in_call"
    <3>1. pc[c].sig = "local" => pc'[c].sig = "stable"
      BY <1>1 DEF TypeOK, PC, NoPC
    <3> QED
      BY <1>1, <2>1, <2>2, <3>1
  <2>3. CASE state[c] # "in_call"
    BY <1>1, <2>1, <2>3 DEF NoPC
  <2> QED
    BY <2>2, <2>3
<1>9. /\ ~Offered(c, v)' /\ ~Accepting(c)'
      /\ state[c] = "in_call" => Answered(c, v)'
      /\ Over(c, v)' <=> Over(c, v)
      /\ Over(v, c)' <=> Over(v, c)
  BY <1>5, <1>6, <1>7, <1>8 DEF Offered, Answered, Accepting, Over
<1>10. OneAtATime(c, v)' /\ CallerConnects(c, v)' /\ CalleeConnects(c, v)'
  BY <1>4, <1>6, <1>7, <1>8, <1>9 DEF OneAtATime, CallerConnects, CalleeConnects, Accepting
<1>11. state[c] # "calling" /\ state[v] # "ringing" /\ ~Said(c, v, "call_request")
  BY <1>2 DEF Ringing, NotConnected
<1>12. OverIsOver(c, v)' /\ Ringing(c, v)'
  BY <1>4, <1>5, <1>9, <1>11 DEF OverIsOver, Ringing
<1>13. Together(c, v)'
  <2>1. state[c] # "in_call" => pc'[c] = NoPC
    BY <1>8
  <2> QED
    BY <1>4, <1>5, <1>6, <1>9, <1>11, <2>1 DEF Together, Late
<1>14. Roles(c, v)'
  BY <1>4, <1>6 DEF Roles
<1> QED
  BY <1>5, <1>10, <1>12, <1>13, <1>14

\* What the other role does, neither can.
LEMMA NotHis ==
    ASSUME TypeOK, ButtonsFitState, NEW c \in User, NEW v \in User, Between(c, v),
           Roles(c, v), Wires(c, v), Course(c, v)
    PROVE  /\ ~AcceptIncoming(c) /\ ~RejectIncoming(c) /\ ~OnCallRequest(c) /\ ~OnCallOffer(c)
           /\ ~OnCallAccept(v) /\ ~OnCallAnswer(v) /\ ~AnswerSet(v)
<1>1. ~AcceptIncoming(c) /\ ~RejectIncoming(c)
  BY Parties DEF AcceptIncoming, RejectIncoming
<1>2. send[c] # <<>> => Head(send[c]).type \notin {"call_request", "call_offer"}
  <2>1. send[c] # <<>> => Head(send[c]) \in On(send[c])
    BY OnTail DEF TypeOK
  <2> QED
    BY <2>1, WiresAreSignals DEF CalleeSays
<1>3. send[v] # <<>> => Head(send[v]).type \notin {"call_accept", "call_answer"}
  <2>1. send[v] # <<>> => Head(send[v]) \in On(send[v])
    BY OnTail DEF TypeOK
  <2> QED
    BY <2>1, WiresAreSignals DEF CallerSays
<1>4. ~AnswerSet(v)
  BY HandlersWait DEF AnswerSet
<1> QED
  BY <1>1, <1>2, <1>3, <1>4
  DEF OnCallRequest, OnCallOffer, OnCallAccept, OnCallAnswer, Receives

\* Every step of the two keeps what they agree on.
LEMMA StepAgrees ==
    ASSUME TypeOK, ButtonsFitState, NEW c \in User, NEW v \in User, Between(c, v),
           Agreement(c, v), NEW u \in User,
           \/ AcceptIncoming(u) \/ RejectIncoming(u) \/ EndCall(u)
           \/ Receive(u) \/ Resume(u) \/ Relay(u) \/ ConnectionLost(u)
    PROVE  Agreement(c, v)'
<1>1. u \in {c, v}
  BY Insiders DEF Agreement
<1>2. c # v /\ Roles(c, v) /\ Wires(c, v) /\ Course(c, v)
  BY Parties DEF Agreement
<1>3. CASE Relay(u)
  <2>1. Roles(c, v)' /\ Wires(c, v)' /\ Course(c, v)'
    BY <1>1, <1>2, <1>3, RelayAgrees
  <2>2. \A x \in User \ {c, v} : inbox'[x] = inbox[x] /\ send'[x] = send[x]
    <3>1. \A x \in User \ {c, v} : send'[x] = send[x]
      BY <1>1, <1>2, <1>3, NobodyAssumption, WiresCallerRelay, WiresCalleeRelay
    <3>2. \A x \in User \ {c, v} : inbox'[x] = inbox[x]
      BY <1>1, <1>3 DEF Relay, TypeOK
    <3> QED
      BY <3>1, <3>2
  <2>3. UNCHANGED <<state, pc, task>>
    BY <1>3 DEF Relay, view, media, handlers
  <2>4. Others(c, v)'
    BY <2>2, <2>3 DEF Agreement, Others
  <2> QED
    BY <2>1, <2>4 DEF Agreement
<1>4. CASE ~Relay(u)
  <2>1. AcceptIncoming(u) \/ RejectIncoming(u) \/ EndCall(u)
            \/ Receive(u) \/ Resume(u) \/ ConnectionLost(u)
    BY <1>4
  <2>2. Others(c, v)'
    <3>1. \A x \in User \ {c, v} : Still(x) /\ send'[x] = send[x]
      BY <1>1, <2>1, OwnOnly
    <3> QED
      BY <3>1 DEF Agreement, Others, Still
  <2>3. CASE u = c
    <3>1. \/ EndCall(c) \/ OnCallOver(c) \/ Fails(c) \/ ConnectionLost(c)
          \/ OnCallAccept(c) \/ OnCallAnswer(c)
          \/ MediaReady(c) \/ RemoteSet(c) \/ Described(c) \/ Encrypted(c) \/ AnswerSet(c)
      BY <1>2, <2>1, <2>3, NotHis DEF Receive, Resume
    <3>2. Roles(c, v)' /\ Wires(c, v)' /\ Course(c, v)'
      BY <1>2, <3>1, CallerLeaves, AcceptedAgrees, AnsweredAgrees, CallerGoesOn, OffersAgree,
         AnswerSetAgrees
    <3> QED
      BY <2>2, <3>2 DEF Agreement
  <2>4. CASE u = v
    <3>1. \/ RejectIncoming(v) \/ EndCall(v) \/ OnCallOver(v) \/ Fails(v) \/ ConnectionLost(v)
          \/ AcceptIncoming(v) \/ OnCallRequest(v) \/ OnCallOffer(v)
          \/ MediaReady(v) \/ RemoteSet(v) \/ Described(v) \/ Encrypted(v)
      BY <1>2, <2>1, <2>4, NotHis DEF Receive, Resume
    <3>2. Roles(c, v)' /\ Wires(c, v)' /\ Course(c, v)'
      BY <1>2, <3>1, CalleeLeaves, AcceptAgrees, RequestAgrees, OfferAgrees, CalleeGoesOn,
         AnswersAgree
    <3> QED
      BY <2>2, <3>2 DEF Agreement
  <2> QED
    BY <1>1, <2>3, <2>4
<1> QED
  BY <1>3, <1>4

\* At the start of the first call there is its request.
LEMMA StartAgrees ==
    ASSUME TypeOK, NoCallYet, NEW c \in User, NEW v \in User, StartCall(c, v)
    PROVE  Agreement(c, v)'
<1> DEFINE s == [type |-> "call_request", from |-> c, to |-> v]
<1>1. /\ v # c /\ Shows(c, "calling", v, modal[c], TRUE) /\ Sends(c, "call_request", v)
      /\ UNCHANGED <<pc, task, send>>
  BY DEF StartCall, media, handlers
<1>2. \A x \in User :
         /\ state'[x] = IF x = c THEN "calling" ELSE "idle"
         /\ peer'[x] = IF x = c THEN v ELSE Nobody
         /\ pc'[x] = NoPC /\ task'[x] = {} /\ send'[x] = <<>>
         /\ inbox'[x] = IF x = c THEN Append(<<>>, s) ELSE <<>>
  BY <1>1 DEF Shows, Sends, TypeOK, NoCallYet
<1>3. s \in CallerSays(c, v) /\ s \in Signal /\ s.type = "call_request" /\ s.to = v
  BY DEF CallerSays, Signal, SignalType
<1> HIDE DEF s
<1>4. \A k : (Said(c, v, k)' <=> k = "call_request") /\ ~Said(v, c, k)'
  <2>1. \A a \in User, b \in User : \A k : ~Said(a, b, k)
    BY OnNone DEF NoCallYet, Said, Way
  <2>2. \A a \in User, b \in User : \A k :
           Said(a, b, k)' <=> Said(a, b, k) \/ (a = c /\ b = v /\ k = "call_request")
    BY <1>1, SaidSends DEF SignalType
  <2> QED
    BY <1>1, <2>1, <2>2
<1>5. Others(c, v)' /\ Roles(c, v)'
  BY <1>1, <1>2 DEF Others, Roles
<1>6. Wires(c, v)'
  <2> DEFINE S == CallerSays(c, v)
             T == {y \in CallerSays(c, v) : y.to = v}
             A == CalleeSays(c)
             B == {y \in CalleeSays(c) : y.to = c}
  <2>1. /\ Append(<<>>, s) \in Seq(S) /\ <<>> \in Seq(T) /\ <<>> \in Seq(A) /\ <<>> \in Seq(B)
    <3>1. s \in S
      BY <1>3
    <3> HIDE DEF S, T, A, B
    <3> QED
      BY <3>1
  <2>2. <<>> \in Seq(Signal) /\ First(<<>>) /\ Once(<<>>, v)
    BY DEF First, Once
  <2>3. First(Append(<<>>, s)) /\ Once(Append(<<>>, s), v)
    BY <1>3, <2>2, AppendShape
  <2>4. On(Append(<<>>, s)) = {s}
    <3>1. On(Append(<<>>, s)) = On(<<>>) \cup {s}
      BY <2>2, OnAppend
    <3> QED
      BY <3>1, OnNone
  <2>5. /\ inbox'[c] = Append(<<>>, s) /\ send'[v] = <<>> /\ inbox'[v] = <<>> /\ send'[c] = <<>>
    BY <1>1, <1>2
  <2>6. /\ inbox'[c] \in Seq(CallerSays(c, v)) /\ send'[v] \in Seq({y \in CallerSays(c, v) : y.to = v})
        /\ inbox'[v] \in Seq(CalleeSays(c)) /\ send'[c] \in Seq({y \in CalleeSays(c) : y.to = c})
    BY <2>1, <2>5
  <2> QED
    BY <1>3, <2>2, <2>3, <2>4, <2>5, <2>6 DEF Wires
<1>7. NoPC.sig = "none"
  BY DEF NoPC
<1>8. /\ ~Offered(c, v)' /\ ~Answered(c, v)' /\ ~Accepting(c)' /\ ~Over(c, v)' /\ ~Over(v, c)'
  BY <1>2, <1>4, <1>7 DEF Offered, Answered, Accepting, Over
<1>9. OneAtATime(c, v)' /\ CallerConnects(c, v)' /\ CalleeConnects(c, v)'
  BY <1>2, <1>8 DEF OneAtATime, CallerConnects, CalleeConnects
<1>10. OverIsOver(c, v)' /\ Ringing(c, v)'
  BY <1>1, <1>2, <1>4, <1>8 DEF OverIsOver, Ringing, NotConnected
<1>11. Together(c, v)'
  BY <1>1, <1>2 DEF Together
<1> QED
  BY <1>5, <1>6, <1>9, <1>10, <1>11 DEF Agreement, Course

\* The first call, and what its two users agree on
AgreementInv == calls = 1 => \E c, v \in User : Between(c, v) /\ Agreement(c, v)

\* In the first call caller and callee agree on its course: who rings has been
\* called, who is in the call has his party in it, or on the way in or out.
THEOREM AgreementInvariant == Spec => []AgreementInv
<1>1. Init => AgreementInv
  BY DEF Init, AgreementInv
<1>2. TypeOK /\ ButtonsFitState /\ FirstCallInv /\ AgreementInv /\ [Next]_vars => AgreementInv'
  <2> SUFFICES ASSUME TypeOK, ButtonsFitState, FirstCallInv, AgreementInv, [Next]_vars PROVE AgreementInv'
    OBVIOUS
  <2>1. ASSUME NEW u \in User, NEW w \in User, StartCall(u, w) PROVE AgreementInv'
    <3>1. calls' = calls + 1 /\ calls \in Nat
      BY <2>1, BoundAssumption DEF StartCall, TypeOK
    <3>2. CASE calls = 0
      BY <2>1, <3>2, FirstCall, StartAgrees DEF FirstCallInv, AgreementInv
    <3>3. CASE calls # 0
      BY <3>1, <3>3 DEF AgreementInv
    <3> QED
      BY <3>2, <3>3
  <2>2. ASSUME NEW u \in User,
               \/ AcceptIncoming(u) \/ RejectIncoming(u) \/ EndCall(u)
               \/ Receive(u) \/ Resume(u) \/ Relay(u) \/ ConnectionLost(u)
        PROVE  AgreementInv'
    <3>1. calls' = calls
      BY <2>2 DEF AcceptIncoming, RejectIncoming, EndCall, Relay, ConnectionLost, userVars,
                  Receive, OnCallRequest, OnCallAccept, OnCallOffer, OnCallAnswer, OnCallOver,
                  Receives, Resume, MediaReady, Fails, RemoteSet, Described, Encrypted, AnswerSet
    <3>2. ASSUME NEW c \in User, NEW v \in User, Between(c, v), Agreement(c, v)
          PROVE  Between(c, v)' /\ Agreement(c, v)'
      <4>1. Between(c, v)'
        BY <2>2, <3>2, BetweenUser, BetweenReceive, BetweenResume
      <4>2. Agreement(c, v)'
        BY <2>2, <3>2, StepAgrees
      <4> QED
        BY <4>1, <4>2
    <3> QED
      BY <3>1, <3>2 DEF AgreementInv
  <2>3. CASE UNCHANGED vars
    <3>1. UNCHANGED <<state, peer, modal, overlay, stream, pc, task, inbox, send, calls, agreed>>
      BY <2>3 DEF vars
    <3>2. ASSUME NEW c \in User, NEW v \in User, Between(c, v), Agreement(c, v)
          PROVE  Between(c, v)' /\ Agreement(c, v)'
      <4>1. /\ \A x \in User : inbox[x] \in Seq(CallTo(v, agreed))
            /\ \A x \in User : send[x] \in Seq({s \in CallTo(v, agreed) : s.to = x})
        BY <3>2 DEF Between
      <4>2. Between(c, v)'
        BY <3>1, <3>2, <4>1, BetweenStep
      <4>3. Others(c, v)' /\ Roles(c, v)' /\ Wires(c, v)'
        BY <3>1, <3>2 DEF Agreement, Others, Roles, Wires
      <4>4. \A a, b, k : Said(a, b, k)' <=> Said(a, b, k)
        BY <3>1 DEF Said, Way
      <4>5. Course(c, v)'
        BY <3>1, <3>2, <4>4, CourseSame DEF Agreement
      <4> QED
        BY <4>2, <4>3, <4>5 DEF Agreement
    <3> QED
      BY <3>1, <3>2 DEF AgreementInv
  <2> QED
    BY <2>1, <2>2, <2>3 DEF Next
<1> QED
  BY <1>1, <1>2, TypeCorrect, ButtonsFitStateHolds, FirstCallInvariant, PTL DEF Spec

\* Once all is quiet the two agree on the first call.
LEMMA QuietAgrees ==
    ASSUME TypeOK, ButtonsFitState, NEW c \in User, NEW v \in User, Between(c, v),
           Agreement(c, v), Quiet, NEW u \in User
    PROVE  /\ state[u] = "calling" => state[peer[u]] = "ringing" /\ peer[peer[u]] = u
           /\ state[u] = "in_call" => \/ state[peer[u]] = "in_call" /\ peer[peer[u]] = u
                                      \/ pc[u].sig = "stable" /\ FarEndGone(u)
<1>1. /\ c # v /\ Course(c, v) /\ Roles(c, v)
      /\ state[v] # "calling"
      /\ state[c] # "idle" => peer[c] = v
      /\ state[v] # "idle" => peer[v] = c
  BY Parties DEF Agreement
<1>2. /\ \A k : ~Said(c, v, k) /\ ~Said(v, c, k)
      /\ task[c] = {} /\ task[v] = {}
  <2>1. On(inbox[c]) = {} /\ On(send[c]) = {} /\ On(inbox[v]) = {} /\ On(send[v]) = {}
    BY OnNone DEF Quiet
  <2> QED
    BY <2>1 DEF Quiet, Said, Way
<1>3. NoPC.sig = "none"
  BY DEF NoPC
<1>4. ~Over(c, v) /\ ~Over(v, c) /\ (Answered(c, v) => pc[c].sig = "stable")
      /\ (Late(c, v) => Answered(c, v))
  BY <1>2 DEF Over, Answered, Late
<1>5. \A x \in User \ {c, v} : state[x] = "idle" /\ pc[x] = NoPC
  BY DEF Agreement, Others
<1>6. CASE u = c
  <2>1. state[c] = "calling" => state[v] = "ringing"
    BY <1>1, <1>2, <1>4 DEF Course, Ringing
  <2>2. state[c] = "in_call" =>
          state[v] = "in_call" \/ (pc[c].sig = "stable" /\ pc[v] = NoPC)
    BY <1>1, <1>4 DEF Course, Together
  <2>3. pc[v] = NoPC => FarEndGone(c)
    BY <1>3, <1>5 DEF FarEndGone
  <2> QED
    BY <1>1, <1>6, <2>1, <2>2, <2>3
<1>7. CASE u = v
  <2>1. state[v] = "in_call" =>
          state[c] = "in_call" \/ (pc[v].sig = "stable" /\ pc[c] = NoPC)
    BY <1>1, <1>2, <1>4 DEF Course, Together
  <2>2. pc[c] = NoPC => FarEndGone(v)
    BY <1>3, <1>5 DEF FarEndGone
  <2> QED
    BY <1>1, <1>7, <2>1, <2>2
<1>8. CASE u \notin {c, v}
  BY <1>5, <1>8
<1> QED
  BY <1>6, <1>7, <1>8

\* However the first call goes, the two browsers agree on it once all is quiet:
\* nobody rings out to one who does not ring, or is in a call without a party,
\* unless his connection is about to be lost.
THEOREM FirstCallAgreesHolds == Spec => []FirstCallAgrees
<1>1. TypeOK /\ ButtonsFitState /\ FirstCallInv /\ AgreementInv => FirstCallAgrees
  <2> SUFFICES ASSUME TypeOK, ButtonsFitState, FirstCallInv, AgreementInv, Quiet, calls <= 1,
                      NEW u \in User
               PROVE  /\ state[u] = "calling" => state[peer[u]] = "ringing" /\ peer[peer[u]] = u
                      /\ state[u] = "in_call" => \/ state[peer[u]] = "in_call" /\ peer[peer[u]] = u
                                                 \/ pc[u].sig = "stable" /\ FarEndGone(u)
    BY DEF FirstCallAgrees
  <2>1. calls = 0 \/ calls = 1
    BY BoundAssumption DEF TypeOK
  <2>2. CASE calls = 0
    BY <2>2 DEF FirstCallInv, NoCallYet
  <2>3. CASE calls = 1
    BY <2>3, QuietAgrees DEF AgreementInv
  <2> QED
    BY <2>1, <2>2, <2>3
<1> QED
  BY <1>1, TypeCorrect, ButtonsFitStateHolds, FirstCallInvariant, AgreementInvariant, PTL
=============================================================================
