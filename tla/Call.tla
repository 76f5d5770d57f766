-------------------------------- MODULE Call --------------------------------
(***************************************************************************)
(* Voice and video calls: callManager of frontend/call.js in the browsers  *)
(* of several users, and handleCallSignal of internal/hub/hub.go between   *)
(* them.                                                                   *)
(*                                                                         *)
(* The page runs one handler at a time up to its next await, so a handler  *)
(* is a chain of steps with other handlers in between, and this.state,     *)
(* this.peer and this.pc are read again after each await.  A peer          *)
(* connection that is closed never settles what was asked of it.           *)
(*                                                                         *)
(* Abstracted: the type of the call, mute and camera switches, the timer,  *)
(* ICE candidates, contents of SDP.  Encryption and decryption take a step *)
(* of their own; without a key that step comes at once.  Users stay        *)
(* connected to one server, which drops nothing (Hub has disconnections).  *)
(***************************************************************************)
EXTENDS Integers, Sequences, FiniteSets

CONSTANTS
    User,
    Nobody,    \* the empty string in this.peer
    MaxCalls   \* bound on the number of calls started

ASSUME NobodyAssumption == Nobody \notin User
ASSUME BoundAssumption == MaxCalls \in Nat

SignalType == {"call_request", "call_accept", "call_reject", "call_offer",
               "call_answer", "call_end"}
Signal == [type : SignalType, from : User, to : User \cup {Nobody}]

\* A handler at an await: of getUserMedia, setRemoteDescription, creating and
\* setting the local description, encrypt or decrypt.  Its number is that of
\* the peer connection it makes; "to" is whom it writes to once encrypted.
Task == [no : Nat \ {0}, kind : {"accept", "offer", "answer"},
         at : {"media", "remote", "describe", "encrypt", "decrypt"},
         to : User \cup {Nobody}]

\* An RTCPeerConnection: its number and signalling state.
NoPC == [id |-> 0, sig |-> "none"]
PC == {NoPC} \cup [id : Nat \ {0}, sig : {"new", "local", "remote", "stable"}]

VARIABLES
    state,     \* state[u]: callManager.state
    peer,      \* peer[u]: callManager.peer
    modal,     \* modal[u]: the incoming-call modal shows (accept, reject)
    overlay,   \* overlay[u]: the call overlay shows (end)
    stream,    \* stream[u]: localStream is set, microphone and camera are on
    pc,        \* pc[u]: callManager.pc
    task,      \* task[u]: handlers at an await
    started,   \* started[u]: number of handlers that came to an await
    inbox,     \* inbox[u]: signals on their way from u to the server
    send,      \* send[u]: signals on their way from the server to u
    calls,     \* calls started
    agreed     \* history: users who started or accepted a call

vars == <<state, peer, modal, overlay, stream, pc, task, started, inbox, send,
          calls, agreed>>

\* The values of the variables.
TypeOK ==
    /\ state \in [User -> {"idle", "calling", "ringing", "in_call"}]
    /\ peer \in [User -> User \cup {Nobody}]
    /\ modal \in [User -> BOOLEAN]
    /\ overlay \in [User -> BOOLEAN]
    /\ stream \in [User -> BOOLEAN]
    /\ pc \in [User -> PC]
    /\ task \in [User -> SUBSET Task]
    /\ started \in [User -> Nat]
    /\ inbox \in [User -> Seq(Signal)]
    /\ send \in [User -> Seq(Signal)]
    /\ calls \in 0..MaxCalls
    /\ agreed \subseteq User

Init ==
    /\ state = [u \in User |-> "idle"]
    /\ peer = [u \in User |-> Nobody]
    /\ modal = [u \in User |-> FALSE]
    /\ overlay = [u \in User |-> FALSE]
    /\ stream = [u \in User |-> FALSE]
    /\ pc = [u \in User |-> NoPC]
    /\ task = [u \in User |-> {}]
    /\ started = [u \in User |-> 0]
    /\ inbox = [u \in User |-> <<>>]
    /\ send = [u \in User |-> <<>>]
    /\ calls = 0
    /\ agreed = {}

view      == <<state, peer, modal, overlay>>
media     == <<stream, pc>>
handlers  == <<task, started>>
userVars  == <<calls, agreed>>

(***************************************************************************)
(* What the handlers share                                                 *)
(***************************************************************************)

\* send()
Sends(u, type, to) ==
    inbox' = [inbox EXCEPT ![u] = Append(@, [type |-> type, from |-> u, to |-> to])]

Shows(u, newState, newPeer, showModal, showOverlay) ==
    /\ state' = [state EXCEPT ![u] = newState]
    /\ peer' = [peer EXCEPT ![u] = newPeer]
    /\ modal' = [modal EXCEPT ![u] = showModal]
    /\ overlay' = [overlay EXCEPT ![u] = showOverlay]

\* A handler of u comes to its first await.
Starts(u, kind, at) ==
    /\ started' = [started EXCEPT ![u] = @ + 1]
    /\ task' = [task EXCEPT ![u] = @ \cup
          {[no |-> started[u] + 1, kind |-> kind, at |-> at, to |-> Nobody]}]

\* Handler t of u goes on to another await.
Awaits(u, t, at, to) ==
    /\ task' = [task EXCEPT ![u] = (@ \ {t}) \cup {[t EXCEPT !.at = at, !.to = to]}]
    /\ UNCHANGED started

\* pc.close(): what was asked of the connection never settles.
Hung(u) == {t \in task[u] : t.at \in {"remote", "describe"} /\ t.no = pc[u].id}

\* Mutant: the modal is not hidden.
CleanupKeepsModal(u, done) ==
    /\ Shows(u, "idle", Nobody, modal[u], FALSE)
    /\ stream' = [stream EXCEPT ![u] = FALSE]
    /\ pc' = [pc EXCEPT ![u] = NoPC]
    /\ task' = [task EXCEPT ![u] = @ \ (done \cup Hung(u))]
    /\ UNCHANGED started

\* cleanup, by a handler in "done" or by none
Cleanup(u, done) ==
    /\ Shows(u, "idle", Nobody, FALSE, FALSE)
    /\ stream' = [stream EXCEPT ![u] = FALSE]
    /\ pc' = [pc EXCEPT ![u] = NoPC]
    /\ task' = [task EXCEPT ![u] = @ \ (done \cup Hung(u))]
    /\ UNCHANGED started

\* Mutant: only a call that was accepted is ended on the other side.
EndsConnected(u, done) ==
    /\ IF state[u] = "in_call" THEN Sends(u, "call_end", peer[u]) ELSE UNCHANGED inbox
    /\ Cleanup(u, done)

\* endCall
Ends(u, done) ==
    /\ Sends(u, "call_end", peer[u])
    /\ Cleanup(u, done)

(***************************************************************************)
(* What the user does                                                      *)
(***************************************************************************)

\* startCall, from the buttons of a conversation
StartCall(u, v) ==
    /\ v # u
    /\ calls < MaxCalls
    /\ calls' = calls + 1
    /\ agreed' = agreed \cup {u}
    /\ state[u] = "idle"
    /\ Shows(u, "calling", v, modal[u], TRUE)
    /\ Sends(u, "call_request", v)
    /\ UNCHANGED <<media, handlers, send>>

\* acceptIncoming: the code has no other guard than the button that shows.
AcceptIncoming(u) ==
    /\ modal[u]
    /\ agreed' = agreed \cup {u}
    /\ Shows(u, "in_call", peer[u], FALSE, TRUE)
    /\ Sends(u, "call_accept", peer[u])
    /\ UNCHANGED <<media, handlers, send, calls>>

\* rejectIncoming
RejectIncoming(u) ==
    /\ modal[u]
    /\ Shows(u, "idle", Nobody, FALSE, overlay[u])
    /\ Sends(u, "call_reject", peer[u])
    /\ UNCHANGED <<media, handlers, send, userVars>>

\* The end button
EndCall(u) ==
    /\ overlay[u]
    /\ Ends(u, {})
    /\ UNCHANGED <<send, userVars>>

(***************************************************************************)
(* Signals                                                                 *)
(***************************************************************************)

Receives(u, type) ==
    /\ send[u] # <<>>
    /\ Head(send[u]).type = type
    /\ send' = [send EXCEPT ![u] = Tail(@)]
    /\ UNCHANGED userVars

\* Mutant: the microphone is opened while it rings.
OnCallRequestPrepares(u) ==
    /\ Receives(u, "call_request")
    /\ state[u] = "idle"
    /\ Shows(u, "ringing", Head(send[u]).from, TRUE, overlay[u])
    /\ Starts(u, "offer", "media")
    /\ UNCHANGED <<media, inbox>>

\* onCallRequest: a busy browser rejects.
OnCallRequest(u) ==
    LET from == Head(send[u]).from
    IN  /\ Receives(u, "call_request")
        /\ \/ /\ state[u] = "idle"
              /\ Shows(u, "ringing", from, TRUE, overlay[u])
              /\ UNCHANGED inbox
           \/ /\ state[u] # "idle"
              /\ Sends(u, "call_reject", from)
              /\ UNCHANGED view
        /\ UNCHANGED <<media, handlers>>

\* onCallAccept up to getUserMedia; it does not look at who accepted.
OnCallAccept(u) ==
    /\ Receives(u, "call_accept")
    /\ \/ /\ state[u] = "calling"
          /\ Shows(u, "in_call", peer[u], modal[u], overlay[u])
          /\ Starts(u, "accept", "media")
       \/ /\ state[u] # "calling"
          /\ UNCHANGED <<view, handlers>>
    /\ UNCHANGED <<media, inbox>>

\* onCallOffer up to getUserMedia; it looks neither at the state nor at who offers.
OnCallOffer(u) ==
    /\ Receives(u, "call_offer")
    /\ Starts(u, "offer", "media")
    /\ UNCHANGED <<view, media, inbox>>

\* onCallAnswer up to decryptSignal
OnCallAnswer(u) ==
    /\ Receives(u, "call_answer")
    /\ IF pc[u] # NoPC THEN Starts(u, "answer", "decrypt") ELSE UNCHANGED handlers
    /\ UNCHANGED <<view, media, inbox>>

\* onCallEnd, onCallReject: whoever sent it.
OnCallOver(u) ==
    /\ Receives(u, "call_end") \/ Receives(u, "call_reject")
    /\ Cleanup(u, {})
    /\ UNCHANGED inbox

\* handleCallSignal: a signal to nobody is answered with an error.
Relay(u) ==
    LET signal == Head(inbox[u])
    IN  /\ inbox[u] # <<>>
        /\ inbox' = [inbox EXCEPT ![u] = Tail(@)]
        /\ send' = IF signal.to = Nobody THEN send
                   ELSE [send EXCEPT ![signal.to] = Append(@, signal)]
        /\ UNCHANGED <<view, media, handlers, userVars>>

(***************************************************************************)
(* Handlers after an await                                                 *)
(***************************************************************************)

\* getUserMedia answers: setupMedia and createPeerConnection, whatever
\* happened to the call meanwhile.
MediaReady(u) ==
    \E t \in task[u] :
        /\ t.at = "media"
        /\ stream' = [stream EXCEPT ![u] = TRUE]
        /\ pc' = [pc EXCEPT ![u] = [id |-> t.no, sig |-> "new"]]
        /\ Awaits(u, t, IF t.kind = "offer" THEN "remote" ELSE "describe", Nobody)
        /\ UNCHANGED <<view, inbox, send, userVars>>

\* Mutant: the catch blocks clean up without telling the other side.
FailsSilently(u) ==
    \E t \in task[u] :
        /\ \/ t.at = "media"
           \/ t.at \in {"remote", "describe"} /\ t.no # pc[u].id
        /\ Cleanup(u, {t})
        /\ UNCHANGED <<inbox, send, userVars>>

\* An await of a handler is rejected: getUserMedia without a permission, an
\* operation on this.pc when it is not the connection the handler began with
\* (also createAnswer on the connection of another offer).
Fails(u) ==
    \E t \in task[u] :
        /\ \/ t.at = "media"
           \/ t.at \in {"remote", "describe"} /\ t.no # pc[u].id
        /\ Ends(u, {t})
        /\ UNCHANGED <<send, userVars>>

\* setRemoteDescription of an offer
RemoteSet(u) ==
    \E t \in task[u] :
        /\ t.at = "remote"
        /\ t.no = pc[u].id
        /\ pc' = [pc EXCEPT ![u].sig = "remote"]
        /\ Awaits(u, t, "describe", Nobody)
        /\ UNCHANGED <<view, stream, inbox, send, userVars>>

\* The local description is set; sendEncrypted begins, to the peer of now.
Described(u) ==
    \E t \in task[u] :
        /\ t.at = "describe"
        /\ pc' = IF t.no # pc[u].id THEN pc
                 ELSE [pc EXCEPT ![u].sig = IF t.kind = "offer" THEN "stable" ELSE "local"]
        /\ Awaits(u, t, "encrypt", peer[u])
        /\ UNCHANGED <<view, stream, inbox, send, userVars>>

\* The end of sendEncrypted
Encrypted(u) ==
    \E t \in task[u] :
        /\ t.at = "encrypt"
        /\ Sends(u, IF t.kind = "offer" THEN "call_answer" ELSE "call_offer", t.to)
        /\ task' = [task EXCEPT ![u] = @ \ {t}]
        /\ UNCHANGED <<view, media, started, send, userVars>>

\* Mutant: the answer is set without looking at the connection.
AnswerSetBlindly(u) ==
    \E t \in task[u] :
        /\ t.at = "decrypt"
        /\ pc' = [pc EXCEPT ![u].sig = "stable"]
        /\ task' = [task EXCEPT ![u] = @ \ {t}]
        /\ UNCHANGED <<view, stream, started, inbox, send, userVars>>

\* onCallAnswer sets the answer on the peer connection of now; an error is logged.
AnswerSet(u) ==
    \E t \in task[u] :
        /\ t.at = "decrypt"
        /\ pc' = IF pc[u].sig = "local" THEN [pc EXCEPT ![u].sig = "stable"] ELSE pc
        /\ task' = [task EXCEPT ![u] = @ \ {t}]
        /\ UNCHANGED <<view, stream, started, inbox, send, userVars>>

\* oniceconnectionstatechange: disconnected or failed.
ConnectionLost(u) ==
    /\ pc[u].sig = "stable"
    /\ Cleanup(u, {})
    /\ UNCHANGED <<inbox, send, userVars>>

Receive(u) ==
    \/ OnCallRequest(u) \/ OnCallAccept(u) \/ OnCallOffer(u)
    \/ OnCallAnswer(u) \/ OnCallOver(u)

Resume(u) ==
    \/ MediaReady(u) \/ Fails(u) \/ RemoteSet(u) \/ Described(u)
    \/ Encrypted(u) \/ AnswerSet(u)

Next ==
    \E u \in User :
        \/ \E v \in User : StartCall(u, v)
        \/ AcceptIncoming(u)
        \/ RejectIncoming(u)
        \/ EndCall(u)
        \/ Receive(u)
        \/ Resume(u)
        \/ Relay(u)
        \/ ConnectionLost(u)

Spec == Init /\ [][Next]_vars

\* A connection whose far end was closed is lost.
FarEndGone(u) == \A v \in User \ {u} : pc[v].sig # "stable"

\* The server's and the page's event loops go on, and ICE notices that the far
\* end of a connection is gone; no user has to do anything.
FairSpec ==
    /\ Spec
    /\ \A u \in User :
          /\ WF_vars(Relay(u))
          /\ WF_vars(Receive(u))
          /\ WF_vars(Resume(u))
          /\ WF_vars(FarEndGone(u) /\ ConnectionLost(u))

(***************************************************************************)
(* Properties                                                              *)
(***************************************************************************)

\* acceptIncoming, rejectIncoming and endCall do not look at the state: they
\* rely on their buttons showing only when there is a call to accept or to end,
\* with a known party (call.js:97, 114, 204), whatever signals, failures and
\* lost connections come between.
ButtonsFitState ==
    \A u \in User :
        /\ modal[u] <=> state[u] = "ringing"
        /\ overlay[u] <=> state[u] \in {"calling", "in_call"}
        /\ peer[u] = Nobody <=> state[u] = "idle"

\* A peer connection always has a stream to send: addTrack after the awaits of
\* onCallAccept and onCallOffer finds localStream (call.js:130, 150), and
\* a browser without a stream takes no answer.
ConnectionHasMedia == \A u \in User : pc[u] # NoPC => stream[u]

\* No signal is under way and no handler is at an await.
Quiet == \A u \in User : inbox[u] = <<>> /\ send[u] = <<>> /\ task[u] = {}

\* However the first call goes (hung up by either side at any moment, refused,
\* media denied), once all is quiet the two browsers agree on it: a caller's
\* partner rings for him, and who is in the call has a partner who is too, or
\* a connection that is about to be lost.  A second call is mixed up with late
\* signals of the first, which carry no number of a call.
FirstCallAgrees ==
    Quiet /\ calls <= 1 =>
        \A u \in User :
            /\ state[u] = "calling" => state[peer[u]] = "ringing" /\ peer[peer[u]] = u
            /\ state[u] = "in_call" => \/ state[peer[u]] = "in_call" /\ peer[peer[u]] = u
                                       \/ pc[u].sig = "stable" /\ FarEndGone(u)

\* In the first call nobody's microphone goes on without a click on call or accept,
\* although onCallOffer (call.js:145) does not look at the state.
FirstCallIsAgreed ==
    calls <= 1 => \A u \in User : stream[u] => u \in agreed

\* Who is left alone in the first call gets out of it without a click: by the
\* other's call_end, by a failure of his own, or by the connection's loss.
NobodyStaysAlone ==
    \A u, v \in User :
        state[u] = "in_call" /\ peer[u] = v /\ state[v] = "idle" ~>
            state[u] # "in_call" \/ calls > 1
=============================================================================
