------------------------------ MODULE E2EEKeys ------------------------------
(***************************************************************************)
(* End-to-end keys of the browsers: cryptoManager of frontend/crypto.js,   *)
(* the places of frontend/app.js that call it (connect, user_list,         *)
(* user_joined, sending a direct message), and the public keys the hub     *)
(* sends round (getPublicKeysLocked, broadcastUserListLocked of            *)
(* internal/hub/hub.go).                                                   *)
(*                                                                         *)
(* A key pair is a number, counted per user; a shared key is the pair of   *)
(* numbers it was derived from.  Two sides can read each other when their  *)
(* pairs are each other's mirror.                                          *)
(*                                                                         *)
(* Every user has one tab.  Reloading it loses what is in memory, closing  *)
(* it and opening another loses sessionStorage, too.  An await inside      *)
(* cryptoManager lets other handlers run; it is assumed over when the page *)
(* connects again, which takes two seconds at least (app.js:80).           *)
(*                                                                         *)
(* The hub's lists may be lost on the way, and sessionStorage may be full. *)
(*                                                                         *)
(* Abstracted: contents, what leaves in plaintext (no key changes by it),  *)
(* and users of other servers, to whom the browser sends no key (no code   *)
(* in frontend/ sends key_exchange).                                       *)
(***************************************************************************)
EXTENDS Integers, Sequences

CONSTANTS
    User,
    EnforcesUsages,  \* the platform checks the usages of a key, as WebCrypto says
    MaxPairs,        \* bound on the number of key pairs of a user
    MaxOpens         \* bound on the number of connections opened

ASSUME UsagesAssumption == EnforcesUsages \in BOOLEAN
ASSUME BoundAssumption == MaxPairs \in Nat /\ MaxOpens \in Nat

\* The usages init imports and generates the private key with.
KeyUsages == {"deriveKey"}

\* crypto.subtle.deriveBits, which importPeerKey and _restoreSharedKeys call.
CanDeriveBits == EnforcesUsages => "deriveBits" \in KeyUsages

None     == 0
PairOrNone == 0..MaxPairs
Shared   == [own : 1..MaxPairs, of : 1..MaxPairs]
NoShared == [own |-> None, of |-> None]

VARIABLES
    phase,       \* phase[u]: "closed", "opening" (onopen awaits init) or "joined"
    keyPair,     \* keyPair[u]: this.keyPair in memory
    generated,   \* generated[u]: key pairs u's tabs have generated
    savedPair,   \* savedPair[u]: the key pair in sessionStorage
    savedPeers,  \* savedPeers[u][v]: v's public key under e2ee-peers
    sharedKeys,  \* sharedKeys[u][v]
    restoring,   \* restoring[u][v]: saved key _restoreSharedKeys still has to derive from
    importing,   \* importing[u]: calls of importPeerKey at an await
    published,   \* published[u]: PublicKey of the Client of u at the hub
    inbox,       \* inbox[u]: public keys in messages on their way to u
    sealed,      \* history: sealed[u]: users u's tab has sent an encrypted message
    learnt,      \* history: learnt[u]: users whose key this page has imported
    wiped,       \* history: users whose tab had an emergency wipe
    full,        \* history: users whose sessionStorage did not take a key
    opens        \* connections opened

vars == <<phase, keyPair, generated, savedPair, savedPeers, sharedKeys, restoring,
          importing, published, inbox, sealed, learnt, wiped, full, opens>>

Import == [user : User, key : 1..MaxPairs]

\* The values of the variables.
TypeOK ==
    /\ phase \in [User -> {"closed", "opening", "joined"}]
    /\ keyPair \in [User -> PairOrNone]
    /\ generated \in [User -> PairOrNone]
    /\ savedPair \in [User -> PairOrNone]
    /\ savedPeers \in [User -> [User -> PairOrNone]]
    /\ sharedKeys \in [User -> [User -> Shared \cup {NoShared}]]
    /\ restoring \in [User -> [User -> PairOrNone]]
    /\ importing \in [User -> SUBSET Import]
    /\ published \in [User -> PairOrNone]
    /\ inbox \in [User -> Seq([User -> PairOrNone])]
    /\ sealed \in [User -> SUBSET User]
    /\ learnt \in [User -> SUBSET User]
    /\ wiped \subseteq User
    /\ full \subseteq User
    /\ opens \in 0..MaxOpens

Nowhere == [v \in User |-> None]

Init ==
    /\ phase = [u \in User |-> "closed"]
    /\ keyPair = [u \in User |-> None]
    /\ generated = [u \in User |-> None]
    /\ savedPair = [u \in User |-> None]
    /\ savedPeers = [u \in User |-> Nowhere]
    /\ sharedKeys = [u \in User |-> [v \in User |-> NoShared]]
    /\ restoring = [u \in User |-> Nowhere]
    /\ importing = [u \in User |-> {}]
    /\ published = [u \in User |-> None]
    /\ inbox = [u \in User |-> <<>>]
    /\ sealed = [u \in User |-> {}]
    /\ learnt = [u \in User |-> {}]
    /\ wiped = {}
    /\ full = {}
    /\ opens = 0

storage == <<savedPair, savedPeers>>
hubVars == <<published, inbox>>
history == <<sealed, learnt, wiped, full>>

(***************************************************************************)
(* The hub                                                                 *)
(***************************************************************************)

\* u's PublicKey changes, and the hub sends those who have joined user_joined,
\* with that key, and the user list, with all keys.  SendJSON drops on a full
\* channel, and a connection that is not yet in Clients gets neither: the lists
\* reach some, and the key alone some others.
Announces(u, key) ==
    /\ published' = [published EXCEPT ![u] = key]
    /\ \E listed, told \in SUBSET {v \in User : phase'[v] = "joined"} :
          inbox' = [v \in User |->
              CASE v \in listed      -> Append(inbox[v], published')
                [] v \in told \ listed -> Append(inbox[v], [Nowhere EXCEPT ![u] = key])
                [] OTHER             -> inbox[v]]

\* Run frees the name of a connection that ended.
Unregister(u) ==
    /\ phase[u] # "joined"
    /\ published[u] # None
    /\ UNCHANGED <<phase, keyPair, generated, storage, sharedKeys, restoring, importing,
                   history, opens>>
    /\ Announces(u, None)

(***************************************************************************)
(* Connecting                                                              *)
(***************************************************************************)

\* init generates a pair and saves it.  If sessionStorage is full it fails then,
\* with the pair in memory.
Generates(u) ==
    /\ generated[u] < MaxPairs
    /\ generated' = [generated EXCEPT ![u] = @ + 1]
    /\ keyPair' = [keyPair EXCEPT ![u] = generated'[u]]
    /\ \/ savedPair' = [savedPair EXCEPT ![u] = generated'[u]] /\ UNCHANGED full
       \/ full' = full \cup {u} /\ UNCHANGED savedPair
    /\ UNCHANGED restoring

\* init takes the saved pair, and begins to restore the shared keys.
Restores(u) ==
    /\ keyPair' = [keyPair EXCEPT ![u] = savedPair[u]]
    /\ restoring' = [restoring EXCEPT ![u] = savedPeers[u]]
    /\ UNCHANGED <<generated, savedPair, full>>

Opens(u) ==
    /\ opens < MaxOpens
    /\ opens' = opens + 1
    /\ phase[u] = "closed"
    /\ importing[u] = {}
    /\ phase' = [phase EXCEPT ![u] = "opening"]
    /\ UNCHANGED <<savedPeers, sharedKeys, importing, hubVars, sealed, learnt, wiped>>

\* Mutant: a pair for every connection.
OpenAnew(u) == Opens(u) /\ Generates(u)

\* onopen calls init.  A tab without a saved pair keeps the shared keys it has.
Open(u) ==
    /\ Opens(u)
    /\ \/ savedPair[u] # None /\ Restores(u)
       \/ savedPair[u] = None /\ Generates(u)

\* _restoreSharedKeys, one saved peer; a failed derivation is skipped.
Restore(u) ==
    \E v \in User :
        /\ restoring[u][v] # None
        /\ restoring' = [restoring EXCEPT ![u][v] = None]
        /\ sharedKeys' = IF ~CanDeriveBits THEN sharedKeys
              ELSE [sharedKeys EXCEPT ![u][v] = [own |-> keyPair[u], of |-> restoring[u][v]]]
        /\ UNCHANGED <<phase, keyPair, generated, storage, importing, hubVars, history,
                       opens>>

\* Mutant: the join message does not wait for init to restore the shared keys.
JoinAtOnce(u) ==
    /\ phase[u] = "opening"
    /\ phase' = [phase EXCEPT ![u] = "joined"]
    /\ UNCHANGED <<keyPair, generated, storage, sharedKeys, restoring, importing,
                   history, opens>>
    /\ Announces(u, savedPair[u])

\* init is over: the join message goes out, with the public key, or without one
\* if the pair could not be saved.
Join(u) ==
    /\ phase[u] = "opening"
    /\ restoring[u] = Nowhere
    /\ phase' = [phase EXCEPT ![u] = "joined"]
    /\ UNCHANGED <<keyPair, generated, storage, sharedKeys, restoring, importing,
                   history, opens>>
    /\ Announces(u, savedPair[u])

\* The connection is lost; the page keeps what it has.
Lose(u) ==
    /\ phase[u] = "joined"
    /\ phase' = [phase EXCEPT ![u] = "closed"]
    /\ inbox' = [inbox EXCEPT ![u] = <<>>]
    /\ UNCHANGED <<keyPair, generated, storage, sharedKeys, restoring, importing,
                   published, history, opens>>

\* Mutant: a restore that was going on goes on.
ForgetsKeys(u) ==
    /\ phase' = [phase EXCEPT ![u] = "closed"]
    /\ keyPair' = [keyPair EXCEPT ![u] = None]
    /\ sharedKeys' = [sharedKeys EXCEPT ![u] = [v \in User |-> NoShared]]
    /\ importing' = [importing EXCEPT ![u] = {}]
    /\ inbox' = [inbox EXCEPT ![u] = <<>>]
    /\ learnt' = [learnt EXCEPT ![u] = {}]
    /\ UNCHANGED <<restoring, generated, published, opens>>

\* The memory of the page is gone.
Forgets(u) ==
    /\ phase' = [phase EXCEPT ![u] = "closed"]
    /\ keyPair' = [keyPair EXCEPT ![u] = None]
    /\ sharedKeys' = [sharedKeys EXCEPT ![u] = [v \in User |-> NoShared]]
    /\ restoring' = [restoring EXCEPT ![u] = Nowhere]
    /\ importing' = [importing EXCEPT ![u] = {}]
    /\ inbox' = [inbox EXCEPT ![u] = <<>>]
    /\ learnt' = [learnt EXCEPT ![u] = {}]
    /\ UNCHANGED <<generated, published, opens>>

Reload(u) ==
    /\ keyPair[u] # None
    /\ Forgets(u)
    /\ UNCHANGED <<storage, sealed, wiped, full>>

\* Another tab, or logout: sessionStorage is empty.
NewTab(u) ==
    /\ keyPair[u] # None
    /\ Forgets(u)
    /\ savedPair' = [savedPair EXCEPT ![u] = None]
    /\ savedPeers' = [savedPeers EXCEPT ![u] = Nowhere]
    /\ sealed' = [sealed EXCEPT ![u] = {}]
    /\ wiped' = wiped \ {u}
    /\ full' = full \ {u}

\* emergencyWipe clears sessionStorage and closes the connection; the page stays.
Wipe(u) ==
    /\ phase[u] = "joined"
    /\ phase' = [phase EXCEPT ![u] = "closed"]
    /\ savedPair' = [savedPair EXCEPT ![u] = None]
    /\ savedPeers' = [savedPeers EXCEPT ![u] = Nowhere]
    /\ inbox' = [inbox EXCEPT ![u] = <<>>]
    /\ wiped' = wiped \cup {u}
    /\ UNCHANGED <<keyPair, generated, sharedKeys, restoring, importing, published,
                   sealed, learnt, full, opens>>

(***************************************************************************)
(* Keys of others                                                          *)
(***************************************************************************)

\* A user list: importPeerKey for each user without a shared key yet.
UserList(u) ==
    LET keys == Head(inbox[u])
        new  == {v \in User \ {u} : keys[v] # None /\ sharedKeys[u][v] = NoShared}
    IN  /\ inbox[u] # <<>>
        /\ inbox' = [inbox EXCEPT ![u] = Tail(@)]
        /\ importing' = [importing EXCEPT ![u] =
              @ \cup {[user |-> v, key |-> keys[v]] : v \in new}]
        /\ UNCHANGED <<phase, keyPair, generated, storage, sharedKeys, restoring,
                       published, history, opens>>

\* Mutant: the saved key is not replaced, as the shared key would not be.
SavesOnce(u, v, key) ==
    /\ savedPeers' = IF savedPeers[u][v] # None THEN savedPeers
                     ELSE [savedPeers EXCEPT ![u][v] = key]
    /\ UNCHANGED full

\* _savePeerKey, which does not tell its caller that sessionStorage is full.
Saves(u, v, key) ==
    \/ savedPeers' = [savedPeers EXCEPT ![u][v] = key] /\ UNCHANGED full
    \/ full' = full \cup {u} /\ UNCHANGED savedPeers

\* importPeerKey after its awaits: the shared key and the public key it came
\* from are set together; a failed derivation leaves both as they were.
Imported(u) ==
    \E i \in importing[u] :
        /\ importing' = [importing EXCEPT ![u] = @ \ {i}]
        /\ \/ /\ CanDeriveBits
              /\ sharedKeys' = [sharedKeys EXCEPT ![u][i.user] =
                                   [own |-> keyPair[u], of |-> i.key]]
              /\ Saves(u, i.user, i.key)
           \/ /\ ~CanDeriveBits
              /\ UNCHANGED <<sharedKeys, savedPeers, full>>
        /\ learnt' = [learnt EXCEPT ![u] = @ \cup {i.user}]
        /\ UNCHANGED <<phase, keyPair, generated, savedPair, restoring, hubVars, sealed,
                       wiped, opens>>

\* u sends v a text, and encrypt finds a shared key and succeeds.  All else that
\* u sends v leaves in plaintext: a text for which encrypt returns null, and
\* whatever keys there are, captions (app.js:747), /slap (998) and /hug (1014).
SendDM(u, v) ==
    /\ v # u
    /\ phase[u] = "joined"
    /\ sharedKeys[u][v] # NoShared
    /\ sealed' = [sealed EXCEPT ![u] = @ \cup {v}]
    /\ UNCHANGED <<phase, keyPair, generated, storage, sharedKeys, restoring, importing,
                   hubVars, learnt, wiped, full, opens>>

\* The public key whose fingerprint getFingerprint shows u for v.
Fingerprint(u, v) == savedPeers[u][v]

Next ==
    \E u \in User :
        \/ Unregister(u) \/ Open(u) \/ Restore(u) \/ Join(u) \/ Lose(u)
        \/ Reload(u) \/ NewTab(u) \/ Wipe(u)
        \/ UserList(u) \/ Imported(u)
        \/ \E v \in User : SendDM(u, v)

Spec == Init /\ [][Next]_vars

(***************************************************************************)
(* Properties                                                              *)
(***************************************************************************)

\* The fingerprint getFingerprint shows (crypto.js:148) is that of the key
\* messages are encrypted with: keys of one user that are imported at the same
\* time, restored after a reload or kept through a wipe never leave the saved
\* public key and the shared key apart, unless sessionStorage was full.
FingerprintIsOfKeyInUse ==
    \A u \in User \ full, v \in User :
        Fingerprint(u, v) # None /\ sharedKeys[u][v] # NoShared /\ restoring[u][v] = None =>
            Fingerprint(u, v) = sharedKeys[u][v].of

\* Once a tab has sent someone an encrypted text, encrypt finds a key for him
\* whenever the hub listens, across reconnections, reloads and lost lists: the
\* shared keys are restored before the join message (app.js:62).  It breaks after
\* an emergency wipe, since the page goes on with shared keys that are no longer
\* in sessionStorage, and if sessionStorage was full.  That the key is used is not
\* said: see SendDM for what leaves in plaintext.
KeyIsKept ==
    \A u \in User \ (wiped \cup full) :
        phase[u] = "joined" => \A v \in sealed[u] : sharedKeys[u][v] # NoShared

\* What a tab encrypts with comes from the key pair whose public key the hub sends
\* round, so that who imports that can read it: across reconnections, reloads and
\* overlapping imports the pair in memory, the one saved, the one published and
\* the ones shared keys were derived from agree.  A wipe, and a full
\* sessionStorage, leave the page with shared keys of an earlier pair.
SealsWithPublished ==
    \A u \in User \ (wiped \cup full) :
        phase[u] = "joined" =>
            /\ published[u] = keyPair[u]
            /\ \A v \in User : sharedKeys[u][v] # NoShared =>
                  sharedKeys[u][v].own = published[u]

\* "Messages are encrypted ... before leaving the browser": there is a shared key
\* with everyone whose public key was imported.
MessagesAreEncrypted ==
    \A u \in User : \A v \in learnt[u] : sharedKeys[u][v] # NoShared
=============================================================================
