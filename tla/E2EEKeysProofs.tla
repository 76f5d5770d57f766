--------------------------- MODULE E2EEKeysProofs ---------------------------
(***************************************************************************)
(* What holds of the keys for any number of users, key pairs and           *)
(* connections, whether or not the platform derives shared keys, whatever  *)
(* lists are lost: the fingerprint is that of the key in use, whoever was  *)
(* sent an encrypted text stays one the tab has a key of, and a tab        *)
(* encrypts with the pair whose public key it has published, unless it was *)
(* wiped or could not save a key.                                          *)
(***************************************************************************)
EXTENDS E2EEKeys, SequenceTheorems, TLAPS

\* A page that restores has not joined and imports nothing, and restores from
\* what is saved.  Lists come to those who have joined only.
RestoreInv ==
    \A u \in User :
        /\ phase[u] # "closed" \/ importing[u] # {} => keyPair[u] # None
        /\ phase[u] # "joined" => inbox[u] = <<>>
        /\ phase[u] = "opening" => importing[u] = {}
        /\ \A v \in User :
              /\ restoring[u][v] # None => /\ phase[u] = "opening"
                                           /\ restoring[u][v] = savedPeers[u][v]
              /\ sharedKeys[u][v] # NoShared => CanDeriveBits /\ keyPair[u] # None

\* The tabs whose sessionStorage has what their memory has
Sound == User \ (wiped \cup full)

\* Such a tab has one key pair: the saved one, which it publishes, and which its
\* shared keys come from.
PairInv ==
    \A u \in Sound :
        /\ keyPair[u] # None => savedPair[u] = keyPair[u]
        /\ phase[u] = "joined" => published[u] = keyPair[u]
        /\ \A v \in User : sharedKeys[u][v] # NoShared => sharedKeys[u][v].own = keyPair[u]

\* Whom such a tab has written to under a key, it has the key of in memory, or
\* will have before it joins: both halves are saved.
SealedInv ==
    \A u \in Sound : \A v \in User :
        /\ sharedKeys[u][v] # NoShared => savedPeers[u][v] # None
        /\ v \in sealed[u] =>
              /\ CanDeriveBits
              /\ savedPair[u] # None
              /\ savedPeers[u][v] # None
              /\ phase[u] = "joined" => sharedKeys[u][v] # NoShared
              /\ phase[u] = "opening" => sharedKeys[u][v] # NoShared \/ restoring[u][v] # None

IInv == TypeOK /\ RestoreInv /\ FingerprintIsOfKeyInUse /\ PairInv /\ SealedInv

(***************************************************************************)
(* Types                                                                   *)
(***************************************************************************)

\* No key is a key value, and to have none of anybody's a function.
LEMMA NowhereType == None \in PairOrNone /\ Nowhere \in [User -> PairOrNone]
BY BoundAssumption DEF PairOrNone, None, Nowhere

\* A key that is one: the numbers it may have.
LEMMA PairType ==
    ASSUME NEW key \in PairOrNone, key # None
    PROVE  key \in 1..MaxPairs
BY BoundAssumption DEF PairOrNone, None

\* A shared key derived from two keys is one.
LEMMA SharedType ==
    ASSUME NEW own \in 1..MaxPairs, NEW of \in 1..MaxPairs
    PROVE  [own |-> own, of |-> of] \in Shared /\ [own |-> own, of |-> of] # NoShared
BY BoundAssumption DEF Shared, NoShared, None

\* One entry of a table of tables is set.
LEMMA EntryType ==
    ASSUME NEW S, NEW f \in [User -> [User -> S]], NEW u \in User, NEW v \in User, NEW e \in S
    PROVE  [f EXCEPT ![u][v] = e] \in [User -> [User -> S]]
OBVIOUS

\* Announcing a key keeps the types.
LEMMA AnnouncesType ==
    ASSUME TypeOK, NEW u \in User, NEW key \in PairOrNone, Announces(u, key)
    PROVE  published' \in [User -> PairOrNone] /\ inbox' \in [User -> Seq([User -> PairOrNone])]
<1>1. published' \in [User -> PairOrNone]
  BY DEF Announces, TypeOK
<1>2. [Nowhere EXCEPT ![u] = key] \in [User -> PairOrNone]
  BY NowhereType
<1>3. \A v \in User :
         /\ inbox[v] \in Seq([User -> PairOrNone])
         /\ Append(inbox[v], published') \in Seq([User -> PairOrNone])
         /\ Append(inbox[v], [Nowhere EXCEPT ![u] = key]) \in Seq([User -> PairOrNone])
  BY <1>1, <1>2 DEF TypeOK
<1>4. PICK listed, told \in SUBSET {v \in User : phase'[v] = "joined"} :
         inbox' = [v \in User |->
             CASE v \in listed      -> Append(inbox[v], published')
               [] v \in told \ listed -> Append(inbox[v], [Nowhere EXCEPT ![u] = key])
               [] OTHER             -> inbox[v]]
  BY DEF Announces
<1>5. inbox' \in [User -> Seq([User -> PairOrNone])]
  BY <1>3, <1>4
<1> QED
  BY <1>1, <1>5

\* Announcing a key reaches those who have joined only.
LEMMA AnnouncesReach ==
    ASSUME TypeOK, NEW u \in User, NEW key, Announces(u, key),
           NEW w \in User, phase'[w] # "joined"
    PROVE  inbox'[w] = inbox[w]
BY DEF Announces, TypeOK

\* Announcing a key changes no other published key.
LEMMA AnnouncesOne ==
    ASSUME TypeOK, NEW u \in User, NEW key, Announces(u, key)
    PROVE  published'[u] = key /\ \A w \in User \ {u} : published'[w] = published[w]
BY DEF Announces, TypeOK

\* Generating a key pair gives one.
LEMMA GeneratesType ==
    ASSUME TypeOK, NEW u \in User, Generates(u)
    PROVE  /\ generated' \in [User -> PairOrNone]
           /\ keyPair' \in [User -> PairOrNone] /\ keyPair'[u] # None
           /\ savedPair' \in [User -> PairOrNone]
           /\ full' \subseteq User /\ full \subseteq full'
           /\ u \notin full' => savedPair'[u] = keyPair'[u]
           /\ UNCHANGED restoring
           /\ \A w \in User \ {u} : keyPair'[w] = keyPair[w] /\ savedPair'[w] = savedPair[w]
           /\ full' \subseteq full \cup {u}
<1>1. generated[u] \in 0..MaxPairs /\ generated[u] < MaxPairs
  BY DEF Generates, TypeOK, PairOrNone
<1>2. generated[u] + 1 \in PairOrNone /\ generated[u] + 1 # None
  BY <1>1, BoundAssumption DEF PairOrNone, None
<1>3. generated' = [generated EXCEPT ![u] = generated[u] + 1]
  BY DEF Generates
<1>4. generated' \in [User -> PairOrNone] /\ generated'[u] = generated[u] + 1
  BY <1>2, <1>3 DEF TypeOK
<1> DEFINE new == generated'[u]
<1>5. new \in PairOrNone /\ new # None
  BY <1>2, <1>4
<1>6. /\ keyPair' = [keyPair EXCEPT ![u] = new]
      /\ \/ savedPair' = [savedPair EXCEPT ![u] = new] /\ UNCHANGED full
         \/ full' = full \cup {u} /\ UNCHANGED savedPair
      /\ UNCHANGED restoring
  BY DEF Generates
<1> HIDE DEF new
<1> QED
  BY <1>4, <1>5, <1>6 DEF TypeOK

\* Forgetting the keys in memory keeps the types.
LEMMA ForgetsType ==
    ASSUME TypeOK, NEW u \in User, Forgets(u)
    PROVE  /\ phase' \in [User -> {"closed", "opening", "joined"}]
           /\ keyPair' \in [User -> PairOrNone]
           /\ sharedKeys' \in [User -> [User -> Shared \cup {NoShared}]]
           /\ restoring' \in [User -> [User -> PairOrNone]]
           /\ importing' \in [User -> SUBSET Import]
           /\ inbox' \in [User -> Seq([User -> PairOrNone])]
           /\ learnt' \in [User -> SUBSET User]
<1>1. [v \in User |-> NoShared] \in [User -> Shared \cup {NoShared}] /\ <<>> \in Seq([User -> PairOrNone])
  OBVIOUS
<1>2. sharedKeys' \in [User -> [User -> Shared \cup {NoShared}]]
  BY <1>1 DEF Forgets, TypeOK
<1>3. restoring' \in [User -> [User -> PairOrNone]] /\ keyPair' \in [User -> PairOrNone]
  BY NowhereType DEF Forgets, TypeOK
<1>4. inbox' \in [User -> Seq([User -> PairOrNone])]
  BY <1>1 DEF Forgets, TypeOK
<1>5. phase' \in [User -> {"closed", "opening", "joined"}]
  BY DEF Forgets, TypeOK
<1>6. importing' \in [User -> SUBSET Import] /\ learnt' \in [User -> SUBSET User]
  BY DEF Forgets, TypeOK
<1> QED
  BY <1>2, <1>3, <1>4, <1>5, <1>6

\* What a connection does keeps the types.
LEMMA ConnectionType ==
    ASSUME TypeOK, RestoreInv, NEW u \in User,
           Unregister(u) \/ Open(u) \/ Restore(u) \/ Join(u) \/ Lose(u)
    PROVE  TypeOK'
<1> USE DEF storage, hubVars, history
<1>1. CASE Unregister(u)
  <2>1. published' \in [User -> PairOrNone] /\ inbox' \in [User -> Seq([User -> PairOrNone])]
    BY <1>1, AnnouncesType, NowhereType DEF Unregister
  <2> QED
    BY <1>1, <2>1 DEF Unregister, TypeOK
<1>2. CASE Open(u)
  <2>1. opens' \in 0..MaxOpens /\ phase' \in [User -> {"closed", "opening", "joined"}]
    BY <1>2, BoundAssumption DEF Open, Opens, TypeOK
  <2>2. UNCHANGED <<savedPeers, sharedKeys, importing, published, inbox, sealed, learnt, wiped>>
    BY <1>2 DEF Open, Opens
  <2>3. CASE Restores(u)
    <3>1. keyPair' \in [User -> PairOrNone] /\ restoring' \in [User -> [User -> PairOrNone]]
      BY <2>3 DEF Restores, TypeOK
    <3> QED
      BY <2>1, <2>2, <2>3, <3>1 DEF Restores, TypeOK
  <2>4. CASE Generates(u)
    BY <2>1, <2>2, <2>4, GeneratesType DEF TypeOK
  <2> QED
    BY <1>2, <2>3, <2>4 DEF Open
<1>3. CASE Restore(u)
  <2>1. PICK v \in User :
           /\ restoring[u][v] # None
           /\ restoring' = [restoring EXCEPT ![u][v] = None]
           /\ sharedKeys' = IF ~CanDeriveBits THEN sharedKeys
                 ELSE [sharedKeys EXCEPT ![u][v] = [own |-> keyPair[u], of |-> restoring[u][v]]]
    BY <1>3 DEF Restore
  <2>2. restoring' \in [User -> [User -> PairOrNone]]
    BY <2>1, NowhereType DEF TypeOK
  <2>3. keyPair[u] \in 1..MaxPairs /\ restoring[u][v] \in 1..MaxPairs
    BY <2>1, PairType DEF RestoreInv, TypeOK
  <2>4. [own |-> keyPair[u], of |-> restoring[u][v]] \in Shared
    BY <2>3, SharedType
  <2>5. sharedKeys' \in [User -> [User -> Shared \cup {NoShared}]]
    BY <2>1, <2>4 DEF TypeOK
  <2> QED
    BY <1>3, <2>2, <2>5 DEF Restore, TypeOK
<1>4. CASE Join(u)
  <2>1. savedPair[u] \in PairOrNone
    BY DEF TypeOK
  <2>2. published' \in [User -> PairOrNone] /\ inbox' \in [User -> Seq([User -> PairOrNone])]
    BY <1>4, <2>1, AnnouncesType DEF Join
  <2> QED
    BY <1>4, <2>2 DEF Join, TypeOK
<1>5. CASE Lose(u)
  BY <1>5 DEF Lose, TypeOK
<1> QED
  BY <1>1, <1>2, <1>3, <1>4, <1>5

\* What a page does keeps the types.
LEMMA PageType ==
    ASSUME TypeOK, RestoreInv, NEW u \in User,
           \/ Reload(u) \/ NewTab(u) \/ Wipe(u) \/ UserList(u) \/ Imported(u)
           \/ \E v \in User : SendDM(u, v)
    PROVE  TypeOK'
<1> USE DEF storage, hubVars, history
<1>1. CASE Reload(u)
  <2>1. Forgets(u) /\ UNCHANGED <<generated, published, opens, savedPair, savedPeers, sealed, wiped, full>>
    BY <1>1 DEF Reload, Forgets
  <2> QED
    BY <2>1, ForgetsType DEF TypeOK
<1>2. CASE NewTab(u)
  <2>1. Forgets(u) /\ UNCHANGED <<generated, published, opens>>
    BY <1>2 DEF NewTab, Forgets
  <2>2. savedPair' \in [User -> PairOrNone] /\ savedPeers' \in [User -> [User -> PairOrNone]]
    BY <1>2, NowhereType DEF NewTab, TypeOK
  <2>3. sealed' \in [User -> SUBSET User]
    BY <1>2 DEF NewTab, TypeOK
  <2>4. wiped' \subseteq User /\ full' \subseteq User
    BY <1>2 DEF NewTab, TypeOK
  <2> QED
    BY <2>1, <2>2, <2>3, <2>4, ForgetsType DEF TypeOK
<1>3. CASE Wipe(u)
  <2>1. savedPair' \in [User -> PairOrNone] /\ savedPeers' \in [User -> [User -> PairOrNone]]
    BY <1>3, NowhereType DEF Wipe, TypeOK
  <2>2. wiped' \subseteq User /\ inbox' \in [User -> Seq([User -> PairOrNone])]
    BY <1>3 DEF Wipe, TypeOK
  <2> QED
    BY <1>3, <2>1, <2>2 DEF Wipe, TypeOK
<1>4. CASE UserList(u)
  <2> DEFINE keys == Head(inbox[u])
             new  == {v \in User \ {u} : keys[v] # None /\ sharedKeys[u][v] = NoShared}
  <2>1. keys \in [User -> PairOrNone] /\ Tail(inbox[u]) \in Seq([User -> PairOrNone])
    BY <1>4 DEF UserList, TypeOK
  <2>2. \A v \in new : [user |-> v, key |-> keys[v]] \in Import
    BY <2>1, PairType DEF Import
  <2>3. importing' = [importing EXCEPT ![u] = @ \cup {[user |-> v, key |-> keys[v]] : v \in new}]
    BY <1>4 DEF UserList
  <2>4. importing' \in [User -> SUBSET Import]
    BY <2>2, <2>3 DEF TypeOK
  <2>5. inbox' \in [User -> Seq([User -> PairOrNone])]
    BY <1>4, <2>1 DEF UserList, TypeOK
  <2> QED
    BY <1>4, <2>4, <2>5 DEF UserList, TypeOK
<1>5. CASE Imported(u)
  <2>1. PICK i \in importing[u] :
           /\ importing' = [importing EXCEPT ![u] = @ \ {i}]
           /\ \/ /\ CanDeriveBits
                 /\ sharedKeys' = [sharedKeys EXCEPT ![u][i.user] =
                                      [own |-> keyPair[u], of |-> i.key]]
                 /\ Saves(u, i.user, i.key)
              \/ /\ ~CanDeriveBits
                 /\ UNCHANGED <<sharedKeys, savedPeers, full>>
           /\ learnt' = [learnt EXCEPT ![u] = @ \cup {i.user}]
    BY <1>5 DEF Imported
  <2>2. i.user \in User /\ i.key \in 1..MaxPairs
    BY DEF TypeOK, Import
  <2>3. keyPair[u] \in 1..MaxPairs /\ i.key \in PairOrNone
    <3>1. keyPair[u] # None /\ keyPair[u] \in PairOrNone
      BY DEF RestoreInv, TypeOK
    <3>2. i.key \in PairOrNone
      BY <2>2, BoundAssumption DEF PairOrNone
    <3> QED
      BY <3>1, <3>2, PairType
  <2>4. [own |-> keyPair[u], of |-> i.key] \in Shared
    BY <2>2, <2>3, SharedType
  <2>5. sharedKeys' \in [User -> [User -> Shared \cup {NoShared}]]
    <3>1. sharedKeys \in [User -> [User -> Shared \cup {NoShared}]]
      BY DEF TypeOK
    <3>2. \/ sharedKeys' = sharedKeys
          \/ sharedKeys' = [sharedKeys EXCEPT ![u][i.user] = [own |-> keyPair[u], of |-> i.key]]
      BY <2>1
    <3> DEFINE new == [own |-> keyPair[u], of |-> i.key]
    <3> HIDE DEF new
    <3>3. new \in Shared \cup {NoShared}
      BY <2>4 DEF new
    <3>4. [sharedKeys EXCEPT ![u][i.user] = new] \in [User -> [User -> Shared \cup {NoShared}]]
      BY <2>2, <3>1, <3>3, EntryType
    <3> QED
      BY <3>1, <3>2, <3>4 DEF new
  <2>6. savedPeers' \in [User -> [User -> PairOrNone]]
    <3>1. savedPeers \in [User -> [User -> PairOrNone]]
      BY DEF TypeOK
    <3>2. \/ savedPeers' = savedPeers
          \/ savedPeers' = [savedPeers EXCEPT ![u][i.user] = i.key]
      BY <2>1 DEF Saves
    <3> DEFINE v == i.user
               new == i.key
    <3> HIDE DEF v, new
    <3>3. v \in User /\ new \in PairOrNone
      BY <2>2, <2>3 DEF v, new
    <3>4. [savedPeers EXCEPT ![u][v] = new] \in [User -> [User -> PairOrNone]]
      BY <3>1, <3>3, EntryType
    <3> QED
      BY <3>1, <3>2, <3>4 DEF v, new
  <2>7. /\ importing' \in [User -> SUBSET Import] /\ learnt' \in [User -> SUBSET User]
        /\ full' \subseteq User
    BY <2>1, <2>2 DEF TypeOK, Saves
  <2> QED
    BY <1>5, <2>5, <2>6, <2>7 DEF Imported, TypeOK
<1>6. ASSUME NEW v \in User, SendDM(u, v)
      PROVE  TypeOK'
  BY <1>6 DEF SendDM, TypeOK
<1> QED
  BY <1>1, <1>2, <1>3, <1>4, <1>5, <1>6

(***************************************************************************)
(* Restoring and importing                                                 *)
(***************************************************************************)

\* A page that forgets has nothing to keep apart.
LEMMA ForgetsRestore ==
    ASSUME TypeOK, RestoreInv, FingerprintIsOfKeyInUse, NEW u \in User, Forgets(u),
           \A w \in User \ {u} : savedPeers'[w] = savedPeers[w] /\ (w \in full => w \in full')
    PROVE  RestoreInv' /\ FingerprintIsOfKeyInUse'
<1>1. \A w \in User \ {u} :
         /\ phase'[w] = phase[w] /\ importing'[w] = importing[w] /\ keyPair'[w] = keyPair[w]
         /\ inbox'[w] = inbox[w] /\ restoring'[w] = restoring[w]
         /\ sharedKeys'[w] = sharedKeys[w]
  BY DEF Forgets, TypeOK
<1>2. /\ phase'[u] = "closed" /\ importing'[u] = {} /\ inbox'[u] = <<>>
      /\ \A v \in User : restoring'[u][v] = None /\ sharedKeys'[u][v] = NoShared
  BY DEF Forgets, TypeOK, Nowhere
<1>3. RestoreInv'
  BY <1>1, <1>2 DEF RestoreInv
<1>4. FingerprintIsOfKeyInUse'
  BY <1>1, <1>2 DEF FingerprintIsOfKeyInUse, Fingerprint
<1> QED
  BY <1>3, <1>4

\* What a connection does keeps RestoreInv.
LEMMA ConnectionRestore ==
    ASSUME TypeOK, RestoreInv, FingerprintIsOfKeyInUse, NEW u \in User,
           Unregister(u) \/ Open(u) \/ Restore(u) \/ Join(u) \/ Lose(u)
    PROVE  RestoreInv' /\ FingerprintIsOfKeyInUse'
<1> USE DEF storage, hubVars, history
<1>1. CASE Unregister(u)
  <2>1. \A w \in User : phase[w] # "joined" => inbox'[w] = inbox[w]
    BY <1>1, AnnouncesReach DEF Unregister
  <2> QED
    BY <1>1, <2>1 DEF Unregister, RestoreInv, FingerprintIsOfKeyInUse, Fingerprint
<1>2. CASE Open(u)
  <2>1. /\ phase'[u] = "opening" /\ importing'[u] = {} /\ phase[u] = "closed"
        /\ UNCHANGED <<importing, inbox, savedPeers, sharedKeys>>
        /\ \A w \in User \ {u} : phase'[w] = phase[w]
    BY <1>2 DEF Open, Opens, TypeOK
  <2>2. inbox'[u] = <<>> /\ \A v \in User : restoring[u][v] = None
    BY <2>1 DEF RestoreInv
  <2>3. /\ keyPair'[u] # None /\ full \subseteq full'
        /\ \A v \in User : restoring'[u][v] # None => restoring'[u][v] = savedPeers[u][v]
        /\ \A w \in User \ {u} : keyPair'[w] = keyPair[w] /\ restoring'[w] = restoring[w]
    <3>1. CASE savedPair[u] # None /\ Restores(u)
      BY <3>1 DEF Restores, TypeOK
    <3>2. CASE Generates(u)
      BY <2>2, <3>2, GeneratesType
    <3> QED
      BY <1>2, <3>1, <3>2 DEF Open
  <2>4. RestoreInv'
    BY <2>1, <2>2, <2>3 DEF RestoreInv
  <2>5. \A v \in User : u \notin full /\ savedPeers[u][v] # None /\ sharedKeys[u][v] # NoShared
                           => savedPeers[u][v] = sharedKeys[u][v].of
    BY <2>2 DEF FingerprintIsOfKeyInUse, Fingerprint
  <2>6. FingerprintIsOfKeyInUse'
    BY <2>1, <2>3, <2>5 DEF FingerprintIsOfKeyInUse, Fingerprint
  <2> QED
    BY <2>4, <2>6
<1>3. CASE Restore(u)
  <2>1. PICK v \in User :
           /\ restoring[u][v] # None
           /\ restoring' = [restoring EXCEPT ![u][v] = None]
           /\ sharedKeys' = IF ~CanDeriveBits THEN sharedKeys
                 ELSE [sharedKeys EXCEPT ![u][v] = [own |-> keyPair[u], of |-> restoring[u][v]]]
    BY <1>3 DEF Restore
  <2>2. UNCHANGED <<phase, keyPair, importing, inbox, savedPeers, full>>
    BY <1>3 DEF Restore
  <2>3. restoring'[u][v] = None
    BY <2>1 DEF TypeOK
  <2>4. \A w, x \in User : w # u \/ x # v =>
           restoring'[w][x] = restoring[w][x] /\ sharedKeys'[w][x] = sharedKeys[w][x]
    BY <2>1 DEF TypeOK
  <2>5. /\ sharedKeys'[u][v] # NoShared => CanDeriveBits /\ sharedKeys'[u][v].of = savedPeers[u][v]
        /\ keyPair[u] # None
    BY <2>1 DEF TypeOK, RestoreInv
  <2>6. RestoreInv'
    BY <2>2, <2>3, <2>4, <2>5 DEF RestoreInv
  <2>7. FingerprintIsOfKeyInUse'
    BY <2>2, <2>4, <2>5 DEF FingerprintIsOfKeyInUse, Fingerprint
  <2> QED
    BY <2>6, <2>7
<1>4. CASE Join(u)
  <2>1. phase'[u] = "joined" /\ phase[u] = "opening" /\ \A w \in User \ {u} : phase'[w] = phase[w]
    BY <1>4 DEF Join, TypeOK
  <2>2. \A w \in User : phase'[w] # "joined" => inbox'[w] = inbox[w]
    BY <1>4, AnnouncesReach DEF Join
  <2>3. \A v \in User : restoring[u][v] = None
    BY <1>4 DEF Join, Nowhere
  <2>4. UNCHANGED <<keyPair, importing, savedPeers, sharedKeys, restoring, full>>
    BY <1>4 DEF Join
  <2> QED
    BY <2>1, <2>2, <2>3, <2>4 DEF RestoreInv, FingerprintIsOfKeyInUse, Fingerprint
<1>5. CASE Lose(u)
  <2>1. /\ phase'[u] = "closed" /\ phase[u] = "joined" /\ inbox'[u] = <<>>
        /\ \A w \in User \ {u} : phase'[w] = phase[w] /\ inbox'[w] = inbox[w]
    BY <1>5 DEF Lose, TypeOK
  <2>2. UNCHANGED <<keyPair, importing, savedPeers, sharedKeys, restoring, full>>
    BY <1>5 DEF Lose
  <2> QED
    BY <2>1, <2>2 DEF RestoreInv, FingerprintIsOfKeyInUse, Fingerprint
<1> QED
  BY <1>1, <1>2, <1>3, <1>4, <1>5

\* What a page does keeps RestoreInv.
LEMMA PageRestore ==
    ASSUME TypeOK, RestoreInv, FingerprintIsOfKeyInUse, NEW u \in User,
           \/ Reload(u) \/ NewTab(u) \/ Wipe(u) \/ UserList(u) \/ Imported(u)
           \/ \E v \in User : SendDM(u, v)
    PROVE  RestoreInv' /\ FingerprintIsOfKeyInUse'
<1> USE DEF storage, hubVars, history
<1>1. CASE Reload(u)
  BY <1>1, ForgetsRestore DEF Reload
<1>2. CASE NewTab(u)
  <2>1. \A w \in User \ {u} : savedPeers'[w] = savedPeers[w] /\ (w \in full => w \in full')
    BY <1>2 DEF NewTab, TypeOK
  <2> QED
    BY <1>2, <2>1, ForgetsRestore DEF NewTab
<1>3. CASE Wipe(u)
  <2>1. /\ phase'[u] = "closed" /\ phase[u] = "joined" /\ inbox'[u] = <<>>
        /\ \A v \in User : savedPeers'[u][v] = None
        /\ \A w \in User \ {u} :
              phase'[w] = phase[w] /\ inbox'[w] = inbox[w] /\ savedPeers'[w] = savedPeers[w]
    BY <1>3 DEF Wipe, TypeOK, Nowhere
  <2>2. UNCHANGED <<keyPair, importing, sharedKeys, restoring, full>>
    BY <1>3 DEF Wipe
  <2> QED
    BY <2>1, <2>2 DEF RestoreInv, FingerprintIsOfKeyInUse, Fingerprint
<1>4. CASE UserList(u)
  <2>1. phase[u] = "joined" /\ keyPair[u] # None
    BY <1>4 DEF UserList, RestoreInv
  <2>2. \A w \in User \ {u} : importing'[w] = importing[w] /\ inbox'[w] = inbox[w]
    BY <1>4 DEF UserList, TypeOK
  <2>3. UNCHANGED <<phase, keyPair, savedPeers, sharedKeys, restoring, full>>
    BY <1>4 DEF UserList
  <2> QED
    BY <2>1, <2>2, <2>3 DEF RestoreInv, FingerprintIsOfKeyInUse, Fingerprint
<1>5. CASE Imported(u)
  <2>1. PICK i \in importing[u] :
           /\ importing' = [importing EXCEPT ![u] = @ \ {i}]
           /\ \/ /\ CanDeriveBits
                 /\ sharedKeys' = [sharedKeys EXCEPT ![u][i.user] =
                                      [own |-> keyPair[u], of |-> i.key]]
                 /\ Saves(u, i.user, i.key)
              \/ /\ ~CanDeriveBits
                 /\ UNCHANGED <<sharedKeys, savedPeers, full>>
           /\ learnt' = [learnt EXCEPT ![u] = @ \cup {i.user}]
    BY <1>5 DEF Imported
  <2>2. UNCHANGED <<phase, keyPair, restoring, inbox>>
    BY <1>5 DEF Imported
  <2>3. i.user \in User /\ \A v \in User : restoring[u][v] = None
    BY DEF TypeOK, Import, RestoreInv
  <2>4. \A w \in User : importing'[w] \subseteq importing[w]
    BY <2>1 DEF TypeOK
  <2>5. CASE UNCHANGED <<sharedKeys, savedPeers, full>>
    BY <2>1, <2>2, <2>4, <2>5 DEF RestoreInv, FingerprintIsOfKeyInUse, Fingerprint
  <2>6. CASE /\ CanDeriveBits
             /\ sharedKeys' = [sharedKeys EXCEPT ![u][i.user] = [own |-> keyPair[u], of |-> i.key]]
             /\ Saves(u, i.user, i.key)
    <3>1. /\ u \notin full' => savedPeers'[u][i.user] = i.key
          /\ sharedKeys'[u][i.user].of = i.key
          /\ full' \subseteq full \cup {u} /\ full \subseteq full'
      BY <2>3, <2>6 DEF TypeOK, Saves
    <3>2. \A w, x \in User : w # u \/ x # i.user =>
             savedPeers'[w][x] = savedPeers[w][x] /\ sharedKeys'[w][x] = sharedKeys[w][x]
      BY <2>6 DEF TypeOK, Saves
    <3>3. FingerprintIsOfKeyInUse'
      BY <2>2, <3>1, <3>2 DEF FingerprintIsOfKeyInUse, Fingerprint
    <3>4. keyPair[u] # None
      BY DEF RestoreInv
    <3>5. RestoreInv'
      BY <2>2, <2>3, <2>4, <2>6, <3>2, <3>4 DEF RestoreInv
    <3> QED
      BY <3>3, <3>5
  <2> QED
    BY <2>1, <2>5, <2>6
<1>6. ASSUME NEW v \in User, SendDM(u, v)
      PROVE  RestoreInv' /\ FingerprintIsOfKeyInUse'
  BY <1>6 DEF SendDM, RestoreInv, FingerprintIsOfKeyInUse, Fingerprint
<1> QED
  BY <1>1, <1>2, <1>3, <1>4, <1>5, <1>6

(***************************************************************************)
(* Pairs and sealed conversations                                          *)
(***************************************************************************)

\* What a connection does keeps PairInv and SealedInv.
LEMMA ConnectionSealed ==
    ASSUME TypeOK, RestoreInv, PairInv, SealedInv, NEW u \in User,
           Unregister(u) \/ Open(u) \/ Restore(u) \/ Join(u) \/ Lose(u)
    PROVE  PairInv' /\ SealedInv'
<1> USE DEF storage, hubVars, history
<1>1. CASE Unregister(u)
  <2>1. phase[u] # "joined" /\ \A w \in User \ {u} : published'[w] = published[w]
    BY <1>1, AnnouncesOne DEF Unregister
  <2>2. UNCHANGED <<phase, keyPair, savedPair, savedPeers, sharedKeys, restoring, sealed, wiped, full>>
    BY <1>1 DEF Unregister
  <2> QED
    BY <2>1, <2>2 DEF PairInv, SealedInv, Sound
<1>2. CASE Open(u)
  <2>1. /\ UNCHANGED <<savedPeers, sharedKeys, sealed, wiped, published>>
        /\ phase'[u] = "opening" /\ \A w \in User \ {u} : phase'[w] = phase[w]
    BY <1>2 DEF Open, Opens, TypeOK
  <2>2. CASE savedPair[u] # None /\ Restores(u)
    <3>1. /\ UNCHANGED <<savedPair, full>>
          /\ keyPair'[u] = savedPair[u] /\ restoring'[u] = savedPeers[u]
          /\ \A w \in User \ {u} : keyPair'[w] = keyPair[w] /\ restoring'[w] = restoring[w]
      BY <2>2 DEF Restores, TypeOK
    <3>2. u \in Sound => \A v \in User : sharedKeys[u][v] # NoShared =>
             sharedKeys[u][v].own = savedPair[u]
      BY DEF PairInv, RestoreInv
    <3>3. PairInv'
      BY <2>1, <2>2, <3>1, <3>2 DEF PairInv, Sound
    <3>4. SealedInv'
      BY <2>1, <2>2, <3>1 DEF SealedInv, Sound
    <3> QED
      BY <3>3, <3>4
  <2>3. CASE savedPair[u] = None /\ Generates(u)
    <3>1. /\ full \subseteq full' /\ UNCHANGED restoring
          /\ keyPair'[u] # None /\ (u \notin full' => savedPair'[u] = keyPair'[u])
          /\ \A w \in User \ {u} : keyPair'[w] = keyPair[w] /\ savedPair'[w] = savedPair[w]
      BY <2>3, GeneratesType
    <3>2. u \in Sound => keyPair[u] = None /\ \A v \in User : sharedKeys[u][v] = NoShared
      BY <2>3 DEF PairInv, RestoreInv
    <3>3. u \in Sound => \A v \in User : v \notin sealed[u]
      BY <2>3 DEF SealedInv
    <3>4. PairInv'
      BY <2>1, <3>1, <3>2 DEF PairInv, Sound
    <3>5. SealedInv'
      BY <2>1, <3>1, <3>2, <3>3 DEF SealedInv, Sound
    <3> QED
      BY <3>4, <3>5
  <2> QED
    BY <1>2, <2>2, <2>3 DEF Open
<1>3. CASE Restore(u)
  <2>1. PICK v \in User :
           /\ restoring[u][v] # None
           /\ restoring' = [restoring EXCEPT ![u][v] = None]
           /\ sharedKeys' = IF ~CanDeriveBits THEN sharedKeys
                 ELSE [sharedKeys EXCEPT ![u][v] = [own |-> keyPair[u], of |-> restoring[u][v]]]
    BY <1>3 DEF Restore
  <2>2. UNCHANGED <<phase, keyPair, savedPair, savedPeers, published, sealed, wiped, full>>
    BY <1>3 DEF Restore
  <2>3. \A w, x \in User : w # u \/ x # v =>
           restoring'[w][x] = restoring[w][x] /\ sharedKeys'[w][x] = sharedKeys[w][x]
    BY <2>1 DEF TypeOK
  <2>4. phase[u] = "opening" /\ savedPeers[u][v] # None
    BY <2>1 DEF RestoreInv
  <2>5. CanDeriveBits => sharedKeys'[u][v] # NoShared /\ sharedKeys'[u][v].own = keyPair[u]
    <3>1. keyPair[u] \in 1..MaxPairs /\ restoring[u][v] \in 1..MaxPairs
      BY <2>1, <2>4, PairType DEF RestoreInv, TypeOK
    <3>2. [own |-> keyPair[u], of |-> restoring[u][v]] # NoShared
      BY <3>1, SharedType
    <3> QED
      BY <2>1, <3>2 DEF TypeOK
  <2>6. ~CanDeriveBits => sharedKeys' = sharedKeys
    BY <2>1
  <2>7. PairInv'
    BY <2>2, <2>3, <2>5, <2>6 DEF PairInv, Sound
  <2>8. SealedInv'
    BY <2>2, <2>3, <2>4, <2>5 DEF SealedInv, Sound
  <2> QED
    BY <2>7, <2>8
<1>4. CASE Join(u)
  <2>1. phase'[u] = "joined" /\ phase[u] = "opening" /\ \A w \in User \ {u} : phase'[w] = phase[w]
    BY <1>4 DEF Join, TypeOK
  <2>2. \A v \in User : restoring[u][v] = None
    BY <1>4 DEF Join, Nowhere
  <2>3. UNCHANGED <<keyPair, savedPair, savedPeers, sharedKeys, restoring, sealed, wiped, full>>
    BY <1>4 DEF Join
  <2>4. published'[u] = savedPair[u] /\ \A w \in User \ {u} : published'[w] = published[w]
    BY <1>4, AnnouncesOne DEF Join
  <2>5. keyPair[u] # None
    BY <2>1 DEF RestoreInv
  <2>6. PairInv'
    BY <2>1, <2>3, <2>4, <2>5 DEF PairInv, Sound
  <2>7. SealedInv'
    BY <2>1, <2>2, <2>3 DEF SealedInv, Sound
  <2> QED
    BY <2>6, <2>7
<1>5. CASE Lose(u)
  <2>1. phase'[u] = "closed" /\ \A w \in User \ {u} : phase'[w] = phase[w]
    BY <1>5 DEF Lose, TypeOK
  <2>2. UNCHANGED <<keyPair, savedPair, savedPeers, sharedKeys, restoring, published, sealed, wiped, full>>
    BY <1>5 DEF Lose
  <2> QED
    BY <2>1, <2>2 DEF PairInv, SealedInv, Sound
<1> QED
  BY <1>1, <1>2, <1>3, <1>4, <1>5

\* What a page does keeps PairInv and SealedInv.
LEMMA PageSealed ==
    ASSUME TypeOK, RestoreInv, PairInv, SealedInv, NEW u \in User,
           \/ Reload(u) \/ NewTab(u) \/ Wipe(u) \/ UserList(u) \/ Imported(u)
           \/ \E v \in User : SendDM(u, v)
    PROVE  PairInv' /\ SealedInv'
<1> USE DEF storage, hubVars, history
<1>1. ASSUME Forgets(u)
      PROVE  /\ phase'[u] = "closed" /\ keyPair'[u] = None /\ published' = published
             /\ \A v \in User : sharedKeys'[u][v] = NoShared
             /\ \A w \in User \ {u} :
                   /\ phase'[w] = phase[w] /\ keyPair'[w] = keyPair[w]
                   /\ sharedKeys'[w] = sharedKeys[w] /\ restoring'[w] = restoring[w]
  BY <1>1 DEF Forgets, TypeOK
<1>2. CASE Reload(u)
  <2>1. Forgets(u) /\ UNCHANGED <<savedPair, savedPeers, sealed, wiped, full>>
    BY <1>2 DEF Reload
  <2> QED
    BY <1>1, <2>1 DEF PairInv, SealedInv, Sound
<1>3. CASE NewTab(u)
  <2>1. /\ Forgets(u) /\ wiped' = wiped \ {u} /\ full' = full \ {u}
        /\ \A v \in User : v \notin sealed'[u]
    BY <1>3 DEF NewTab, TypeOK
  <2>2. \A w \in User \ {u} : /\ savedPair'[w] = savedPair[w] /\ savedPeers'[w] = savedPeers[w]
                              /\ sealed'[w] = sealed[w]
    BY <1>3 DEF NewTab, TypeOK
  <2> QED
    BY <1>1, <2>1, <2>2 DEF PairInv, SealedInv, Sound
<1>4. CASE Wipe(u)
  <2>1. wiped' = wiped \cup {u}
        /\ UNCHANGED <<keyPair, sharedKeys, restoring, published, sealed, full>>
    BY <1>4 DEF Wipe
  <2>2. \A w \in User \ {u} : /\ phase'[w] = phase[w] /\ savedPair'[w] = savedPair[w]
                              /\ savedPeers'[w] = savedPeers[w]
    BY <1>4 DEF Wipe, TypeOK
  <2> QED
    BY <2>1, <2>2 DEF PairInv, SealedInv, Sound
<1>5. CASE UserList(u)
  BY <1>5 DEF UserList, PairInv, SealedInv, Sound
<1>6. CASE Imported(u)
  <2>1. PICK i \in importing[u] :
           \/ /\ CanDeriveBits
              /\ sharedKeys' = [sharedKeys EXCEPT ![u][i.user] = [own |-> keyPair[u], of |-> i.key]]
              /\ Saves(u, i.user, i.key)
           \/ ~CanDeriveBits /\ UNCHANGED <<sharedKeys, savedPeers, full>>
    BY <1>6 DEF Imported
  <2>2. UNCHANGED <<phase, keyPair, savedPair, restoring, published, sealed, wiped>>
    BY <1>6 DEF Imported
  <2>3. CASE UNCHANGED <<sharedKeys, savedPeers, full>>
    BY <2>2, <2>3 DEF PairInv, SealedInv, Sound
  <2>4. CASE /\ sharedKeys' = [sharedKeys EXCEPT ![u][i.user] = [own |-> keyPair[u], of |-> i.key]]
             /\ Saves(u, i.user, i.key)
    <3>1. i.user \in User /\ i.key \in 1..MaxPairs /\ keyPair[u] \in 1..MaxPairs
      BY PairType DEF TypeOK, Import, RestoreInv
    <3>2. i.key # None /\ [own |-> keyPair[u], of |-> i.key] # NoShared
      BY <3>1, SharedType, BoundAssumption DEF None
    <3>3. /\ u \notin full' => savedPeers'[u][i.user] # None
          /\ sharedKeys'[u][i.user] # NoShared
          /\ sharedKeys'[u][i.user].own = keyPair[u]
          /\ full \subseteq full'
      BY <2>4, <3>1, <3>2 DEF TypeOK, Saves
    <3>4. \A w, x \in User : w # u \/ x # i.user =>
             savedPeers'[w][x] = savedPeers[w][x] /\ sharedKeys'[w][x] = sharedKeys[w][x]
      BY <2>4, <3>1 DEF TypeOK, Saves
    <3>5. PairInv'
      BY <2>2, <3>3, <3>4 DEF PairInv, Sound
    <3>6. SealedInv'
      BY <2>2, <3>3, <3>4 DEF SealedInv, Sound
    <3> QED
      BY <3>5, <3>6
  <2> QED
    BY <2>1, <2>3, <2>4
<1>7. ASSUME NEW v \in User, SendDM(u, v)
      PROVE  PairInv' /\ SealedInv'
  <2>1. UNCHANGED <<phase, keyPair, savedPair, savedPeers, sharedKeys, restoring, published, wiped, full>>
    BY <1>7 DEF SendDM
  <2>2. \A w, x \in User : x \in sealed'[w] => x \in sealed[w] \/ (w = u /\ x = v)
    BY <1>7 DEF SendDM, TypeOK
  <2>3. sharedKeys[u][v] # NoShared /\ phase[u] = "joined" /\ CanDeriveBits /\ keyPair[u] # None
    BY <1>7 DEF SendDM, RestoreInv
  <2>4. u \in Sound => savedPair[u] # None /\ savedPeers[u][v] # None
    BY <2>3 DEF PairInv, SealedInv
  <2>5. PairInv'
    BY <2>1 DEF PairInv, Sound
  <2>6. SealedInv'
    BY <2>1, <2>2, <2>3, <2>4 DEF SealedInv, Sound
  <2> QED
    BY <2>5, <2>6
<1> QED
  BY <1>2, <1>3, <1>4, <1>5, <1>6, <1>7

(***************************************************************************)
(* The theorems                                                            *)
(***************************************************************************)

\* The initial states satisfy the invariants.
LEMMA InitInv == Init => IInv
<1> SUFFICES ASSUME Init PROVE IInv
  OBVIOUS
<1>1. <<>> \in Seq([User -> PairOrNone]) /\ 0 \in 0..MaxOpens
  BY BoundAssumption
<1>2. \A u \in User : Nowhere[u] = None
  BY DEF Nowhere
<1>3. TypeOK
  BY <1>1, NowhereType DEF Init, TypeOK
<1>4. RestoreInv /\ FingerprintIsOfKeyInUse
  BY <1>2 DEF Init, RestoreInv, FingerprintIsOfKeyInUse, Fingerprint
<1>5. PairInv /\ SealedInv
  BY <1>2 DEF Init, PairInv, SealedInv, Sound
<1> QED
  BY <1>3, <1>4, <1>5 DEF IInv

\* The inductive invariant: what is saved, restored, imported and shared fits
\* together through reconnections, reloads, new tabs and wipes.
THEOREM KeysInvariant == Spec => []IInv
<1>1. Init => IInv
  BY InitInv
<1>2. IInv /\ [Next]_vars => IInv'
  <2> SUFFICES ASSUME IInv, [Next]_vars
               PROVE  IInv'
    OBVIOUS
  <2>1. CASE UNCHANGED vars
    BY <2>1 DEF vars, IInv, TypeOK, RestoreInv, FingerprintIsOfKeyInUse, Fingerprint,
                PairInv, SealedInv, Sound
  <2>2. ASSUME NEW u \in User,
               Unregister(u) \/ Open(u) \/ Restore(u) \/ Join(u) \/ Lose(u)
        PROVE  IInv'
    BY <2>2, ConnectionType, ConnectionRestore, ConnectionSealed DEF IInv
  <2>3. ASSUME NEW u \in User,
               \/ Reload(u) \/ NewTab(u) \/ Wipe(u) \/ UserList(u) \/ Imported(u)
               \/ \E v \in User : SendDM(u, v)
        PROVE  IInv'
    BY <2>3, PageType, PageRestore, PageSealed DEF IInv
  <2> QED
    BY <2>1, <2>2, <2>3 DEF Next
<1> QED
  BY <1>1, <1>2, PTL DEF Spec

\* The variables of all browsers and the hub keep their types.
THEOREM TypeCorrect == Spec => []TypeOK
BY KeysInvariant, PTL DEF IInv

\* The fingerprint shown is that of the key messages are encrypted with.
THEOREM FingerprintIsOfKeyInUseHolds == Spec => []FingerprintIsOfKeyInUse
BY KeysInvariant, PTL DEF IInv

\* A tab that was not wiped and saved its keys has a key of everyone it has sent
\* an encrypted text, whenever the hub listens.
THEOREM KeyIsKeptHolds == Spec => []KeyIsKept
<1>1. IInv => KeyIsKept
  BY DEF IInv, TypeOK, SealedInv, Sound, KeyIsKept
<1> QED
  BY <1>1, KeysInvariant, PTL

\* Such a tab encrypts with shared keys of the pair it has published.
THEOREM SealsWithPublishedHolds == Spec => []SealsWithPublished
<1>1. IInv => SealsWithPublished
  BY DEF IInv, PairInv, Sound, SealsWithPublished
<1> QED
  BY <1>1, KeysInvariant, PTL
=============================================================================
