------------------------- MODULE MessageStoreProofs -------------------------
(***************************************************************************)
(* Ids stay in order over evictions, rewrites, lost writes and restarts,   *)
(* an id names one message, and what a rewrite leaves behind is a prefix   *)
(* of the slice, for every bound.                                          *)
(***************************************************************************)
EXTENDS MessageStore, SequenceTheorems, TLAPS

\* A rewrite has only written messages older than those still to come.
RewriteInOrder ==
    rewriting # 0 => \A i \in DOMAIN disk, j \in DOMAIN messages :
        j >= rewriting => disk[i].id < messages[j].id

\* A process that has ended rewrites nothing.
StoppedIsIdle == ~running => rewriting = 0

IdInv == TypeOK /\ IdsIncrease /\ RewriteInOrder /\ StoppedIsIdle

\* An entry read from a sequence has a positive id.
LEMMA EntriesHaveIds ==
    ASSUME NEW s \in Seq(Entry), NEW i \in DOMAIN s
    PROVE  s[i] \in Entry /\ s[i].id \in Nat /\ s[i].id > 0
<1>1. s[i] \in Entry
  OBVIOUS
<1> QED
  BY <1>1 DEF Entry

\* evictOldLocked returns the end of the slice.
LEMMA EvictIsSuffix ==
    ASSUME NEW s \in Seq(Entry)
    PROVE  /\ Evict(s) \in Seq(Entry)
           /\ Len(Evict(s)) <= Len(s)
           /\ \A i \in DOMAIN Evict(s) :
                  Evict(s)[i] = s[i + (Len(s) - Len(Evict(s)))]
<1> USE BoundAssumption
<1>1. CASE Len(s) > MaxMemory
  <2>1. Evict(s) = SubSeq(s, Len(s) - MaxMemory + 1, Len(s))
    BY <1>1 DEF Evict
  <2> QED
    BY <1>1, <2>1
<1>2. CASE ~(Len(s) > MaxMemory)
  BY <1>2 DEF Evict
<1> QED
  BY <1>1, <1>2

\* The id after the highest one of an ordered file is above all of them.
LEMMA NextAfterIsAbove ==
    ASSUME NEW s \in Seq(Entry), Increasing(s)
    PROVE  /\ NextAfter(s) \in Nat \ {0}
           /\ \A i \in DOMAIN s : s[i].id < NextAfter(s)
<1>1. CASE s = <<>>
  BY <1>1 DEF NextAfter
<1>2. CASE s # <<>>
  <2> DEFINE ids == {s[i].id : i \in DOMAIN s}
             last == s[Len(s)].id
  <2>1. /\ Len(s) \in DOMAIN s
        /\ \A i \in DOMAIN s : i <= Len(s) /\ s[i].id \in Nat /\ s[i].id > 0
    BY <1>2, EntriesHaveIds
  <2>2. \A x \in ids : x \in Nat /\ x <= last
    BY <2>1 DEF Increasing
  <2>3. last \in ids
    BY <2>1
  <2>4. Max(ids) \in ids /\ \A x \in ids : x <= Max(ids)
    <3> HIDE DEF ids, last
    <3> QED
      BY <2>2, <2>3 DEF Max
  <2>5. NextAfter(s) = Max(ids) + 1
    BY <1>2 DEF NextAfter
  <2>6. \A i \in DOMAIN s : s[i].id \in ids
    OBVIOUS
  <2> HIDE DEF ids, last
  <2>7. Max(ids) \in Nat
    BY <2>2, <2>4
  <2> QED
    BY <2>1, <2>4, <2>5, <2>6, <2>7
<1> QED
  BY <1>1, <1>2

\* Appending a message with a higher id keeps the order.
LEMMA AppendInOrder ==
    ASSUME NEW s \in Seq(Entry), Increasing(s), NEW e \in Entry,
           \A i \in DOMAIN s : s[i].id < e.id
    PROVE  /\ Append(s, e) \in Seq(Entry)
           /\ Increasing(Append(s, e))
           /\ \A i \in DOMAIN Append(s, e) : Append(s, e)[i].id <= e.id
<1>1. e.id \in Nat /\ \A i \in DOMAIN s : s[i].id \in Nat
  BY EntriesHaveIds DEF Entry
<1>2. /\ Append(s, e) \in Seq(Entry)
      /\ DOMAIN Append(s, e) = 1..(Len(s) + 1)
      /\ Append(s, e)[Len(s) + 1] = e
      /\ \A i \in DOMAIN s : Append(s, e)[i] = s[i]
      /\ DOMAIN s = 1..Len(s) /\ Len(s) \in Nat
  OBVIOUS
<1> DEFINE t == Append(s, e)
<1> HIDE DEF t
<1>3. \A i \in DOMAIN t : i = Len(s) + 1 \/ i \in DOMAIN s
  BY <1>2 DEF t
<1>4. Increasing(t)
  <2> SUFFICES ASSUME NEW i \in DOMAIN t, NEW j \in DOMAIN t, i < j
               PROVE  t[i].id < t[j].id
    BY DEF Increasing
  <2>1. i \in DOMAIN s
    BY <1>2, <1>3 DEF t
  <2>2. CASE j \in DOMAIN s
    BY <1>2, <2>1, <2>2 DEF t, Increasing
  <2>3. CASE j = Len(s) + 1
    BY <1>2, <2>1, <2>3 DEF t
  <2> QED
    BY <1>3, <2>2, <2>3
<1>5. \A i \in DOMAIN t : t[i].id <= e.id
  BY <1>1, <1>2, <1>3 DEF t
<1> QED
  BY <1>2, <1>4, <1>5 DEF t

\* Eviction keeps the order.
LEMMA EvictInOrder ==
    ASSUME NEW s \in Seq(Entry), Increasing(s), NEW n \in Nat,
           \A i \in DOMAIN s : s[i].id < n
    PROVE  /\ Evict(s) \in Seq(Entry)
           /\ Increasing(Evict(s))
           /\ \A i \in DOMAIN Evict(s) : Evict(s)[i].id < n
<1> DEFINE t == Evict(s)
           d == Len(s) - Len(t)
<1>1. /\ t \in Seq(Entry) /\ Len(t) <= Len(s)
      /\ \A i \in DOMAIN t : t[i] = s[i + d]
  BY EvictIsSuffix
<1> HIDE DEF t
<1>0. /\ Len(s) \in Nat /\ DOMAIN s = 1..Len(s)
      /\ Len(t) \in Nat /\ DOMAIN t = 1..Len(t)
  BY <1>1
<1>2. \A i \in DOMAIN t : i \in Nat /\ i + d \in DOMAIN s
  BY <1>0, <1>1
<1>3. d \in Nat
  BY <1>0, <1>1
<1>4. Increasing(t)
  <2> HIDE DEF d
  <2> SUFFICES ASSUME NEW i \in DOMAIN t, NEW j \in DOMAIN t, i < j
               PROVE  t[i].id < t[j].id
    BY DEF Increasing
  <2>1. i + d < j + d
    BY <1>2, <1>3
  <2>2. s[i + d].id < s[j + d].id
    BY <1>2, <2>1 DEF Increasing
  <2> QED
    BY <1>1, <2>2
<1>5. \A i \in DOMAIN t : t[i].id < n
  BY <1>1, <1>2
<1> QED
  BY <1>1, <1>4, <1>5 DEF t

\* A saved message gets an id above all before it.
LEMMA SaveStep ==
    ASSUME NEW k \in Key, Save(k), IdInv
    PROVE  IdInv'
<1> DEFINE e == [id |-> nextID, key |-> k, status |-> NoStatus]
           longer == Append(messages, e)
<1>1. TypeOK /\ running /\ rewriting = 0
  BY DEF IdInv, Save, Unlocked
<1>2. messages \in Seq(Entry) /\ disk \in Seq(Entry) /\ nextID \in Nat /\ nextID > 0
  BY <1>1 DEF TypeOK
<1>3. /\ Increasing(messages) /\ \A i \in DOMAIN messages : messages[i].id < nextID
      /\ Increasing(disk) /\ \A i \in DOMAIN disk : disk[i].id < nextID
  BY <1>1 DEF IdInv, IdsIncrease
<1>4. e \in Entry /\ e.id = nextID
  BY <1>2 DEF Entry
<1>5. messages' = Evict(longer) /\ nextID' = nextID + 1 /\ rewriting' = 0 /\ running'
  BY <1>1 DEF Save, process
<1>6. /\ longer \in Seq(Entry) /\ Increasing(longer)
      /\ \A i \in DOMAIN longer : longer[i].id <= nextID
      /\ \A i \in DOMAIN longer : longer[i].id \in Nat
  <2> HIDE DEF e
  <2>1. /\ longer \in Seq(Entry) /\ Increasing(longer)
        /\ \A i \in DOMAIN longer : longer[i].id <= e.id
    BY <1>2, <1>3, <1>4, AppendInOrder
  <2> HIDE DEF longer
  <2> QED
    BY <1>4, <2>1, EntriesHaveIds
<1>7. /\ messages' \in Seq(Entry)
      /\ Increasing(messages')
      /\ \A i \in DOMAIN messages' : messages'[i].id < nextID'
  <2> HIDE DEF longer
  <2>1. nextID' \in Nat /\ \A i \in DOMAIN longer : longer[i].id < nextID'
    BY <1>2, <1>5, <1>6
  <2> QED
    BY <1>5, <1>6, <2>1, EvictInOrder
<1>8. disk' = disk \/ disk' = Append(disk, e)
  BY DEF Save, AppendToDisk, contents
<1>9. /\ disk' \in Seq(Entry)
      /\ Increasing(disk')
      /\ \A i \in DOMAIN disk' : disk'[i].id < nextID'
  <2>1. CASE disk' = disk
    BY <1>2, <1>3, <1>5, <2>1, EntriesHaveIds
  <2>2. CASE disk' = Append(disk, e)
    <3> HIDE DEF e
    <3>1. /\ disk' \in Seq(Entry) /\ Increasing(disk')
          /\ \A i \in DOMAIN disk' : disk'[i].id <= e.id
      BY <1>2, <1>3, <1>4, <2>2, AppendInOrder
    <3> QED
      BY <1>2, <1>4, <1>5, <3>1, EntriesHaveIds
  <2> QED
    BY <1>8, <2>1, <2>2
<1>10. /\ stopping' = stopping /\ crashes' = crashes /\ file' = file
       /\ saved' = saved \cup {k}
  BY DEF Save, process
<1>11. corrupt' \in BOOLEAN /\ partial' \in BOOLEAN /\ errors' \in Nat
  <2>1. AppendToDisk(e)
    BY DEF Save
  <2>2. corrupt \in BOOLEAN /\ partial \in BOOLEAN /\ errors \in Nat
    BY <1>1 DEF TypeOK
  <2> HIDE DEF e
  <2>3. errors' \in Nat
    <3>1. errors' = errors \/ errors' = errors + 1
      BY <2>1 DEF AppendToDisk, Fails, Works
    <3> QED
      BY <2>2, <3>1
  <2>4. corrupt' = corrupt \/ corrupt' = TRUE
    BY <2>1 DEF AppendToDisk, contents
  <2>5. partial' = partial \/ partial' = TRUE \/ partial' = FALSE
    BY <2>1 DEF AppendToDisk, contents
  <2> QED
    BY <2>2, <2>3, <2>4, <2>5
<1>12. TypeOK'
  BY <1>1, <1>2, <1>5, <1>7, <1>9, <1>10, <1>11 DEF TypeOK
<1> QED
  BY <1>5, <1>7, <1>9, <1>12 DEF IdInv, IdsIncrease, RewriteInOrder, StoppedIsIdle

\* A status changes no id, and the truncated file is in order.
LEMMA UpdateStep ==
    ASSUME NEW k \in DM, NEW status \in Status, UpdateDMStatus(k, status), IdInv
    PROVE  IdInv'
<1>1. TypeOK /\ running /\ rewriting = 0
  BY DEF IdInv, UpdateDMStatus, Unlocked
<1>2. PICK i \in DOMAIN messages : messages' = [messages EXCEPT ![i].status = status]
  BY DEF UpdateDMStatus
<1>3. messages \in Seq(Entry) /\ disk \in Seq(Entry)
  BY <1>1 DEF TypeOK
<1>4. /\ messages' \in Seq(Entry)
      /\ DOMAIN messages' = DOMAIN messages
      /\ \A j \in DOMAIN messages : messages'[j].id = messages[j].id
  <2> DEFINE f == [messages[i] EXCEPT !.status = status]
  <2>1. messages[i] \in Entry
    BY <1>3
  <2>2. f \in Entry /\ f.id = messages[i].id
    BY <2>1 DEF Entry
  <2>3. messages' = [messages EXCEPT ![i] = f]
    BY <1>2
  <2> HIDE DEF f
  <2> QED
    BY <1>3, <2>2, <2>3
<1>5. /\ nextID' = nextID /\ running' = running /\ stopping' = stopping
      /\ crashes' = crashes /\ saved' = saved /\ file' = "closed"
  BY DEF UpdateDMStatus, process
<1>6. \/ /\ disk' = <<>> /\ corrupt' = FALSE /\ partial' = FALSE
         /\ rewriting' = 1 /\ errors' = errors
      \/ /\ disk' = disk /\ corrupt' = corrupt /\ partial' = partial
         /\ rewriting' = rewriting /\ errors' = errors + 1
  BY DEF UpdateDMStatus, contents, Fails, Works
<1>7. Increasing(messages') /\ \A j \in DOMAIN messages' : messages'[j].id < nextID'
  BY <1>4, <1>5 DEF IdInv, IdsIncrease, Increasing
<1>8. /\ Increasing(disk') /\ disk' \in Seq(Entry)
      /\ \A j \in DOMAIN disk' : disk'[j].id < nextID'
  <2>1. Increasing(<<>>) /\ <<>> \in Seq(Entry) /\ DOMAIN <<>> = {}
    BY DEF Increasing
  <2>2. Increasing(disk) /\ \A j \in DOMAIN disk : disk[j].id < nextID
    BY <1>1 DEF IdInv, IdsIncrease
  <2> QED
    BY <1>3, <1>5, <1>6, <2>1, <2>2
<1>9. RewriteInOrder'
  <2>1. CASE rewriting' = 0
    BY <2>1 DEF RewriteInOrder
  <2>2. CASE disk' = <<>>
    BY <2>2 DEF RewriteInOrder
  <2> QED
    BY <1>1, <1>6, <2>1, <2>2
<1>10. TypeOK'
  <2>1. /\ nextID \in Nat \ {0} /\ running \in BOOLEAN /\ stopping \in BOOLEAN
        /\ crashes \in Nat /\ saved \subseteq Key /\ errors \in Nat
        /\ corrupt \in BOOLEAN /\ partial \in BOOLEAN
    BY <1>1 DEF TypeOK
  <2>2. rewriting' \in Nat /\ errors' \in Nat
    BY <1>1, <1>6, <2>1
  <2>3. corrupt' \in BOOLEAN /\ partial' \in BOOLEAN
    BY <1>6, <2>1
  <2>4. file' \in {"open", "closed"}
    BY <1>5
  <2> QED
    BY <1>4, <1>5, <1>8, <2>1, <2>2, <2>3, <2>4 DEF TypeOK
<1> QED
  BY <1>1, <1>5, <1>7, <1>8, <1>9, <1>10 DEF IdInv, IdsIncrease, StoppedIsIdle

\* The next line of the rewrite is above those written.
LEMMA RewriteStep ==
    ASSUME RewriteLine, IdInv
    PROVE  IdInv'
<1> DEFINE e == messages[rewriting]
<1>1. /\ rewriting \in DOMAIN messages /\ rewriting' = rewriting + 1
      /\ disk' = Append(disk, e) /\ running
      /\ running' = running /\ stopping' = stopping /\ crashes' = crashes
      /\ messages' = messages /\ nextID' = nextID /\ file' = file
      /\ corrupt' = corrupt /\ partial' = partial /\ saved' = saved
      /\ errors' = errors
  BY DEF RewriteLine, process
<1>2. TypeOK /\ IdsIncrease /\ RewriteInOrder /\ StoppedIsIdle
  BY DEF IdInv
<1>3. messages \in Seq(Entry) /\ disk \in Seq(Entry) /\ rewriting \in Nat /\ nextID \in Nat
  BY <1>2 DEF TypeOK
<1>4. rewriting # 0 /\ rewriting >= rewriting
  BY <1>1, <1>3
<1>5. e \in Entry /\ e.id \in Nat /\ e.id < nextID
  BY <1>1, <1>2, <1>3, EntriesHaveIds DEF IdsIncrease
<1>6. \A i \in DOMAIN disk : disk[i].id < e.id
  BY <1>1, <1>2, <1>4 DEF RewriteInOrder
<1>7. Increasing(disk)
  BY <1>2 DEF IdsIncrease
<1> HIDE DEF e
<1>8. /\ disk' \in Seq(Entry) /\ Increasing(disk')
      /\ \A i \in DOMAIN disk' : disk'[i].id <= e.id
  BY <1>1, <1>3, <1>5, <1>6, <1>7, AppendInOrder
<1>9. \A i \in DOMAIN disk' : disk'[i].id \in Nat
  BY <1>8, EntriesHaveIds
<1>10. \A i \in DOMAIN disk' : disk'[i].id < nextID'
  BY <1>1, <1>3, <1>5, <1>8, <1>9
<1>11. RewriteInOrder'
  <2> SUFFICES ASSUME NEW i \in DOMAIN disk', NEW j \in DOMAIN messages, j >= rewriting + 1
               PROVE  disk'[i].id < messages[j].id
    BY <1>1 DEF RewriteInOrder
  <2>1. e.id < messages[j].id
    <3>1. rewriting < j
      BY <1>3
    <3> QED
      BY <1>1, <1>2, <3>1 DEF IdsIncrease, Increasing, e
  <2>2. messages[j].id \in Nat
    BY <1>3, EntriesHaveIds
  <2> QED
    BY <1>5, <1>8, <1>9, <2>1, <2>2
<1>12. TypeOK'
  BY <1>1, <1>2, <1>3, <1>8 DEF TypeOK
<1> QED
  BY <1>1, <1>2, <1>8, <1>10, <1>11, <1>12 DEF IdInv, IdsIncrease, StoppedIsIdle

\* loadFromDisk takes what the file holds and continues above it.
LEMMA StartStep ==
    ASSUME Start, IdInv
    PROVE  IdInv'
<1>1. TypeOK /\ Increasing(disk) /\ rewriting = 0
  BY DEF IdInv, IdsIncrease, StoppedIsIdle, Start
<1>2. disk \in Seq(Entry)
  BY <1>1 DEF TypeOK
<1>3. /\ messages' = disk /\ disk' = disk /\ nextID' = NextAfter(disk)
      /\ rewriting' = rewriting /\ running' = TRUE /\ file' = "open"
      /\ stopping' = stopping /\ corrupt' = corrupt /\ partial' = partial
      /\ saved' = saved /\ crashes' = crashes /\ errors' = errors
  BY DEF Start, contents
<1>4. /\ nextID' \in Nat \ {0}
      /\ \A i \in DOMAIN disk : disk[i].id < nextID'
  BY <1>1, <1>2, <1>3, NextAfterIsAbove
<1>5. TypeOK'
  BY <1>1, <1>2, <1>3, <1>4 DEF TypeOK
<1> QED
  BY <1>1, <1>3, <1>4, <1>5 DEF IdInv, IdsIncrease, RewriteInOrder, StoppedIsIdle

\* The process ends: only the file counts.
LEMMA EndStep ==
    ASSUME Exit \/ Crash, IdInv
    PROVE  IdInv'
<1>1. Ends /\ crashes' \in Nat
  BY DEF Exit, Crash, IdInv, TypeOK
<1>2. /\ running' = FALSE /\ stopping' = FALSE /\ messages' = <<>> /\ nextID' = 1
      /\ file' = "closed" /\ rewriting' = 0 /\ disk' = disk /\ corrupt' = corrupt
      /\ saved' = saved /\ errors' = errors
  BY <1>1 DEF Ends
<1>3. partial' \in BOOLEAN
  <2>1. partial' = partial \/ partial' \in BOOLEAN
    BY <1>1 DEF Ends
  <2> QED
    BY <2>1 DEF IdInv, TypeOK
<1>4. TypeOK'
  <2>1. /\ disk \in Seq(Entry) /\ corrupt \in BOOLEAN /\ saved \subseteq Key
        /\ errors \in Nat
    BY DEF IdInv, TypeOK
  <2>2. messages' \in Seq(Entry) /\ nextID' \in Nat \ {0} /\ rewriting' \in Nat
    BY <1>2
  <2>3. /\ running' \in BOOLEAN /\ stopping' \in BOOLEAN
        /\ file' \in {"open", "closed"}
    BY <1>2
  <2> QED
    BY <1>1, <1>2, <1>3, <2>1, <2>2, <2>3 DEF TypeOK
<1>5. Increasing(messages')
  BY <1>2 DEF Increasing
<1> QED
  BY <1>2, <1>4, <1>5 DEF IdInv, IdsIncrease, RewriteInOrder, StoppedIsIdle

\* A rewrite that stops or ends, and Close, change neither ids nor the order.
LEMMA OtherStep ==
    ASSUME RewriteStops \/ RewriteEnds \/ Close, IdInv
    PROVE  IdInv'
<1>1. /\ messages' = messages /\ nextID' = nextID /\ disk' = disk
      /\ running' = running /\ running /\ saved' = saved /\ crashes' = crashes
      /\ corrupt' = corrupt
  BY DEF RewriteStops, RewriteEnds, Close, process, contents
<1>2. rewriting' = rewriting \/ rewriting' = 0 \/ rewriting' = Len(messages) + 1
  BY DEF RewriteStops, RewriteEnds, Close
<1>3. /\ stopping' \in BOOLEAN /\ partial' \in BOOLEAN /\ errors' \in Nat
      /\ file' \in {"open", "closed"}
  <2>1. /\ stopping \in BOOLEAN /\ partial \in BOOLEAN /\ errors \in Nat
        /\ file \in {"open", "closed"}
    BY DEF IdInv, TypeOK
  <2>2. CASE RewriteStops
    BY <2>1, <2>2 DEF RewriteStops, Fails, process
  <2>3. CASE RewriteEnds
    <3>1. stopping' = stopping /\ partial' = partial
      BY <2>3 DEF RewriteEnds, process, contents
    <3>2. /\ errors' = errors \/ errors' = errors + 1
          /\ file' = file \/ file' = "open"
      BY <2>3 DEF RewriteEnds, Fails, Works
    <3> QED
      BY <2>1, <3>1, <3>2
  <2>4. CASE Close
    BY <2>1, <2>4 DEF Close, contents
  <2> QED
    BY <2>2, <2>3, <2>4
<1>4. messages \in Seq(Entry) /\ rewriting \in Nat
  BY DEF IdInv, TypeOK
<1>5. rewriting' \in Nat
  BY <1>2, <1>4
<1>6. TypeOK'
  BY <1>1, <1>3, <1>5 DEF IdInv, TypeOK
<1>7. RewriteInOrder'
  <2>1. \A j \in DOMAIN messages : ~(j >= Len(messages) + 1)
    BY <1>4
  <2> QED
    BY <1>1, <1>2, <2>1 DEF IdInv, RewriteInOrder
<1> QED
  BY <1>1, <1>6, <1>7 DEF IdInv, IdsIncrease, StoppedIsIdle

\* Every step keeps the ids in order.
THEOREM IdInvariant == Spec => []IdInv
<1>1. Init => IdInv
  <2> SUFFICES ASSUME Init PROVE IdInv
    OBVIOUS
  <2>1. messages = <<>> /\ disk = <<>> /\ rewriting = 0
    BY DEF Init
  <2>2. TypeOK
    <3>1. messages \in Seq(Entry) /\ disk \in Seq(Entry)
      BY <2>1
    <3>2. nextID \in Nat \ {0} /\ rewriting \in Nat /\ crashes \in Nat /\ errors \in Nat
      BY DEF Init
    <3>3. /\ running \in BOOLEAN /\ stopping \in BOOLEAN
          /\ corrupt \in BOOLEAN /\ partial \in BOOLEAN
          /\ file \in {"open", "closed"} /\ saved \subseteq Key
      BY DEF Init
    <3> QED
      BY <3>1, <3>2, <3>3 DEF TypeOK
  <2> QED
    BY <2>1, <2>2 DEF IdInv, IdsIncrease, Increasing, RewriteInOrder, StoppedIsIdle
<1>2. IdInv /\ [Next]_vars => IdInv'
  <2> SUFFICES ASSUME IdInv, [Next]_vars PROVE IdInv'
    OBVIOUS
  <2>1. CASE \E k \in Key : Save(k)
    BY <2>1, SaveStep
  <2>2. CASE \E k \in DM, status \in Status : UpdateDMStatus(k, status)
    BY <2>2, UpdateStep
  <2>3. CASE RewriteLine
    BY <2>3, RewriteStep
  <2>4. CASE Start
    BY <2>4, StartStep
  <2>5. CASE Exit \/ Crash
    BY <2>5, EndStep
  <2>6. CASE RewriteStops \/ RewriteEnds \/ Close
    BY <2>6, OtherStep
  <2>7. CASE UNCHANGED vars
    BY <2>7 DEF vars, IdInv, TypeOK, IdsIncrease, Increasing, RewriteInOrder, StoppedIsIdle
  <2> QED
    BY <2>1, <2>2, <2>3, <2>4, <2>5, <2>6, <2>7 DEF Next
<1> QED
  BY <1>1, <1>2, PTL DEF Spec

\* Types, for every bound.
THEOREM StoreTypes == Spec => []TypeOK
<1>1. IdInv => TypeOK
  BY DEF IdInv
<1> QED
  BY <1>1, IdInvariant, PTL

\* Ids grow along the slice and the file and stay below the next one, whatever
\* is evicted, rewritten, lost or reloaded.
THEOREM IdsIncreaseHolds == Spec => []IdsIncrease
<1>1. IdInv => IdsIncrease
  BY DEF IdInv
<1> QED
  BY <1>1, IdInvariant, PTL

(***************************************************************************)
(* An id names one message.  Nothing more than the order of the ids is     *)
(* needed: a new id is above those in memory and in the file, and a        *)
(* rewrite writes lines of the slice, in which ids are distinct.           *)
(***************************************************************************)

AgreeInv == IdInv /\ IdsAgree

\* The end of a slice and the slice grown by a new message agree with the file
\* when the slice did.
LEMMA SaveAgrees ==
    ASSUME NEW k \in Key, Save(k), AgreeInv
    PROVE  IdsAgree'
<1> DEFINE e == [id |-> nextID, key |-> k, status |-> NoStatus]
           longer == Append(messages, e)
<1>1. /\ messages \in Seq(Entry) /\ disk \in Seq(Entry) /\ nextID \in Nat /\ nextID > 0
      /\ IdsAgree /\ running
  BY DEF AgreeInv, IdInv, TypeOK, Save, Unlocked
<1>2. /\ \A i \in DOMAIN messages : messages[i].id < nextID
      /\ \A i \in DOMAIN disk : disk[i].id < nextID
  BY <1>1 DEF AgreeInv, IdInv, IdsIncrease
<1>3. e \in Entry /\ e.id = nextID
  BY <1>1 DEF Entry
<1>4. /\ messages' = Evict(longer)
      /\ disk' = disk \/ disk' = Append(disk, e)
  BY DEF Save, AppendToDisk, contents
<1>5. /\ \A i \in DOMAIN messages : messages[i].id \in Nat
      /\ \A i \in DOMAIN disk : disk[i].id \in Nat
  BY <1>1, EntriesHaveIds
<1> HIDE DEF e
<1>6. /\ longer \in Seq(Entry)
      /\ \A i \in DOMAIN longer :
            \/ longer[i] = e
            \/ i \in DOMAIN messages /\ longer[i] = messages[i]
  BY <1>1, <1>3
<1>7. \A j \in DOMAIN disk' :
         \/ disk'[j] = e
         \/ j \in DOMAIN disk /\ disk'[j] = disk[j]
  BY <1>1, <1>3, <1>4
<1> HIDE DEF longer
<1>8. \A i \in DOMAIN messages' : \E l \in DOMAIN longer : messages'[i] = longer[l]
  <2> DEFINE d == Len(longer) - Len(messages')
  <2>1. /\ messages' \in Seq(Entry) /\ Len(messages') <= Len(longer)
        /\ \A i \in DOMAIN messages' : messages'[i] = longer[i + d]
    BY <1>4, <1>6, EvictIsSuffix
  <2>2. \A i \in DOMAIN messages' : i + d \in DOMAIN longer
    BY <1>6, <2>1
  <2> QED
    BY <2>1, <2>2
<1>9. SUFFICES ASSUME NEW i \in DOMAIN messages', NEW j \in DOMAIN disk',
                      messages'[i].id = disk'[j].id
               PROVE  messages'[i].key = disk'[j].key
  BY DEF IdsAgree
<1>10. PICK l \in DOMAIN longer : messages'[i] = longer[l]
  BY <1>8
<1>11. CASE longer[l] = e /\ disk'[j] = e
  BY <1>10, <1>11
<1>12. CASE longer[l] = e /\ j \in DOMAIN disk /\ disk'[j] = disk[j]
  BY <1>1, <1>2, <1>3, <1>5, <1>9, <1>10, <1>12
<1>13. CASE l \in DOMAIN messages /\ longer[l] = messages[l] /\ disk'[j] = e
  BY <1>1, <1>2, <1>3, <1>5, <1>9, <1>10, <1>13
<1>14. CASE /\ l \in DOMAIN messages /\ longer[l] = messages[l]
            /\ j \in DOMAIN disk /\ disk'[j] = disk[j]
  BY <1>1, <1>9, <1>10, <1>14 DEF IdsAgree
<1> QED
  BY <1>6, <1>7, <1>11, <1>12, <1>13, <1>14

\* A status leaves the keys alone, and the truncated file is empty.
LEMMA UpdateAgrees ==
    ASSUME NEW k \in DM, NEW status \in Status, UpdateDMStatus(k, status), AgreeInv
    PROVE  IdsAgree'
<1>1. PICK i \in DOMAIN messages : messages' = [messages EXCEPT ![i].status = status]
  BY DEF UpdateDMStatus
<1>2. messages \in Seq(Entry) /\ IdsAgree
  BY DEF AgreeInv, IdInv, TypeOK
<1>3. /\ DOMAIN messages' = DOMAIN messages
      /\ \A j \in DOMAIN messages :
            messages'[j].id = messages[j].id /\ messages'[j].key = messages[j].key
  <2>1. messages[i] \in Entry
    BY <1>2
  <2>2. [messages[i] EXCEPT !.status = status].id = messages[i].id
    BY <2>1 DEF Entry
  <2>3. [messages[i] EXCEPT !.status = status].key = messages[i].key
    BY <2>1 DEF Entry
  <2> QED
    BY <1>1, <1>2, <2>2, <2>3
<1>4. disk' = <<>> \/ disk' = disk
  BY DEF UpdateDMStatus, contents
<1>5. CASE disk' = <<>>
  BY <1>5 DEF IdsAgree
<1>6. CASE disk' = disk
  BY <1>2, <1>3, <1>6 DEF IdsAgree
<1> QED
  BY <1>4, <1>5, <1>6

\* The line a rewrite adds is one of the slice, where an id occurs once.
LEMMA RewriteAgrees ==
    ASSUME RewriteLine, AgreeInv
    PROVE  IdsAgree'
<1> DEFINE e == messages[rewriting]
<1>1. /\ rewriting \in DOMAIN messages /\ disk' = Append(disk, e)
      /\ messages' = messages
  BY DEF RewriteLine
<1>2. /\ messages \in Seq(Entry) /\ disk \in Seq(Entry)
      /\ Increasing(messages) /\ IdsAgree
  BY DEF AgreeInv, IdInv, TypeOK, IdsIncrease
<1>3. \A i \in DOMAIN messages : messages[i].id = e.id => i = rewriting
  <2>1. \A i \in DOMAIN messages : messages[i].id \in Nat /\ i \in Nat
    BY <1>2, EntriesHaveIds
  <2> QED
    BY <1>1, <1>2, <2>1 DEF Increasing
<1>4. \A j \in DOMAIN disk' :
         \/ disk'[j] = e
         \/ j \in DOMAIN disk /\ disk'[j] = disk[j]
  <2> HIDE DEF e
  <2> QED
    BY <1>1, <1>2
<1> QED
  BY <1>1, <1>2, <1>3, <1>4 DEF IdsAgree

\* A start copies the file, in which an id occurs once, and an end forgets the
\* slice.
LEMMA RestartAgrees ==
    ASSUME Start \/ Exit \/ Crash, AgreeInv
    PROVE  IdsAgree'
<1>1. CASE Start
  <2>1. messages' = disk /\ disk' = disk
    BY <1>1 DEF Start, contents
  <2>2. disk \in Seq(Entry) /\ Increasing(disk)
    BY DEF AgreeInv, IdInv, TypeOK, IdsIncrease
  <2>3. \A i, j \in DOMAIN disk : disk[i].id = disk[j].id => i = j
    <3>1. \A i \in DOMAIN disk : disk[i].id \in Nat /\ i \in Nat
      BY <2>2, EntriesHaveIds
    <3> QED
      BY <2>2, <3>1 DEF Increasing
  <2> QED
    BY <2>1, <2>3 DEF IdsAgree
<1>2. CASE Exit \/ Crash
  <2>1. messages' = <<>>
    BY <1>2 DEF Exit, Crash, Ends
  <2> QED
    BY <2>1 DEF IdsAgree
<1> QED
  BY <1>1, <1>2

\* An id names the same message in memory and in the file, even after lost
\* writes and restarts that reuse ids, for every bound.
THEOREM IdsAgreeHolds == Spec => []IdsAgree
<1>1. Init => IdsAgree
  BY DEF Init, IdsAgree
<1>2. IdInv /\ IdsAgree /\ [Next]_vars => IdsAgree'
  <2> SUFFICES ASSUME AgreeInv, [Next]_vars PROVE IdsAgree'
    BY DEF AgreeInv
  <2>1. CASE \E k \in Key : Save(k)
    BY <2>1, SaveAgrees
  <2>2. CASE \E k \in DM, status \in Status : UpdateDMStatus(k, status)
    BY <2>2, UpdateAgrees
  <2>3. CASE RewriteLine
    BY <2>3, RewriteAgrees
  <2>4. CASE Start \/ Exit \/ Crash
    BY <2>4, RestartAgrees
  <2>5. CASE RewriteStops \/ RewriteEnds \/ Close
    <3>1. messages' = messages /\ disk' = disk
      BY <2>5 DEF RewriteStops, RewriteEnds, Close, contents
    <3> QED
      BY <3>1 DEF AgreeInv, IdsAgree
  <2>6. CASE UNCHANGED vars
    BY <2>6 DEF vars, AgreeInv, IdsAgree
  <2> QED
    BY <2>1, <2>2, <2>3, <2>4, <2>5, <2>6 DEF Next
<1> QED
  BY <1>1, <1>2, IdInvariant, PTL DEF Spec

(***************************************************************************)
(* The file and the slice.  The two theorems share one invariant: while    *)
(* the file is rewritten it holds the lines written so far, all of them    *)
(* unless an operation failed, and otherwise it ends with the slice as     *)
(* long as nothing was lost.                                               *)
(***************************************************************************)

\* The file of an unfinished rewrite is the start of the slice, and not a line
\* is missing unless a write failed.
RewriteInStep ==
    rewriting # 0 =>
        /\ rewriting <= Len(messages) + 1
        /\ Len(disk) <= Len(messages)
        /\ \A i \in DOMAIN disk : disk[i] = messages[i]
        /\ rewriting \in DOMAIN messages \/ errors = 0 => Len(disk) = rewriting - 1

\* Nobody but a failure, Close and a rewrite leaves the file closed.
OpenWhenSound == Unlocked /\ errors = 0 /\ ~stopping => file = "open"

\* s is the end of t, element by element.
EndsWith(t, s) ==
    /\ Len(s) <= Len(t)
    /\ \A i \in DOMAIN s : s[i] = t[i + (Len(t) - Len(s))]

\* MemoryOnDisk, element by element.
SliceEndsFile ==
    Unlocked /\ errors = 0 /\ ~stopping /\ ~partial /\ ~corrupt =>
        EndsWith(disk, messages)

DiskInv == IdInv /\ RewriteInStep /\ OpenWhenSound /\ SliceEndsFile

\* What IsPrefix and IsSuffix of the community modules say of elements.
LEMMA PrefixByElement ==
    ASSUME NEW S, NEW s \in Seq(S), NEW t \in Seq(S), Len(s) <= Len(t),
           \A i \in DOMAIN s : s[i] = t[i]
    PROVE  IsPrefix(s, t)
<1>1. SubSeq(s, 1, Len(s)) = s
  OBVIOUS
<1>2. SubSeq(t, 1, Len(s)) = s
  <2>1. /\ SubSeq(t, 1, Len(s)) \in Seq(S)
        /\ Len(SubSeq(t, 1, Len(s))) = Len(s)
        /\ \A i \in 1..Len(s) : SubSeq(t, 1, Len(s))[i] = t[i]
    OBVIOUS
  <2> QED
    BY <2>1
<1> QED
  BY <1>1, <1>2 DEF IsPrefix

\* A suffix of a sequence, element by element.
LEMMA SuffixByElement ==
    ASSUME NEW S, NEW s \in Seq(S), NEW t \in Seq(S), EndsWith(t, s)
    PROVE  IsSuffix(s, t)
<1> DEFINE rs == Reverse(s)
           rt == Reverse(t)
           d == Len(t) - Len(s)
<1>1. /\ Len(s) \in Nat /\ Len(t) \in Nat /\ Len(s) <= Len(t)
      /\ \A i \in DOMAIN s : s[i] = t[i + d]
  BY DEF EndsWith
<1>2. /\ rs \in Seq(S) /\ Len(rs) = Len(s)
      /\ \A i \in 1..Len(s) : rs[i] = s[(Len(s) - i) + 1]
  BY DEF Reverse
<1>3. /\ rt \in Seq(S) /\ Len(rt) = Len(t)
      /\ \A i \in 1..Len(t) : rt[i] = t[(Len(t) - i) + 1]
  BY DEF Reverse
<1> HIDE DEF rs, rt
<1>4. ASSUME NEW i \in DOMAIN rs PROVE rs[i] = rt[i]
  <2>1. i \in 1..Len(s) /\ i \in 1..Len(t)
    BY <1>1, <1>2
  <2> DEFINE j == (Len(s) - i) + 1
  <2>2. j \in DOMAIN s /\ j + d = (Len(t) - i) + 1
    BY <1>1, <2>1
  <2>3. rs[i] = s[j] /\ rt[i] = t[j + d]
    BY <1>2, <1>3, <2>1, <2>2
  <2> QED
    BY <1>1, <2>2, <2>3
<1>5. IsPrefix(rs, rt)
  BY <1>1, <1>2, <1>3, <1>4, PrefixByElement
<1> QED
  BY <1>5 DEF IsSuffix, rs, rt

\* A message saved to a sound file is the last of both.
LEMMA SaveOnDisk ==
    ASSUME NEW k \in Key, Save(k), DiskInv
    PROVE  DiskInv'
<1> DEFINE e == [id |-> nextID, key |-> k, status |-> NoStatus]
           longer == Append(messages, e)
<1>1. IdInv'
  BY SaveStep DEF DiskInv
<1>2. /\ messages \in Seq(Entry) /\ disk \in Seq(Entry) /\ nextID \in Nat /\ nextID > 0
      /\ errors \in Nat /\ Unlocked
  BY DEF DiskInv, IdInv, TypeOK, Save
<1>3. e \in Entry
  BY <1>2 DEF Entry
<1>4. /\ messages' = Evict(longer) /\ AppendToDisk(e)
      /\ rewriting' = rewriting /\ rewriting = 0 /\ file' = file
      /\ running' = running /\ stopping' = stopping
  BY DEF Save, Unlocked, process
<1> HIDE DEF e
<1>5. errors' = 0 => errors = 0 /\ Works
  <2>1. errors' = errors \/ errors' = errors + 1
    BY <1>4 DEF AppendToDisk, Fails, Works
  <2> QED
    BY <1>2, <2>1 DEF Works
<1>6. RewriteInStep'
  BY <1>4 DEF RewriteInStep
<1>7. OpenWhenSound'
  BY <1>2, <1>4, <1>5 DEF DiskInv, OpenWhenSound, Unlocked
<1>8. SliceEndsFile'
  <2> SUFFICES ASSUME Unlocked', errors' = 0, ~stopping', ~partial', ~corrupt'
               PROVE  EndsWith(disk', messages')
    BY DEF SliceEndsFile
  <2>1. errors = 0 /\ Works /\ ~stopping /\ file = "open"
    BY <1>2, <1>4, <1>5 DEF DiskInv, OpenWhenSound
  <2>2. disk' = Append(disk, e) /\ ~partial /\ ~corrupt
    <3>1. ~Fails
      BY <1>2, <2>1 DEF Fails, Works
    <3>2. corrupt' = TRUE \/ (disk' = Append(disk, e) /\ ~partial /\ corrupt' = corrupt)
      BY <1>4, <2>1, <3>1 DEF AppendToDisk
    <3> QED
      BY <3>2
  <2>3. EndsWith(disk, messages)
    BY <1>2, <2>1, <2>2 DEF DiskInv, SliceEndsFile
  <2>4. EndsWith(disk', longer)
    <3>1. /\ Len(disk') = Len(disk) + 1 /\ Len(longer) = Len(messages) + 1
          /\ disk'[Len(disk) + 1] = e /\ longer[Len(messages) + 1] = e
          /\ \A i \in DOMAIN disk : disk'[i] = disk[i]
          /\ \A i \in DOMAIN messages : longer[i] = messages[i]
          /\ DOMAIN longer = 1..(Len(messages) + 1)
      BY <1>2, <1>3, <2>2
    <3> HIDE DEF longer
    <3>2. ASSUME NEW i \in DOMAIN longer
          PROVE  longer[i] = disk'[i + (Len(disk') - Len(longer))]
      <4>1. CASE i = Len(messages) + 1
        BY <1>2, <3>1, <4>1
      <4>2. CASE i \in DOMAIN messages
        <5>1. i + (Len(disk) - Len(messages)) \in DOMAIN disk
          BY <1>2, <2>3, <4>2 DEF EndsWith
        <5>2. Len(disk') - Len(longer) = Len(disk) - Len(messages)
          BY <1>2, <3>1
        <5> QED
          BY <2>3, <3>1, <4>2, <5>1, <5>2 DEF EndsWith
      <4> QED
        BY <1>2, <3>1, <4>1, <4>2
    <3> QED
      BY <1>2, <2>3, <3>1, <3>2 DEF EndsWith
  <2>5. longer \in Seq(Entry) /\ disk' \in Seq(Entry)
    BY <1>2, <1>3, <2>2
  <2> HIDE DEF longer
  <2> DEFINE m == messages'
             d == Len(longer) - Len(m)
             c == Len(disk') - Len(longer)
  <2>6. /\ m \in Seq(Entry) /\ Len(m) <= Len(longer)
        /\ \A i \in DOMAIN m : m[i] = longer[i + d]
    BY <1>4, <2>5, EvictIsSuffix
  <2> HIDE DEF m
  <2>7. \A i \in DOMAIN m : i + d \in DOMAIN longer
    BY <2>5, <2>6
  <2>8. \A i \in DOMAIN m : m[i] = disk'[(i + d) + c]
    BY <2>4, <2>6, <2>7 DEF EndsWith
  <2>9. \A i \in DOMAIN m : (i + d) + c = i + (Len(disk') - Len(m))
    BY <2>5, <2>6
  <2>10. Len(m) <= Len(disk')
    BY <2>4, <2>5, <2>6 DEF EndsWith
  <2> QED
    BY <2>8, <2>9, <2>10 DEF EndsWith, m
<1> QED
  BY <1>1, <1>6, <1>7, <1>8 DEF DiskInv

\* A rewrite begins with an empty file, or fails before it begins.
LEMMA UpdateOnDisk ==
    ASSUME NEW k \in DM, NEW status \in Status, UpdateDMStatus(k, status), DiskInv
    PROVE  DiskInv'
<1>1. IdInv'
  BY UpdateStep DEF DiskInv
<1>2. PICK i \in DOMAIN messages : messages' = [messages EXCEPT ![i].status = status]
  BY DEF UpdateDMStatus
<1>3. /\ messages \in Seq(Entry) /\ messages' \in Seq(Entry) /\ errors \in Nat
      /\ rewriting = 0
  BY <1>1 DEF DiskInv, IdInv, TypeOK, UpdateDMStatus, Unlocked
<1>4. DOMAIN messages' = DOMAIN messages
  BY <1>2
<1>5. Len(messages') >= 1
  <2>1. i \in DOMAIN messages'
    BY <1>4
  <2> QED
    BY <1>3, <2>1
<1>6. CASE disk' = <<>> /\ rewriting' = 1
  <2>1. RewriteInStep'
    BY <1>3, <1>5, <1>6 DEF RewriteInStep
  <2> QED
    BY <1>1, <1>6, <2>1 DEF DiskInv, OpenWhenSound, SliceEndsFile, Unlocked
<1>7. CASE errors' = errors + 1 /\ rewriting' = 0
  <2>1. errors' # 0
    BY <1>3, <1>7
  <2> QED
    BY <1>1, <1>7, <2>1 DEF DiskInv, RewriteInStep, OpenWhenSound, SliceEndsFile
<1> QED
  BY <1>3, <1>6, <1>7 DEF UpdateDMStatus, Fails

\* The next line is the next of the slice.
LEMMA RewriteOnDisk ==
    ASSUME RewriteLine, DiskInv
    PROVE  DiskInv'
<1>1. IdInv'
  BY RewriteStep DEF DiskInv
<1>2. /\ messages \in Seq(Entry) /\ disk \in Seq(Entry) /\ rewriting \in Nat
      /\ rewriting \in DOMAIN messages /\ rewriting # 0
      /\ disk' = Append(disk, messages[rewriting]) /\ rewriting' = rewriting + 1
      /\ messages' = messages /\ errors' = errors
  BY DEF DiskInv, IdInv, TypeOK, RewriteLine
<1>3. /\ Len(disk) = rewriting - 1
      /\ \A i \in DOMAIN disk : disk[i] = messages[i]
  BY <1>2 DEF DiskInv, RewriteInStep
<1>4. /\ Len(disk') = rewriting
      /\ disk'[rewriting] = messages[rewriting]
      /\ \A i \in DOMAIN disk : disk'[i] = disk[i]
      /\ \A i \in DOMAIN disk' : i \in DOMAIN disk \/ i = rewriting
  <2>1. messages[rewriting] \in Entry
    BY <1>2
  <2> QED
    BY <1>2, <1>3, <2>1
<1>5. RewriteInStep'
  <2>1. \A i \in DOMAIN disk' : disk'[i] = messages[i]
    BY <1>3, <1>4
  <2>2. /\ rewriting + 1 <= Len(messages) + 1 /\ rewriting <= Len(messages)
        /\ (rewriting + 1) - 1 = rewriting
    BY <1>2
  <2> QED
    BY <1>2, <1>4, <2>1, <2>2 DEF RewriteInStep
<1>6. rewriting' # 0
  BY <1>2
<1> QED
  BY <1>1, <1>5, <1>6 DEF DiskInv, OpenWhenSound, SliceEndsFile, Unlocked

\* A rewrite that met no failure ends with the file equal to the slice.
LEMMA RewriteEndsOnDisk ==
    ASSUME RewriteEnds, DiskInv
    PROVE  DiskInv'
<1>1. IdInv'
  BY OtherStep DEF DiskInv
<1>2. /\ messages \in Seq(Entry) /\ disk \in Seq(Entry) /\ errors \in Nat
      /\ rewriting = Len(messages) + 1 /\ rewriting' = 0
      /\ messages' = messages /\ disk' = disk
      /\ (errors' = errors /\ file' = "open") \/ errors' = errors + 1
  BY DEF DiskInv, IdInv, TypeOK, RewriteEnds, contents, Works, Fails
<1>3. RewriteInStep'
  BY <1>2 DEF RewriteInStep
<1>4. errors' = 0 => errors = 0 /\ file' = "open"
  BY <1>2
<1>5. ASSUME errors' = 0 PROVE EndsWith(disk', messages')
  <2>1. rewriting # 0 /\ errors = 0
    BY <1>2, <1>4, <1>5
  <2>2. Len(disk) = Len(messages) /\ \A i \in DOMAIN disk : disk[i] = messages[i]
    BY <1>2, <2>1 DEF DiskInv, RewriteInStep
  <2>3. \A i \in DOMAIN messages : i + (Len(disk) - Len(messages)) = i /\ i \in DOMAIN disk
    BY <1>2, <2>2
  <2> QED
    BY <1>2, <2>2, <2>3 DEF EndsWith
<1> QED
  BY <1>1, <1>3, <1>4, <1>5 DEF DiskInv, OpenWhenSound, SliceEndsFile

\* A failure, Close, a start and an end.
LEMMA OtherOnDisk ==
    ASSUME RewriteStops \/ Close \/ Start \/ Exit \/ Crash, DiskInv
    PROVE  DiskInv'
<1>1. IdInv'
  BY OtherStep, StartStep, EndStep DEF DiskInv
<1>2. messages \in Seq(Entry) /\ disk \in Seq(Entry) /\ errors \in Nat /\ rewriting \in Nat
  BY DEF DiskInv, IdInv, TypeOK
<1>3. CASE RewriteStops
  <2>1. /\ errors' # 0 /\ rewriting' = Len(messages) + 1 /\ rewriting # 0
        /\ messages' = messages /\ disk' = disk
    BY <1>2, <1>3 DEF RewriteStops, Fails
  <2>2. Len(disk) <= Len(messages) /\ \A i \in DOMAIN disk : disk[i] = messages[i]
    BY <2>1 DEF DiskInv, RewriteInStep
  <2>3. ~(Len(messages) + 1 \in DOMAIN messages) /\ Len(messages) + 1 <= Len(messages) + 1
    BY <1>2
  <2>4. RewriteInStep'
    BY <2>1, <2>2, <2>3 DEF RewriteInStep
  <2> QED
    BY <1>1, <2>1, <2>4 DEF DiskInv, OpenWhenSound, SliceEndsFile
<1>4. CASE Close
  <2>1. stopping' /\ UNCHANGED <<messages, rewriting, disk, errors>>
    BY <1>4 DEF Close, contents
  <2> QED
    BY <1>1, <2>1 DEF DiskInv, RewriteInStep, OpenWhenSound, SliceEndsFile
<1>5. CASE Start
  <2>1. /\ messages' = disk /\ disk' = disk /\ rewriting' = rewriting /\ rewriting = 0
        /\ file' = "open"
    BY <1>5 DEF DiskInv, IdInv, StoppedIsIdle, Start, contents
  <2>2. EndsWith(disk, disk)
    BY <1>2 DEF EndsWith
  <2> QED
    BY <1>1, <2>1, <2>2 DEF DiskInv, RewriteInStep, OpenWhenSound, SliceEndsFile
<1>6. CASE Exit \/ Crash
  <2>1. running' = FALSE /\ rewriting' = 0
    BY <1>6 DEF Exit, Crash, Ends
  <2> QED
    BY <1>1, <2>1 DEF DiskInv, RewriteInStep, OpenWhenSound, SliceEndsFile, Unlocked
<1> QED
  BY <1>3, <1>4, <1>5, <1>6

\* File and slice stay in step.
THEOREM DiskInvariant == Spec => []DiskInv
<1>1. Init => RewriteInStep /\ OpenWhenSound /\ SliceEndsFile
  <2>1. EndsWith(<<>>, <<>>)
    BY DEF EndsWith
  <2> QED
    BY <2>1 DEF Init, RewriteInStep, OpenWhenSound, SliceEndsFile
<1>2. DiskInv /\ [Next]_vars => DiskInv'
  <2> SUFFICES ASSUME DiskInv, [Next]_vars PROVE DiskInv'
    OBVIOUS
  <2>1. CASE \E k \in Key : Save(k)
    BY <2>1, SaveOnDisk
  <2>2. CASE \E k \in DM, status \in Status : UpdateDMStatus(k, status)
    BY <2>2, UpdateOnDisk
  <2>3. CASE RewriteLine
    BY <2>3, RewriteOnDisk
  <2>4. CASE RewriteEnds
    BY <2>4, RewriteEndsOnDisk
  <2>5. CASE RewriteStops \/ Close \/ Start \/ Exit \/ Crash
    BY <2>5, OtherOnDisk
  <2>6. CASE UNCHANGED vars
    <3>1. IdInv'
      BY <2>6 DEF DiskInv, IdInv, vars, TypeOK, IdsIncrease, Increasing,
                  RewriteInOrder, StoppedIsIdle
    <3> QED
      BY <2>6, <3>1 DEF vars, DiskInv, RewriteInStep, OpenWhenSound, SliceEndsFile, Unlocked
  <2> QED
    BY <2>1, <2>2, <2>3, <2>4, <2>5, <2>6 DEF Next
<1>3. Init /\ IdInv => DiskInv
  BY <1>1 DEF DiskInv
<1> QED
  BY <1>2, <1>3, IdInvariant, PTL DEF Spec

\* What an interrupted rewrite leaves behind is a prefix of what it was to
\* write (rewriteDiskLocked), for every bound.
THEOREM RewriteIsPrefixHolds == Spec => []RewriteIsPrefix
<1>1. DiskInv => RewriteIsPrefix
  <2> SUFFICES ASSUME DiskInv, rewriting # 0 PROVE IsPrefix(disk, messages)
    BY DEF RewriteIsPrefix
  <2>1. messages \in Seq(Entry) /\ disk \in Seq(Entry)
    BY DEF DiskInv, IdInv, TypeOK
  <2> QED
    BY <2>1, PrefixByElement DEF DiskInv, RewriteInStep
<1> QED
  BY <1>1, DiskInvariant, PTL

\* Outside a rewrite the slice is the end of the file, as long as no file
\* operation failed, Close was not called and no line is torn, for every bound.
THEOREM MemoryOnDiskHolds == Spec => []MemoryOnDisk
<1>1. DiskInv => MemoryOnDisk
  <2>1. DiskInv => messages \in Seq(Entry) /\ disk \in Seq(Entry)
    BY DEF DiskInv, IdInv, TypeOK
  <2> QED
    BY <2>1, SuffixByElement DEF DiskInv, SliceEndsFile, MemoryOnDisk
<1> QED
  BY <1>1, DiskInvariant, PTL
=============================================================================
