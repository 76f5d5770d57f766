---------------------------- MODULE MessageStore ----------------------------
(***************************************************************************)
(* The message store of one server, internal/store/store.go: a slice in    *)
(* memory and the file messages.jsonl, over crashes, restarts, failing     *)
(* writes and the graceful shutdown of cmd/main.go.                        *)
(*                                                                         *)
(* Save and UpdateDMStatus hold s.mu throughout, so each is atomic for     *)
(* other callers; what a crash or os.Exit can interrupt is the rewrite of  *)
(* the file, so its writes are separate steps.  Close takes no lock.       *)
(*                                                                         *)
(* A message is its key (msg_id); the file is the sequence of its lines    *)
(* that parse, a flag for lines that do not, and a flag for a last line    *)
(* without its newline.  A line stays below the megabyte at which the      *)
(* scanner of loadFromDisk would stop (client.go maxMessageSize).          *)
(***************************************************************************)
EXTENDS Integers, Sequences, SequencesExt

CONSTANTS
    RoomMsg,     \* keys of room messages (SaveMessage)
    DM,          \* keys of direct messages (SaveDM)
    Status,      \* statuses a receipt may carry
    NoStatus,    \* the empty status of a message as saved
    MaxMemory,   \* MaxInMemoryMessages
    MaxID,       \* bound on the ids given out
    Graceful,    \* TRUE: main may call Server.Shutdown
    MaxCrashes,  \* bound on crashes
    MaxErrors    \* bound on failing file operations

Key == RoomMsg \cup DM

ASSUME BoundAssumption ==
    /\ MaxMemory \in Nat \ {0} /\ MaxID \in Nat
    /\ MaxCrashes \in Nat /\ MaxErrors \in Nat /\ Graceful \in BOOLEAN
ASSUME KeyAssumption == RoomMsg \cap DM = {}

Entry == [id : Nat \ {0}, key : Key, status : Status \cup {NoStatus}]

VARIABLES
    running,   \* the process is up
    stopping,  \* Shutdown has called Close
    messages,  \* MessageStore.messages
    nextID,    \* MessageStore.nextID
    file,      \* MessageStore.file: "open" or "closed"
    rewriting, \* index of the message rewriteDiskLocked writes next, or 0
    disk,      \* the lines of messages.jsonl that parse
    corrupt,   \* the file has a line that does not parse
    partial,   \* the last line of the file lacks its newline
    saved,     \* history: keys that were saved
    crashes,   \* number of crashes so far
    errors     \* number of failed file operations so far

vars == <<running, stopping, messages, nextID, file, rewriting, disk, corrupt,
          partial, saved, crashes, errors>>

process  == <<running, stopping, crashes>>
contents == <<disk, corrupt, partial>>

\* The values of the variables.
TypeOK ==
    /\ running \in BOOLEAN
    /\ stopping \in BOOLEAN
    /\ messages \in Seq(Entry)
    /\ nextID \in Nat \ {0}
    /\ file \in {"open", "closed"}
    /\ rewriting \in Nat
    /\ disk \in Seq(Entry)
    /\ corrupt \in BOOLEAN
    /\ partial \in BOOLEAN
    /\ saved \subseteq Key
    /\ crashes \in Nat
    /\ errors \in Nat

Init ==
    /\ running = TRUE
    /\ stopping = FALSE
    /\ messages = <<>>
    /\ nextID = 1
    /\ file = "open"
    /\ rewriting = 0
    /\ disk = <<>>
    /\ corrupt = FALSE
    /\ partial = FALSE
    /\ saved = {}
    /\ crashes = 0
    /\ errors = 0

Unlocked == running /\ rewriting = 0

\* A file operation fails: a full disk, no file descriptor left.
Fails == errors < MaxErrors /\ errors' = errors + 1
Works == UNCHANGED errors

\* Mutant: the newest messages go.
EvictNewest(s) == IF Len(s) > MaxMemory THEN SubSeq(s, 1, MaxMemory) ELSE s

\* evictOldLocked
Evict(s) ==
    IF Len(s) > MaxMemory THEN SubSeq(s, Len(s) - MaxMemory + 1, Len(s)) ELSE s

\* appendToDisk: the line goes behind an unfinished one, if there is one, and
\* both are unreadable from then on; a failing write leaves half a line or none;
\* a write to a closed file is logged and forgotten.
AppendToDisk(e) ==
    \/ /\ file = "open" /\ ~partial /\ Works
       /\ disk' = Append(disk, e)
       /\ UNCHANGED <<corrupt, partial>>
    \/ /\ file = "open" /\ partial /\ Works
       /\ corrupt' = TRUE /\ partial' = FALSE
       /\ UNCHANGED disk
    \/ /\ file = "open" /\ Fails
       /\ partial' \in {partial, TRUE}
       /\ UNCHANGED <<disk, corrupt>>
    \/ /\ file = "closed" /\ Works
       /\ UNCHANGED contents

\* SaveMessage for a room message, SaveDM for a direct one
Save(k) ==
    /\ Unlocked
    /\ nextID <= MaxID
    /\ LET e == [id |-> nextID, key |-> k, status |-> NoStatus]
       IN  messages' = Evict(Append(messages, e)) /\ AppendToDisk(e)
    /\ nextID' = nextID + 1
    /\ saved' = saved \cup {k}
    /\ UNCHANGED <<process, file, rewriting>>

\* The message UpdateDMStatus finds: the newest DM with this key
IsNewest(i, k) ==
    /\ i \in DOMAIN messages
    /\ messages[i].key = k
    /\ \A j \in DOMAIN messages : messages[j].key = k => j <= i

\* UpdateDMStatus up to os.Create in rewriteDiskLocked: the old file is closed,
\* and the new one is the same file, truncated.
UpdateDMStatus(k, status) ==
    /\ Unlocked
    /\ k \in DM
    /\ \E i \in DOMAIN messages :
          /\ IsNewest(i, k)
          /\ messages[i].status # status
          /\ messages' = [messages EXCEPT ![i].status = status]
    /\ file' = "closed"
    /\ \/ /\ Works
          /\ disk' = <<>> /\ corrupt' = FALSE /\ partial' = FALSE
          /\ rewriting' = 1
       \/ /\ Fails
          /\ UNCHANGED <<contents, rewriting>>
    /\ UNCHANGED <<process, nextID, saved>>

\* Mutant: the loop runs backwards, as the one of UpdateDMStatus does.
RewriteLineBackwards ==
    /\ running
    /\ rewriting \in DOMAIN messages
    /\ disk' = Append(disk, messages[Len(messages) + 1 - rewriting])
    /\ rewriting' = rewriting + 1
    /\ UNCHANGED <<process, messages, nextID, file, corrupt, partial, saved, errors>>

\* The loop of rewriteDiskLocked; bufio writes lines in chunks.
RewriteLine ==
    /\ running
    /\ rewriting \in DOMAIN messages
    /\ disk' = Append(disk, messages[rewriting])
    /\ rewriting' = rewriting + 1
    /\ UNCHANGED <<process, messages, nextID, file, corrupt, partial, saved, errors>>

\* A write fails: bufio drops everything after it, and nobody looks at the error.
RewriteStops ==
    /\ running
    /\ rewriting \in DOMAIN messages
    /\ Fails
    /\ partial' \in BOOLEAN
    /\ rewriting' = Len(messages) + 1
    /\ UNCHANGED <<process, messages, nextID, file, disk, corrupt, saved>>

\* The file is closed and reopened for appending.
RewriteEnds ==
    /\ running
    /\ rewriting = Len(messages) + 1
    /\ rewriting' = 0
    /\ \/ Works /\ file' = "open"
       \/ Fails /\ UNCHANGED file
    /\ UNCHANGED <<process, messages, nextID, contents, saved>>

\* Server.Shutdown closes the file; the hub goes on serving its connections.
Close ==
    /\ Graceful
    /\ running
    /\ ~stopping
    /\ stopping' = TRUE
    /\ file' = "closed"
    /\ UNCHANGED <<running, messages, nextID, rewriting, contents, saved, crashes, errors>>

\* What is left of the process' work when it ends: in the middle of a rewrite
\* possibly half a line.
Ends ==
    /\ running' = FALSE
    /\ stopping' = FALSE
    /\ messages' = <<>>
    /\ nextID' = 1
    /\ file' = "closed"
    /\ rewriting' = 0
    /\ partial' \in IF rewriting # 0 THEN BOOLEAN ELSE {partial}
    /\ UNCHANGED <<disk, corrupt, saved, errors>>

\* main: os.Exit after Shutdown, or log.Fatal when Shutdown makes Start return;
\* neither has regard to s.mu.
Exit == running /\ stopping /\ Ends /\ UNCHANGED crashes

Crash == running /\ crashes < MaxCrashes /\ Ends /\ crashes' = crashes + 1

\* Mutants: the highest id itself; the number of lines; ids start over.
NextIsLast(s) == IF s = <<>> THEN 0 ELSE Max({s[i].id : i \in DOMAIN s})
NextIsLength(s) == Len(s) + 1
NextIsFirst(s) == 1

\* The nextID of loadFromDisk
NextAfter(s) ==
    IF s = <<>> THEN 1 ELSE Max({s[i].id : i \in DOMAIN s}) + 1

\* NewMessageStore: loadFromDisk skips lines that do not parse, evicts nothing,
\* and does not look at the end of the file before it appends to it.
Start ==
    /\ ~running
    /\ running' = TRUE
    /\ messages' = disk
    /\ nextID' = NextAfter(disk)
    /\ file' = "open"
    /\ UNCHANGED <<stopping, rewriting, contents, saved, crashes, errors>>

Next ==
    \/ \E k \in Key : Save(k)
    \/ \E k \in DM, status \in Status : UpdateDMStatus(k, status)
    \/ RewriteLine \/ RewriteStops \/ RewriteEnds
    \/ Close \/ Exit \/ Crash \/ Start

Spec == Init /\ [][Next]_vars

(***************************************************************************)
(* Safety                                                                  *)
(***************************************************************************)

Increasing(s) == \A i, j \in DOMAIN s : i < j => s[i].id < s[j].id

\* Ids grow along the slice and along the file, and the next id is above both,
\* whatever was lost, glued or rewritten before the last restart.
IdsIncrease ==
    /\ Increasing(messages)
    /\ Increasing(disk)
    /\ \A i \in DOMAIN messages : messages[i].id < nextID
    /\ running => \A i \in DOMAIN disk : disk[i].id < nextID

\* An id names the same message in memory and in the file, even after lost
\* writes and restarts that reuse ids.
IdsAgree ==
    \A i \in DOMAIN messages, j \in DOMAIN disk :
        messages[i].id = disk[j].id => messages[i].key = disk[j].key

\* Outside a rewrite, what is in memory is the end of the file, statuses
\* included: a crash at such a point loses nothing that dm_history and the room
\* history would show.  It does not hold once a file operation has failed,
\* after Close, or while the file has a torn line (appendToDisk glues the next
\* message to it); the next rewrite mends the last case.
MemoryOnDisk ==
    Unlocked /\ errors = 0 /\ ~stopping /\ ~partial /\ ~corrupt =>
        IsSuffix(messages, disk)

\* What an interrupted rewrite leaves behind is always a prefix of what it was
\* to write, in order and with the new status (rewriteDiskLocked).
RewriteIsPrefix == rewriting # 0 => IsPrefix(disk, messages)

(***************************************************************************)
(* What a comment says, and the code does not do                           *)
(***************************************************************************)

OnDisk(k) == \E i \in DOMAIN disk : disk[i].key = k

\* store.go:193: "Write to a temp file first, then rename for atomicity".  No
\* file operation has failed and the store was not closed, so a crash would
\* leave every message in the old file or in the new one.
RewriteIsAtomic == ~running /\ errors = 0 => \A k \in saved : OnDisk(k)
=============================================================================
