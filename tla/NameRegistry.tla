---------------------------- MODULE NameRegistry ----------------------------
(***************************************************************************)
(* What the hub promises about names, without sockets, rooms, cooldowns or *)
(* goroutines.  Of its clients it assumes that each claims one name, once, *)
(* and departs once.  It promises that the latest claim holds the name;    *)
(* that only the client whose name was claimed by another may be evicted   *)
(* before it departs; and that settling a departed client leaves no name   *)
(* with it, and takes no name from anybody else.                           *)
(***************************************************************************)
CONSTANTS Client, Name, Nobody

VARIABLES
    holder,    \* who holds a name
    claimed,   \* clients that made their claim
    evicted,   \* clients that are sent nothing any more
    departed,  \* clients that have gone
    settled    \* departed clients whose departure was dealt with

vars == <<holder, claimed, evicted, departed, settled>>

TypeOK ==
    /\ holder \in [Name -> Client \cup {Nobody}]
    /\ claimed \subseteq Client
    /\ evicted \subseteq Client
    /\ departed \subseteq Client
    /\ settled \subseteq departed

Init ==
    /\ holder = [n \in Name |-> Nobody]
    /\ claimed = {}
    /\ evicted = {}
    /\ departed = {}
    /\ settled = {}

\* The new holder replaces the old one, who is evicted or left alone.
Claim(c, n) ==
    /\ c \notin claimed \cup departed \cup evicted
    /\ claimed' = claimed \cup {c}
    /\ holder' = [holder EXCEPT ![n] = c]
    /\ evicted' \in {evicted, evicted \cup ({holder[n]} \ {Nobody})}
    /\ UNCHANGED <<departed, settled>>

Depart(c) ==
    /\ c \notin departed
    /\ departed' = departed \cup {c}
    /\ UNCHANGED <<holder, claimed, evicted, settled>>

\* Every name the departed client still holds is free afterwards, and no other.
Settle(c) ==
    /\ c \in departed \ settled
    /\ settled' = settled \cup {c}
    /\ evicted' = evicted \cup {c}
    /\ holder' = [n \in Name |-> IF holder[n] = c THEN Nobody ELSE holder[n]]
    /\ UNCHANGED <<claimed, departed>>

Next ==
    \E c \in Client : Depart(c) \/ Settle(c) \/ \E n \in Name : Claim(c, n)

Spec == Init /\ [][Next]_vars
=============================================================================
