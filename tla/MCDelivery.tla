----------------------------- MODULE MCDelivery -----------------------------
(***************************************************************************)
(* Delivery with ann and bob on one server and cat on another.             *)
(***************************************************************************)
EXTENDS Delivery

CONSTANTS ann, bob, cat, s1, s2, d1, d2

MCHome == [u \in User |-> IF u = cat THEN s2 ELSE s1]
MCFrom == [d \in DM |-> ann]
MCTo   == [d \in DM |-> IF d = d1 THEN bob ELSE cat]
MCDirect == {<<s1, s2>>, <<s2, s1>>}
=============================================================================
