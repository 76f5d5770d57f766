----------------------------- MODULE MCRoomFeed -----------------------------
(***************************************************************************)
(* RoomFeed with two browsers, of which the first may leave and join       *)
(* again, and a mesh peer.                                                 *)
(***************************************************************************)
EXTENDS RoomFeed

CONSTANTS b1, b2, m1, p1, p2, p3

\* Two posts of the browser that may leave and one of the mesh peer
LocalTwice == [p \in Post |-> IF p = p3 THEN m1 ELSE b1]

Joins == [b \in Browser |-> IF b = b1 THEN 3 ELSE 1]
=============================================================================
