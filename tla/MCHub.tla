------------------------------- MODULE MCHub -------------------------------
(***************************************************************************)
(* Hub on small instances.                                                 *)
(***************************************************************************)
EXTENDS Hub, TLC

Symmetry == Permutations(Conn) \cup Permutations(User)
=============================================================================
