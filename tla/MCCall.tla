------------------------------- MODULE MCCall -------------------------------
(***************************************************************************)
(* Call on small instances.                                                *)
(***************************************************************************)
EXTENDS Call
=============================================================================
