--------------------------- MODULE MCMessageStore ---------------------------
(***************************************************************************)
(* MessageStore on small instances.                                        *)
(***************************************************************************)
EXTENDS MessageStore
=============================================================================
