----------------------------- MODULE MCE2EEKeys -----------------------------
(***************************************************************************)
(* E2EEKeys on small instances.                                            *)
(***************************************************************************)
EXTENDS E2EEKeys, TLC

\* Users are interchangeable.
Symmetry == Permutations(User)
=============================================================================
