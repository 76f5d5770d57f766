---------------------------- MODULE MCMeshGossip ----------------------------
(***************************************************************************)
(* MeshGossip on small topologies.                                         *)
(***************************************************************************)
EXTENDS MeshGossip

CONSTANTS a, b, c, d, e

\* a and b found each other by discovery: two links; c hangs on b.
DoubleLink == {"ab", "ba", "bc"}
DoubleEnds == [l \in DoubleLink |-> IF l = "bc" THEN {b, c} ELSE {a, b}]

\* A triangle, one of whose sides is double, with a tail of two.  From a, copies
\* come to c, and to d behind it, over paths of different length; e is out of
\* a's range, and of b's, when MaxTTL is 2.
LassoLink == {"ab", "ba", "ac", "bc", "cd", "de"}
LassoEnds == [l \in LassoLink |-> CASE l = "ac" -> {a, c}
                                    [] l = "bc" -> {b, c}
                                    [] l = "cd" -> {c, d}
                                    [] l = "de" -> {d, e}
                                    [] OTHER   -> {a, b}]

\* A chain of four.
ChainLink == {"ab", "bc", "cd"}
ChainEnds == [l \in ChainLink |-> CASE l = "ab" -> {a, b}
                                    [] l = "bc" -> {b, c}
                                    [] l = "cd" -> {c, d}]
=============================================================================
