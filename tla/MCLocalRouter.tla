---------------------------- MODULE MCLocalRouter ----------------------------
(* Instances of LocalRouter for TLC.                                       *)
EXTENDS LocalRouter, TLC

CONSTANTS c1, c2, h1, h2, x1, x2, x3, x4, t1, t2, t3, a1, a2, f1, f2

ObjectSymmetry == Permutations({x1, x2, x3, x4}) \cup Permutations({t1, t2, t3})
                    \cup Permutations({a1, a2})
=============================================================================
