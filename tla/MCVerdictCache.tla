--------------------------- MODULE MCVerdictCache ---------------------------
(* Instances of VerdictCache for TLC.                                      *)
EXTENDS VerdictCache, TLC

CONSTANTS c1, c2, room, presenceRoom, chatRoom, b1, u1, x1, x2, f1, f2

\* One connection and a base channel under several router names, with a
\* context that may be replaced by one of an anonymous principal.
OneConn == {c1}
OneBase == {b1}
ThreeNames == {room, presenceRoom, chatRoom}
ThreeBase == [h \in ThreeNames |-> b1]
CtxOwner == x1 :> u1 @@ x2 :> NoUser
CallSymmetry == Permutations({f1, f2})
=============================================================================
