---------------------------- MODULE MCCallSeats ----------------------------
(***************************************************************************)
(* A huddle of two people on two nodes; one has a tab at each.             *)
(***************************************************************************)
EXTENDS CallSeats

CONSTANTS ann, ben1, ben2, Ann, Ben, east, west

MCUserOf == [c \in Client |-> IF c = ann THEN Ann ELSE Ben]
MCHomeOf == [c \in Client |-> IF c = ben2 THEN west ELSE east]
MCMaxFrames == [c \in Client |-> IF c = ann THEN 2 ELSE 1]

=============================================================================
