------------------------- MODULE SharedSubscription -------------------------
(***************************************************************************)
(* What the shared transport promises, without frames and answers:         *)
(* consumers want channels, a session is asked for channels that are       *)
(* wanted, and as long as it lasts it is left by those only that nobody    *)
(* wants.                                                                  *)
(***************************************************************************)
CONSTANT Channels

VARIABLES wanted,   \* channels somebody holds
          asked,    \* channels the present session was asked for
          session   \* which one that is

vars == <<wanted, asked, session>>

Init == wanted = {} /\ asked = {}

\* A hold may ask at once.
Hold(c) == /\ wanted' = wanted \cup {c}
           /\ asked' \in {asked, asked \cup {c}}
           /\ UNCHANGED session

Release(c) == wanted' = wanted \ {c} /\ UNCHANGED <<asked, session>>

Ask(S) == S \subseteq wanted /\ asked' = asked \cup S /\ UNCHANGED <<wanted, session>>

Leave(S) == S \cap wanted = {} /\ asked' = asked \ S /\ UNCHANGED <<wanted, session>>

\* Another session takes its place, asked for nothing.
Lose == session' # session /\ asked' = {} /\ UNCHANGED wanted

Next == \/ \E c \in Channels : Hold(c) \/ Release(c)
        \/ \E S \in SUBSET Channels : Ask(S) \/ Leave(S)
        \/ Lose

Spec == Init /\ [][Next]_vars

=============================================================================
