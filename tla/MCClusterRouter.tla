--------------------------- MODULE MCClusterRouter ---------------------------
(***************************************************************************)
(* Two nodes, one of which restarts, and connections of a single client.   *)
(***************************************************************************)
EXTENDS ClusterRouter, TLC

Restarting   == [i \in Instances |-> IF i = "b1" THEN "b" ELSE "a"]
SingleClient == [k \in Conns |-> "client"]

Anywhere     == [k \in Conns |-> Instances]
OnTheOther   == [k \in Conns |-> {"b1"}]

Symmetry == Permutations(Conns)

=============================================================================
