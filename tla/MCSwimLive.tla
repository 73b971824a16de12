----------------------------- MODULE MCSwimLive -----------------------------
(* Values for the constants of SwimLive.                                   *)
EXTENDS SwimLive

(* ceil(3 ln N) for a cluster of N, as with the default gossip_factor. *)
DefaultBudget == [i \in 1 .. Cardinality(Node) |-> CASE i = 1 -> 1 [] i = 2 -> 3 [] OTHER -> 4]
Budget1 == [i \in 1 .. Cardinality(Node) |-> 1]

Everyone == [n \in Node |-> Node]

=============================================================================
