------------------------------- MODULE MCSwim -------------------------------
(* Values for the constants of Swim in the runs on small instances.        *)
EXTENDS Swim

Budget1 == [i \in 1 .. Cardinality(Node) |-> 1]

Everyone == [n \in Node |-> Node]
Strangers == [n \in Node |-> {}]

=============================================================================
