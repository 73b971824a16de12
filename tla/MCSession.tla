----------------------------- MODULE MCSession -----------------------------
(* Values for the constants of Session in the runs on small instances.     *)
EXTENDS SessionInv

CONSTANTS a, b

Window2 == [n \in Node |-> 2]
(* A sender whose own window exceeds its peer's buffer. *)
Window32 == [n \in Node |-> IF n = a THEN 3 ELSE 2]
Window3 == [n \in Node |-> 3]

(* Traffic from a to b only. *)
OneWay1 == [n \in Node |-> IF n = a THEN 1 ELSE 0]
OneWay3 == [n \in Node |-> IF n = a THEN 3 ELSE 0]
OneWay4 == [n \in Node |-> IF n = a THEN 4 ELSE 0]

(* ACKs flow against the traffic. *)
BackAcks4 == [n \in Node |-> IF n = b THEN 4 ELSE 0]

None == [n \in Node |-> 0]
(* b answers with one message of its own. *)
TwoWay31 == [n \in Node |-> IF n = a THEN 3 ELSE 1]
TwoWay12 == [n \in Node |-> IF n = a THEN 1 ELSE 2]
TwoWay21 == [n \in Node |-> IF n = a THEN 2 ELSE 1]

(* A bound: a behaviour has messages of the reliable classes or of the     *)
(* unreliable one, not of both.                                            *)
OneKind == \A n \in Node : accepted[n] = <<>> \/ tx[n].next_unreliable_seq = 0

OneKindSpec == Init /\ [][Next /\ OneKind']_vars

=============================================================================
