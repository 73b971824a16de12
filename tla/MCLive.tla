------------------------------- MODULE MCLive -------------------------------
(* Values for the constants of SessionLive.                                *)
EXTENDS SessionLive

CONSTANTS a, b

Window1 == [n \in Node |-> 1]
OneWay2 == [n \in Node |-> IF n = a THEN 2 ELSE 0]
None == [n \in Node |-> 0]
Unbounded == [n \in Node |-> 40]

=============================================================================
