-------------------------- MODULE ReliableChannel --------------------------
(***************************************************************************)
(* What a pair of sessions promises to the applications for classes 1 and  *)
(* 2: every accepted message is taken charge of by the peer at most once,  *)
(* and class-2 messages in the order in which they were accepted.          *)
(***************************************************************************)
EXTENDS Naturals, Sequences

CONSTANT Node

VARIABLES
    accepted,  \* messages accepted by send() at each node, in order
    taken      \* messages taken charge of by the session at each node, in order

vars == <<accepted, taken>>

Other(n) == CHOOSE m \in Node : m # n

In(q) == {q[i] : i \in 1 .. Len(q)}

Init == accepted = [n \in Node |-> <<>>] /\ taken = [n \in Node |-> <<>>]

Accept(n, cls) ==
    /\ accepted' = [accepted EXCEPT ![n] = Append(@, [cls |-> cls, data |-> Len(@) + 1])]
    /\ UNCHANGED taken

(* Messages the peer accepted and n has not taken. *)
Outstanding(n) == In(accepted[Other(n)]) \ In(taken[n])

Distinct(q) == \A i, j \in 1 .. Len(q) : q[i] = q[j] => i = j

(* No class-2 message overtakes an earlier one. *)
InTurn(n, q) ==
    \A i \in 1 .. Len(q), m \in In(accepted[Other(n)]) :
        q[i].cls = 2 /\ m.cls = 2 /\ m.data < q[i].data => \E j \in 1 .. i - 1 : q[j] = m

Take(n, batch) ==
    /\ Distinct(batch)
    /\ InTurn(n, taken[n] \o batch)
    /\ taken' = [taken EXCEPT ![n] = @ \o batch]
    /\ UNCHANGED accepted

Next ==
    \E n \in Node :
        \/ \E cls \in 1 .. 2 : Accept(n, cls)
        \/ \E k \in 1 .. Len(accepted[Other(n)]) :
             \E batch \in [1 .. k -> Outstanding(n)] : Take(n, batch)

Spec == Init /\ [][Next]_vars

=============================================================================
