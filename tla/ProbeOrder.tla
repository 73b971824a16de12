----------------------------- MODULE ProbeOrder -----------------------------
(***************************************************************************)
(* The probe order of Swim: pick_target walks a shuffled list of members,  *)
(* which it rebuilds when it is through, while members join, die and come  *)
(* back.  One pick is one protocol period.                                 *)
(***************************************************************************)
EXTENDS Naturals, Sequences, FiniteSetsExt, Functions

CONSTANT Member   \* the endpoints that may be members

VARIABLES
    live,     \* the members that are not Dead
    probe_order, probe_index,
    target,   \* what pick_target returned last
    waited    \* the periods since each live member came up, was picked or came to be live

orderVars == <<live, probe_order, probe_index, target, waited>>

(* Endpoint{} *)
Nobody == 0

Init == /\ live \in SUBSET Member
        /\ probe_order = <<>> /\ probe_index = 0
        /\ target = Nobody /\ waited = [s \in Member |-> 0]

-----------------------------------------------------------------------------
(* The shuffles of the members that are not Dead. *)
rebuild_probe_order == Bijection(1 .. Cardinality(live), live)

(* How often the loop goes round. *)
Tries == Len(probe_order) + 2

(* Fault: the walk ends at the first entry that is out of date. *)
Left_next == {i \in {probe_index + 1} \cap DOMAIN probe_order : probe_order[i] \in live}

(* The entries still to come, less those that are out of date. *)
Left == {i \in probe_index + 1 .. Len(probe_order) : probe_order[i] \in live}

(* How often it has to: to the entry it returns, or to the rebuilt list. *)
Walked == (IF Left = {} THEN Len(probe_order) + 1 ELSE Min(Left)) - probe_index

(* The first entry not yet walked over that is live ends the walk; if      *)
(* there is none the list is rebuilt and its first entry taken.            *)
pick_target ==
    /\ IF Walked > Tries
       THEN target' = Nobody /\ probe_index' = probe_index + Tries /\ UNCHANGED probe_order
       ELSE IF Left # {}
       THEN target' = probe_order[Min(Left)] /\ probe_index' = Min(Left) /\ UNCHANGED probe_order
       ELSE /\ probe_order' \in rebuild_probe_order
            /\ IF live = {} THEN target' = Nobody /\ probe_index' = 0
                            ELSE target' = probe_order'[1] /\ probe_index' = 1
    /\ waited' = [s \in Member |-> IF s \in live \ {target'} THEN waited[s] + 1 ELSE 0]
    /\ UNCHANGED live

(* A member is added, or heard of as not Dead. *)
Learn(s) == /\ s \notin live
            /\ live' = live \cup {s}
            /\ UNCHANGED <<probe_order, probe_index, target, waited>>

(* A member is found Dead. *)
Verdict(s) == /\ s \in live
              /\ live' = live \ {s}
              /\ waited' = [waited EXCEPT ![s] = 0]
              /\ UNCHANGED <<probe_order, probe_index, target>>

Next == pick_target \/ \E s \in Member : Learn(s) \/ Verdict(s)

Spec == Init /\ [][Next]_orderVars

-----------------------------------------------------------------------------
(* Properties.                                                             *)

(* Every member's turn comes: within two walks of the list, whoever joins, *)
(* dies or comes back meanwhile.                                           *)
TurnComes == \A s \in live : waited[s] <= 2 * (Cardinality(Member) - 1)

(* "Guarantees every live member is probed once per (N-1) periods": of N-1 *)
(* periods in a row one is each live member's.                             *)
OncePerRound == \A s \in live : waited[s] < Cardinality(Member)

=============================================================================
