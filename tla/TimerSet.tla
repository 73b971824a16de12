------------------------------ MODULE TimerSet ------------------------------
(***************************************************************************)
(* What taut::TimerHeap promises: a set of single-shot timers.             *)
(***************************************************************************)
EXTENDS Naturals

CONSTANT Time  \* the instants

VARIABLES
    timers,   \* the timers that are scheduled and neither fired nor cancelled
    next_id,  \* the id of the next timer
    result    \* what the last call returned; <<>> is std::nullopt or void

vars == <<timers, next_id, result>>

Init == timers = {} /\ next_id = 1 /\ result = <<>>

Earliest == {t \in timers : \A u \in timers : t.deadline <= u.deadline}

Schedule(deadline) ==
    /\ timers' = timers \cup {[deadline |-> deadline, id |-> next_id]}
    /\ next_id' = next_id + 1
    /\ result' = <<"id", next_id>>

Cancel(id) ==
    /\ timers' = {t \in timers : t.id # id}
    /\ result' = <<>>
    /\ UNCHANGED next_id

NextDeadline ==
    /\ \/ timers = {} /\ result' = <<>>
       \/ \E t \in Earliest : result' = <<"deadline", t.deadline>>
    /\ UNCHANGED <<timers, next_id>>

(* Of several timers with the earliest deadline any one may fire. *)
PopDue(now) ==
    /\ \/ \E t \in Earliest : /\ t.deadline <= now
                              /\ timers' = timers \ {t}
                              /\ result' = <<"id", t.id>>
       \/ /\ \A t \in timers : t.deadline > now
          /\ result' = <<>>
          /\ UNCHANGED timers
    /\ UNCHANGED next_id

Empty == result' = <<"empty", timers = {}>> /\ UNCHANGED <<timers, next_id>>

Next == \/ \E t \in Time : Schedule(t) \/ PopDue(t)
        \/ \E id \in 1 .. next_id : Cancel(id)
        \/ NextDeadline \/ Empty

Spec == Init /\ [][Next]_vars

=============================================================================
