----------------------------- MODULE TimerHeap ------------------------------
(***************************************************************************)
(* taut::TimerHeap: a binary heap of deadlines whose cancelled entries stay*)
(* until they reach the root.  Indices are from 1.  Clients may cancel any *)
(* timer they were given, also one that has fired or is cancelled already: *)
(* Session::process_cum_ack cancels the timers of SACKed slots again.      *)
(***************************************************************************)
EXTENDS Naturals, Sequences, FiniteSets

CONSTANTS
    Time,       \* the instants
    MaxTimers   \* bound: timers scheduled

VARIABLES
    heap,       \* heap_
    cancelled,  \* cancelled_
    next_id,    \* next_id_
    result      \* what the last call returned; <<>> is std::nullopt or void

vars == <<heap, cancelled, next_id, result>>

Entry == [deadline : Time, id : Nat]

Swap(h, i, j) == [h EXCEPT ![i] = h[j], ![j] = h[i]]

sift_up[h \in Seq(Entry), i \in Nat] ==
    IF i > 1 /\ h[i].deadline < h[i \div 2].deadline
    THEN sift_up[Swap(h, i, i \div 2), i \div 2]
    ELSE h

(* The child of i that has an earlier deadline than i, the left one unless *)
(* the right one is earlier still; i itself if there is none.              *)
smallest(h, i) ==
    LET Before(j, k) == j <= Len(h) /\ h[j].deadline < h[k].deadline
        left == IF Before(2 * i, i) THEN 2 * i ELSE i
    IN  IF Before(2 * i + 1, left) THEN 2 * i + 1 ELSE left

sift_down[h \in Seq(Entry), i \in Nat] ==
    IF smallest(h, i) = i THEN h ELSE sift_down[Swap(h, i, smallest(h, i)), smallest(h, i)]

remove_root(h) ==
    LET rest == SubSeq([h EXCEPT ![1] = h[Len(h)]], 1, Len(h) - 1)
    IN  IF rest = <<>> THEN rest ELSE sift_down[rest, 1]

(* Fault: the discarded id is kept. *)
prune_root_keeping(h, dead) ==
    LET pruned[g \in Seq(Entry)] ==
            IF g # <<>> /\ Head(g).id \in dead THEN pruned[remove_root(g)] ELSE g
    IN  <<pruned[h], dead>>

(* The heap and the cancelled ids after the dead entries at the root are gone. *)
prune_root(h, dead) ==
    LET pruned[g \in Seq(Entry), d \in SUBSET Nat] ==
            IF g # <<>> /\ Head(g).id \in d
            THEN pruned[remove_root(g), d \ {Head(g).id}]
            ELSE <<g, d>>
    IN  pruned[h, dead]

-----------------------------------------------------------------------------
Init == heap = <<>> /\ cancelled = {} /\ next_id = 1 /\ result = <<>>

Ids == {heap[i].id : i \in 1 .. Len(heap)}

Live == {e \in {heap[i] : i \in 1 .. Len(heap)} : e.id \notin cancelled}

schedule(deadline) ==
    /\ next_id <= MaxTimers
    /\ heap' = sift_up[Append(heap, [deadline |-> deadline, id |-> next_id]), Len(heap) + 1]
    /\ next_id' = next_id + 1
    /\ result' = <<"id", next_id>>
    /\ UNCHANGED cancelled

cancel(id) ==
    /\ cancelled' = cancelled \cup {id}
    /\ result' = <<>>
    /\ UNCHANGED <<heap, next_id>>

next_deadline ==
    LET pruned == prune_root(heap, cancelled)
    IN  /\ heap' = pruned[1]
        /\ cancelled' = pruned[2]
        /\ result' = IF pruned[1] = <<>> THEN <<>> ELSE <<"deadline", Head(pruned[1]).deadline>>
        /\ UNCHANGED next_id

(* Fault: the entry at the root fires although it is cancelled. *)
pop_due_unpruned(now) ==
    LET due == heap # <<>> /\ Head(heap).deadline <= now
    IN  /\ heap' = IF due THEN remove_root(heap) ELSE heap
        /\ result' = IF due THEN <<"id", Head(heap).id>> ELSE <<>>
        /\ UNCHANGED <<cancelled, next_id>>

pop_due(now) ==
    LET pruned == prune_root(heap, cancelled)
        due == pruned[1] # <<>> /\ Head(pruned[1]).deadline <= now
    IN  /\ heap' = IF due THEN remove_root(pruned[1]) ELSE pruned[1]
        /\ cancelled' = pruned[2]
        /\ result' = IF due THEN <<"id", Head(pruned[1]).id>> ELSE <<>>
        /\ UNCHANGED next_id

empty ==
    LET pruned == prune_root(heap, cancelled)
    IN  /\ heap' = pruned[1]
        /\ cancelled' = pruned[2]
        /\ result' = <<"empty", pruned[1] = <<>> >>
        /\ UNCHANGED next_id

Next == \/ \E t \in Time : schedule(t) \/ pop_due(t)
        \/ \E id \in 1 .. next_id - 1 : cancel(id)
        \/ next_deadline \/ empty

Spec == Init /\ [][Next]_vars

-----------------------------------------------------------------------------
(* Properties.                                                             *)

Timers == INSTANCE TimerSet WITH timers <- Live

(* Every call does and returns what it would on a plain set of timers: a   *)
(* cancelled timer never fires, no timer fires early, twice, or before an  *)
(* earlier one, and none is lost.                                          *)
ImplementsTimerSet == Timers!Spec

(* An entry that leaves the heap, popped or pruned, leaves nothing behind  *)
(* in cancelled_: that set is bounded by the entries that wait in the heap *)
(* and the calls that cancel a timer which is gone.                        *)
EntriesReleased == [][Ids \cap cancelled' \subseteq Ids']_vars

=============================================================================
