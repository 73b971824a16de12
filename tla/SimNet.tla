------------------------------- MODULE SimNet -------------------------------
(***************************************************************************)
(* src/sim_net.cc: the deterministic network the tests run on, for the     *)
(* inbox of one endpoint.  Datagrams are numbered as they are sent; the    *)
(* engine's words stand for its draws of loss, duplication and jitter.     *)
(***************************************************************************)
EXTENDS Integers, Sequences, FiniteSets

CONSTANTS
    Width,     \* bits of an engine word (64 in the code)
    Delay,     \* imp_.delay
    Jitters,   \* values of imp_.jitter
    MaxSent, MaxNow   \* bounds: datagrams, and the clock

VARIABLES
    jitter, now, seqctr,
    box,       \* the inbox: a sequence of [deliver_at, seqno, id]
    posted,    \* datagrams sent so far
    lost,      \* of these, the ones dropped
    log        \* what receive returned: [id, seqno]

simVars == <<jitter, now, seqctr, box, posted, lost, log>>

Init == /\ jitter \in Jitters
        /\ now = 0 /\ seqctr = 0 /\ box = <<>> /\ posted = 0 /\ lost = {} /\ log = <<>>

-----------------------------------------------------------------------------
Words == 0 .. 2 ^ Width - 1

(* (~bound + 1) % bound *)
reject_below(bound) == ((2 ^ Width - bound) % 2 ^ Width) % bound

(* The words with which the loop of uniform_below ends. *)
Kept(bound) == {r \in Words : r >= reject_below(bound)}

uniform_below(bound) == {r % bound : r \in Kept(bound)}

draw_delay == {Delay + j : j \in IF jitter > 0 THEN uniform_below(jitter) ELSE {0}}

(* deliver: dropped, or enqueued once or twice, each copy with its own     *)
(* delay.                                                                  *)
deliver ==
    /\ posted < MaxSent /\ posted' = posted + 1
    /\ \/ lost' = lost \cup {posted} /\ UNCHANGED <<box, seqctr>>
       \/ /\ \E d \in draw_delay, dup \in BOOLEAN : \E d2 \in IF dup THEN draw_delay ELSE {Delay} :
               LET one == [deliver_at |-> now + d, seqno |-> seqctr, id |-> posted]
                   two == [deliver_at |-> now + d2, seqno |-> seqctr + 1, id |-> posted]
               IN  IF dup THEN box' = box \o <<one, two>> /\ seqctr' = seqctr + 2
                          ELSE box' = Append(box, one) /\ seqctr' = seqctr + 1
          /\ UNCHANGED lost
    /\ UNCHANGED <<jitter, now, log>>

(* Fault: equal times are not told apart, and the last one wins. *)
Earlier_time(p, q) == p.deliver_at <= q.deliver_at

Earlier(p, q) == p.deliver_at < q.deliver_at \/ (p.deliver_at = q.deliver_at /\ p.seqno < q.seqno)

Due == {i \in DOMAIN box : box[i].deliver_at <= now}

(* The scan of receive: the index it ends with. *)
best == LET scan[i \in 0 .. Len(box)] ==
                IF i = 0 THEN 0
                ELSE LET b == scan[i - 1]
                     IN  IF i \in Due /\ (b = 0 \/ Earlier(box[i], box[b])) THEN i ELSE b
        IN  scan[Len(box)]

(* box[best] = std::move(box.back()), box.pop_back() *)
Without(i) == SubSeq([box EXCEPT ![i] = box[Len(box)]], 1, Len(box) - 1)

receive == /\ best # 0
           /\ log' = Append(log, [id |-> box[best].id, seqno |-> box[best].seqno])
           /\ box' = Without(best)
           /\ UNCHANGED <<jitter, now, seqctr, posted, lost>>

advance == /\ now < MaxNow
           /\ now' = now + 1
           /\ UNCHANGED <<jitter, seqctr, box, posted, lost, log>>

Next == deliver \/ receive \/ advance

Spec == Init /\ [][Next]_simVars

-----------------------------------------------------------------------------
(* Properties.                                                             *)

(* receive returns what deliver enqueued: the copies received and those in *)
(* the inbox are all that were enqueued, each once, and none of a datagram *)
(* that was dropped.  Without jitter, "(source of reorder)", they come in  *)
(* the order they were sent, although receive leaves the inbox out of it.  *)
InboxHonest ==
    LET seqnos == [i \in DOMAIN log |-> log[i].seqno] \o [i \in DOMAIN box |-> box[i].seqno]
    IN  /\ {seqnos[i] : i \in DOMAIN seqnos} = 0 .. seqctr - 1
        /\ Len(seqnos) = seqctr
        /\ {log[i].id : i \in DOMAIN log} \cap lost = {}
        /\ jitter = 0 => \A i, j \in DOMAIN log : i < j => log[i].seqno < log[j].seqno

=============================================================================
