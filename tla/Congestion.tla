----------------------------- MODULE Congestion -----------------------------
(***************************************************************************)
(* taut::CongestionControl in mode PacedAimd, driven as Session drives it. *)
(* cc holds the fields of include/taut/congestion.h under their names; a   *)
(* millisecond is MilliTicks ticks, and next_send is the time still to wait*)
(* (ready only compares it with the clock).                                *)
(*                                                                         *)
(* The sender is what the controller sees of it: the ring of reliable      *)
(* packets and what happened to each.  The peer's window is not a limit    *)
(* here and there is always a message to send.                             *)
(***************************************************************************)
EXTENDS Integers, FiniteSets, FiniteSetsExt

CONSTANTS
    WindowPkts,   \* the values of Config::window_pkts
    InitialRtt,   \* Config::rto_floor, in milliseconds
    InitialCap,   \* the cap on the initial window: 10 in the code
    MilliTicks,   \* ticks in a millisecond: 10^6 in the code
    Samples,      \* the round-trip times that are measured, in milliseconds
    SackedAbove,  \* SACKed slots above a hole that make it lost: 3 in the code
    MaxSeq        \* bound: packets sent

ASSUME SizeAssumption == /\ {MaxSeq, SackedAbove} \subseteq Nat
                         /\ WindowPkts \cup {InitialCap} \subseteq Nat \ {0}
ASSUME TimeAssumption == /\ InitialRtt \in Nat /\ Samples \subseteq Nat
                         /\ MilliTicks \in Nat \ {0}

VARIABLES
    cc,        \* the controller
    next_seq,  \* Session::next_seq_
    ring,      \* the sequence numbers in Session::ring_
    sacked,    \* those of them with Slot::sacked
    fast,      \* those with Slot::fast_retransmitted
    resent,    \* those with Slot::transmit_count > 1
    old        \* history: the packets in the ring when the window last shrank

vars == <<cc, next_seq, ring, sacked, fast, resent, old>>

Larger(a, b) == IF a >= b THEN a ELSE b

Smaller(a, b) == IF a <= b THEN a ELSE b

-----------------------------------------------------------------------------
(* The controller.                                                         *)

CongestionControl(window_pkts) ==
    LET maximum == Larger(1, window_pkts)
    IN  [window |-> Smaller(InitialCap, maximum), threshold |-> maximum, maximum |-> maximum,
         credit |-> 0, recovery_end |-> 0, recovering |-> FALSE,
         srtt |-> Larger(InitialRtt, 1) * MilliTicks, next_send |-> 0]

(* One newly acknowledged packet: slow start below the threshold, above it *)
(* one packet more for a window of acknowledgements.                       *)
Credited(c) ==
    IF c.window < c.threshold THEN [c EXCEPT !.window = @ + 1]
    ELSE IF c.credit + 1 >= c.window THEN [c EXCEPT !.window = @ + 1, !.credit = 0]
    ELSE [c EXCEPT !.credit = @ + 1]

acknowledge(c, packets) ==
    LET after[k \in 0 .. packets] ==
            IF k = 0 THEN c
            ELSE IF after[k - 1].window < c.maximum THEN Credited(after[k - 1])
            ELSE after[k - 1]
    IN  after[packets]

(* Fault: the flight ends at the lost packet. *)
loss_short(c, sequence) ==
    IF c.recovering /\ sequence < c.recovery_end THEN c
    ELSE LET half == Larger(1, c.window \div 2)
         IN  [c EXCEPT !.threshold = half, !.window = half, !.credit = 0,
                       !.recovery_end = sequence + 1, !.recovering = TRUE]

loss(c, sequence) ==
    IF c.recovering /\ sequence < c.recovery_end THEN c
    ELSE LET half == Larger(1, c.window \div 2)
         IN  [c EXCEPT !.threshold = half, !.window = half, !.credit = 0,
                       !.recovery_end = next_seq, !.recovering = TRUE]

sample_rtt(c, sample) ==
    [c EXCEPT !.srtt = (@ * 7 + Larger(sample, 1) * MilliTicks) \div 8]

ready(c) == c.next_send = 0

sent(c) == [c EXCEPT !.next_send = c.srtt \div c.window]

-----------------------------------------------------------------------------
(* Its calls, made by the acknowledgement path of the session.             *)

(* Folds over slots of the ring, in its order and against it. *)
Upwards(f(_, _), c, slots) ==
    LET after[S \in SUBSET slots] ==
            IF S = {} THEN c ELSE f(after[S \ {Max(S)}], Max(S))
    IN  after[slots]

Downwards(f(_, _), c, slots) ==
    LET after[S \in SUBSET slots] ==
            IF S = {} THEN c ELSE f(after[S \ {Min(S)}], Min(S))
    IN  after[slots]

(* Fault: SACKed packets count again. *)
process_cum_ack_twice(c, acked, rtt) ==
    LET sampled == acked \ (resent \cup sacked)
        c1 == IF sampled = {} THEN c ELSE sample_rtt(c, rtt[Max(sampled)])
    IN  acknowledge(c1, Cardinality(acked))

(* Only a packet sent once gives a sample, and a SACKed one has given it;  *)
(* of the packets one cumulative acknowledgement covers, the last one does.*)
process_cum_ack(c, acked, rtt) ==
    LET sampled == acked \ (resent \cup sacked)
        c1 == IF sampled = {} THEN c ELSE sample_rtt(c, rtt[Max(sampled)])
    IN  acknowledge(c1, Cardinality(acked \ sacked))

(* The newly SACKed slots, then the losses they reveal, the highest first. *)
process_sack(c, marked, lost, rtt) ==
    LET Sampled(d, s) == sample_rtt(d, rtt[s])
        c1 == Upwards(Sampled, c, marked \ resent)
    IN  Downwards(loss, acknowledge(c1, Cardinality(marked)), lost)

-----------------------------------------------------------------------------
Init == /\ cc \in {CongestionControl(w) : w \in WindowPkts}
        /\ next_seq = 0
        /\ ring = {} /\ sacked = {} /\ fast = {} /\ resent = {} /\ old = {}

(* The window shrank in this step: the packets in the ring are one flight. *)
RecordFlight == old' = IF cc'.window < cc.window THEN ring ELSE old

(* One turn of the loop of Session::pump; cc.window is at most window_pkts. *)
pump == /\ next_seq < MaxSeq
        /\ Cardinality(ring) < cc.window
        /\ ready(cc)
        /\ cc' = sent(cc)
        /\ ring' = ring \cup {next_seq}
        /\ next_seq' = next_seq + 1
        /\ UNCHANGED <<sacked, fast, resent, old>>

(* An acknowledgement of everything below cum and of the packets above.    *)
(* Packets sent later have had less time, so they measure no more.         *)
on_ack(cum, above, rtt) ==
    LET acked  == {s \in ring : s < cum}
        left   == ring \ acked
        marked == {s \in above \cap left : s > cum} \ sacked
        known  == (sacked \cup marked) \cap left
        lost   == {s \in left \ (known \cup fast) :
                       Cardinality({t \in known : t > s}) >= SackedAbove}
    IN  /\ ring' = left
        /\ sacked' = known
        /\ fast' = (fast \cup lost) \cap left
        /\ resent' = (resent \cup lost) \cap left
        /\ cc' = process_sack(process_cum_ack(cc, acked, rtt), marked, lost, rtt)
        /\ RecordFlight
        /\ UNCHANGED next_seq

(* The retransmission timer of a slot fires. *)
retransmit(s) ==
    /\ s \in ring \ sacked
    /\ cc' = loss(cc, s)
    /\ resent' = resent \cup {s}
    /\ RecordFlight
    /\ UNCHANGED <<next_seq, ring, sacked, fast>>

Elapse == /\ cc.next_send > 0
          /\ cc' = [cc EXCEPT !.next_send = @ - 1]
          /\ UNCHANGED <<next_seq, ring, sacked, fast, resent, old>>

Measured == {rtt \in [ring -> Samples] : \A s, t \in ring : s < t => rtt[s] >= rtt[t]}

Next == \/ pump \/ Elapse
        \/ \E s \in ring : retransmit(s)
        \/ \E cum \in 0 .. next_seq, rtt \in Measured :
               \E above \in SUBSET {s \in ring : s > cum} : on_ack(cum, above, rtt)

Spec == Init /\ [][Next]_vars

-----------------------------------------------------------------------------
(* Properties.                                                             *)

(* Growth is earned, once per packet, whether it is acknowledged by SACK, *)
(* by the cumulative acknowledgement or by both: the window is never above *)
(* its first value by more than the packets acknowledged, and the credit of*)
(* congestion avoidance never reaches the present window, since a cut      *)
(* discards what the larger one earned.  So the window is never zero, by   *)
(* which sent() divides.                                                   *)
GrowthEarned ==
    /\ cc.window <= CongestionControl(cc.maximum).window + next_seq - Cardinality(ring \ sacked)
    /\ cc.credit < cc.window /\ cc.window <= cc.maximum

(* "halve once per recovery flight": when the window shrinks, a packet that*)
(* was not in flight when it last shrank has been lost.  Packets of one    *)
(* flight may be found lost by SACKs and by timers, in any order.          *)
OneCutPerFlight ==
    [][cc'.window < cc.window => \E s \in resent' \ resent : s \notin old]_vars

=============================================================================
