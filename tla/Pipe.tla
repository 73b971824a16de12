-------------------------------- MODULE Pipe --------------------------------
(***************************************************************************)
(* A pair of sessions as the programs use them: class-2 messages in one    *)
(* direction over a network that loses datagrams, on one clock.  A link is *)
(* a record; message k is the k-th that send() accepted, from 0.  Round    *)
(* trips take no time against the retransmission timeouts.  That what is   *)
(* delivered is the next message is what Session shows (ImplementsChannel);*)
(* the receiving application never stops reading, so that the window stays *)
(* open.                                                                   *)
(***************************************************************************)
EXTENDS Integers, FiniteSetsExt

CONSTANTS
    Window,  \* Config::window_pkts
    Rto0,    \* the retransmission timeout of a first transmission
    MaxRto   \* kMaxRto

Earlier(s, t) == IF s <= t THEN s ELSE t

NewLink ==
    [accepted |-> 0,        \* messages taken by send(): pending_ and before
     next_seq |-> 0,        \* of these, transmitted at least once
     acked    |-> 0,        \* last_ack_: the ring is acked .. next_seq - 1
     timers   |-> {},       \* of the slots that are neither acknowledged nor SACKed
     data     |-> {},       \* datagrams on their way
     acks     |-> {},       \* acknowledgements on their way
     arrived  |-> {}]       \* what the receiving session has

(* rcv_next_: the receiver's application has the messages before it. *)
Delivered(l) == CHOOSE k \in 0 .. l.next_seq : 0 .. k - 1 \subseteq l.arrived /\ k \notin l.arrived

in_flight(l) == l.next_seq - l.acked

(* Session::pump at time t. *)
Pump(l, t) ==
    LET top == Earlier(l.accepted, l.acked + Window)
        new == l.next_seq .. top - 1
    IN  [l EXCEPT !.next_seq = top,
                  !.data = @ \cup new,
                  !.timers = @ \cup {[seq |-> k, rto |-> Rto0, due |-> t + Rto0] : k \in new}]

(* Calls of send() until one is refused or total messages are in: pending_ *)
(* holds another window of messages behind the ring.                       *)
SendAll(l, total, t) ==
    LET l1 == [l EXCEPT !.accepted = Earlier(total, l.acked + 2 * Window)] IN Pump(l1, t)

(* One call of send(). *)
Accepts(l) == l.accepted < l.acked + 2 * Window

Send(l, t) == LET l1 == [l EXCEPT !.accepted = @ + 1] IN Pump(l1, t)

(* Session::poll at the sender: all acknowledgements that are there. *)
PollAcks(l, t) ==
    LET acked == Max({l.acked} \cup {a.cum : a \in l.acks})
        known == UNION {a.sack : a \in l.acks}
        kept  == {m \in l.timers : m.seq >= acked /\ m.seq \notin known}
        l1    == [l EXCEPT !.acked = acked, !.acks = {}, !.timers = kept]
    IN  Pump(l1, t)

(* Session::tick: every slot whose timer is due is sent again, and waits   *)
(* twice as long the next time.                                            *)
Tick(l, t) ==
    LET due      == {m \in l.timers : m.due <= t}
        again(m) == LET rto == Earlier(2 * m.rto, MaxRto)
                    IN  [seq |-> m.seq, rto |-> rto, due |-> t + rto]
    IN  [l EXCEPT !.data = @ \cup {m.seq : m \in due},
                  !.timers = (@ \ due) \cup {again(m) : m \in due}]

(* Session::poll at the receiver takes datagram k and acknowledges. *)
TakeData(l, k) ==
    LET l1 == [l EXCEPT !.data = @ \ {k}, !.arrived = @ \cup {k}]
    IN  [l1 EXCEPT !.acks = @ \cup {[cum |-> Delivered(l1), sack |-> l1.arrived]}]

(* The links the network may leave behind: one datagram less. *)
Lossy(l) == {[l EXCEPT !.data = @ \ {k}] : k \in l.data} \cup {[l EXCEPT !.acks = @ \ {a}] : a \in l.acks}

InTransit(l) == l.data # {} \/ l.acks # {}

(* The sender has nothing to do at time t but wait. *)
Idle(l, total, t) == /\ l.accepted = Earlier(total, l.acked + 2 * Window)
                     /\ \A m \in l.timers : m.due > t

TimerDues(l) == {m.due : m \in l.timers}

=============================================================================
