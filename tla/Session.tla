------------------------------ MODULE Session ------------------------------
(***************************************************************************)
(* Two taut::Session objects, one per node, joined by a datagram network.  *)
(*                                                                         *)
(* tx[n] and rx[n] are the send-side and the receive-side fields of the    *)
(* session at n, under the names of include/taut/session.h.  Each private  *)
(* function of session.cc is an operator from a record to the record it    *)
(* leaves behind, and each public call is one action that applies them in  *)
(* the order of the code.  poll() is the one call that spans several       *)
(* datagrams: Receive is one turn of its loop and PollEnd is what follows  *)
(* the loop, and no other call of that node comes between them.            *)
(*                                                                         *)
(* Time is abstract: a scheduled timer may fire in any later tick().  The  *)
(* network keeps every datagram, so it delivers each one any number of     *)
(* times, in any order, or never.                                          *)
(* Payloads are numbered in the order in which send() accepts them.        *)
(***************************************************************************)
EXTENDS Integers, Sequences, FiniteSets

CONSTANTS
    Node,           \* the two endpoints
    Window,         \* Config::window_pkts of each node, also its buffer capacity
    SackEnabled,    \* sack_enabled_
    SackBits,       \* bits in the SACK bitmap: 64 in the code
    FastThreshold,  \* SACKed slots above a hole that trigger a resend: 3 in the code
    DedupBits,      \* bits in the class-0 window: 64 in the code
    GenerationMod,  \* values of the ACK generation counter: 2^32 in the code
    Paced,          \* CongestionMode::PacedAimd: pump() may stop before the window is full
    MaxReliable,    \* bound on messages of class 1 and 2 accepted by each node
    MaxUnreliable,  \* bound on messages of class 0 sent by each node
    MaxAcks,        \* bound on standalone ACKs sent by each node
    ReliableClasses \* the reliable classes the applications use, among 1 and 2

ASSUME NodeAssumption == \E m, n \in Node : m # n /\ Node = {m, n}
ASSUME WindowAssumption == Window \in [Node -> Nat \ {0}]
ASSUME BitsAssumption == /\ SackBits \in Nat
                         /\ DedupBits \in Nat \ {0}
                         /\ FastThreshold \in Nat \ {0}
                         /\ GenerationMod \in Nat
                         /\ GenerationMod > 1
ASSUME ModeAssumption == SackEnabled \in BOOLEAN /\ Paced \in BOOLEAN
ASSUME BoundAssumption == /\ MaxReliable \in [Node -> Nat]
                          /\ MaxUnreliable \in [Node -> Nat]
                          /\ MaxAcks \in [Node -> Nat]
ASSUME ClassAssumption == ReliableClasses \subseteq {1, 2}

VARIABLES
    tx,        \* send side of each session
    rx,        \* receive side of each session
    polling,   \* the nodes inside the receive loop of poll()
    accepted,  \* history: the reliable messages send() accepted, in order
    net        \* the datagrams the network may still deliver

vars == <<tx, rx, polling, accepted, net>>

Peer(n) == CHOOSE m \in Node : m # n

Unreliable == 0
ReliableUnordered == 1
ReliableOrdered == 2

Message == [cls : 0 .. 2, data : Nat]

(* A decoded Packet.  sack holds the positions of the bits set in the bitmap. *)
Packet == [src : Node, type : {"Data", "Ack", "ProbeWindow"}, seq : Nat,
           cls : 0 .. 2, data : Nat, cum_ack : Nat, adv_window : Nat,
           sack_present : BOOLEAN, sack : SUBSET Nat]

Seqs(items) == {i.seq : i \in items}

-----------------------------------------------------------------------------
(* What a node puts in the packets it sends.                               *)

rcv_occupancy(r) == Len(r.rcv_buf) + r.buffered_c2

(* Fault: one slot too many. *)
has_buffer_space_inclusive(n, r) == rcv_occupancy(r) <= Window[n]

has_buffer_space(n, r) == rcv_occupancy(r) < Window[n]

my_adv_window(n, r) ==
    IF Len(r.rcv_buf) < Window[n] THEN Window[n] - Len(r.rcv_buf) ELSE 0

(* Fault: bit 0 stands for the number two above the cumulative ACK. *)
build_sack_shifted(r) ==
    {i \in 0 .. SackBits - 1 : r.rcv_next + 2 + i \in Seqs(r.reasm)}

build_sack(r) ==
    {i \in 0 .. SackBits - 1 : r.rcv_next + 1 + i \in Seqs(r.reasm)}

(* A packet of node n, its ACK fields filled in by fill_ack_fields. *)
MakePacket(n, r, type, seq, cls, data) ==
    LET present == SackEnabled /\ r.reasm # {}
    IN  [src |-> n, type |-> type, seq |-> seq, cls |-> cls, data |-> data,
         cum_ack |-> r.rcv_next, adv_window |-> my_adv_window(n, r),
         sack_present |-> present, sack |-> IF present THEN build_sack(r) ELSE {}]

NextGeneration(g) == IF (g + 1) % GenerationMod = 0 THEN 1 ELSE (g + 1) % GenerationMod

(* The ACK that send_ack() sends, and the counter it leaves. *)
AckPacket(n, r) == MakePacket(n, r, "Ack", r.next_ack_seq, Unreliable, 0)

send_ack(r) == [r EXCEPT !.next_ack_seq = NextGeneration(@),
                         !.acks_sent = @ + 1]

CanAck(n) == rx[n].acks_sent < MaxAcks[n]

-----------------------------------------------------------------------------
(* The send path.                                                          *)

MinOf(a, b) == IF a <= b THEN a ELSE b

(* Fault: the advertised window is ignored. *)
effective_window_local(n, s) == Window[n]

effective_window(n, s) == MinOf(Window[n], s.peer_adv_window)

(* How many queued messages pump() moves into the ring. *)
PumpRoom(n, s) ==
    LET free == effective_window(n, s) - Cardinality(s.ring)
    IN  IF free <= 0 THEN 0 ELSE MinOf(Len(s.pending), free)

PumpCounts(n, s) == IF Paced THEN 0 .. PumpRoom(n, s) ELSE {PumpRoom(n, s)}

PumpBatch(n, s, r, k) ==
    {MakePacket(n, r, "Data", s.next_seq + i - 1, s.pending[i].cls, s.pending[i].data) :
        i \in 1 .. k}

(* Fault: the first transmission schedules no timer. *)
pump_untimed(n, s, r, k) ==
    [s EXCEPT !.pending = SubSeq(@, k + 1, Len(@)),
              !.next_seq = @ + k,
              !.ring = @ \cup PumpBatch(n, s, r, k)]

pump(n, s, r, k) ==
    [s EXCEPT !.pending = SubSeq(@, k + 1, Len(@)),
              !.next_seq = @ + k,
              !.ring = @ \cup PumpBatch(n, s, r, k),
              !.armed = @ \cup s.next_seq .. (s.next_seq + k - 1)]

(* Fault: the probe waits for something in flight. *)
NeedsProbe_inverted(s) == s.pending # <<>> /\ s.peer_adv_window = 0 /\ s.ring # {}

NeedsProbe(s) == s.pending # <<>> /\ s.peer_adv_window = 0 /\ s.ring = {}

maybe_arm_persist(s) == [s EXCEPT !.persist_active = NeedsProbe(s)]

(* Fault: the slot the cumulative ACK names is freed too. *)
process_cum_ack_inclusive(s, cum_ack) ==
    LET kept == {d \in s.ring : d.seq > cum_ack}
    IN  [s EXCEPT !.ring = kept,
                  !.sacked = @ \cap Seqs(kept),
                  !.fast_retransmitted = @ \cap Seqs(kept),
                  !.armed = @ \cap Seqs(kept)]

process_cum_ack(s, cum_ack) ==
    LET kept == {d \in s.ring : d.seq >= cum_ack}
    IN  [s EXCEPT !.ring = kept,
                  !.sacked = @ \cap Seqs(kept),
                  !.fast_retransmitted = @ \cap Seqs(kept),
                  !.armed = @ \cap Seqs(kept)]

(* Fault: fast_retransmit cancels the timer and schedules no other. *)
process_sack_untimed(s, cum_ack, sack) ==
    LET marked == {q \in Seqs(s.ring) : \E i \in sack : q = cum_ack + 1 + i}
        sacked == s.sacked \cup marked
        holes == {q \in Seqs(s.ring) \ (sacked \cup s.fast_retransmitted) :
                     Cardinality({t \in sacked : t > q}) >= FastThreshold}
    IN  [s EXCEPT !.sacked = sacked,
                  !.fast_retransmitted = @ \cup holes,
                  !.armed = @ \ (marked \cup holes)]

(* The slots that the bitmap marks, and then the holes with enough marked  *)
(* slots above them, which fast_retransmit resends once each.              *)
process_sack(s, cum_ack, sack) ==
    LET marked == {q \in Seqs(s.ring) : \E i \in sack : q = cum_ack + 1 + i}
        sacked == s.sacked \cup marked
        holes == {q \in Seqs(s.ring) \ (sacked \cup s.fast_retransmitted) :
                     Cardinality({t \in sacked : t > q}) >= FastThreshold}
    IN  [s EXCEPT !.sacked = sacked,
                  !.fast_retransmitted = @ \cup holes,
                  !.armed = (@ \ marked) \cup holes]

(* Fault: every generation passes for newer. *)
serial_after_any(candidate, current) == TRUE

serial_after(candidate, current) ==
    LET distance == (candidate - current) % GenerationMod
    IN  distance # 0 /\ distance < GenerationMod \div 2

process_window_update(s, p) ==
    LET standalone == p.type = "Ack"
        numbered == standalone /\ p.seq # 0
        newer == \/ p.cum_ack > s.last_ack
                 \/ /\ p.cum_ack = s.last_ack
                    /\ standalone
                    /\ \/ ~ s.ack_seq_initialized
                       \/ numbered /\ serial_after(p.seq, s.last_ack_seq)
    IN  IF newer
        THEN [s EXCEPT !.peer_adv_window = p.adv_window,
                       !.last_ack = p.cum_ack,
                       !.last_ack_seq = IF numbered THEN p.seq ELSE @,
                       !.ack_seq_initialized = @ \/ numbered]
        ELSE s

(* The send side after the acknowledgement fields of a packet. *)
ProcessAckFields(s, p) ==
    LET s1 == process_cum_ack(process_window_update(s, p), p.cum_ack)
    IN  IF p.sack_present THEN process_sack(s1, p.cum_ack, p.sack) ELSE s1

(* The datagrams that fast_retransmit resends while s becomes t. *)
FastResent(s, t) ==
    {d \in t.ring : d.seq \in t.fast_retransmitted \ s.fast_retransmitted}

-----------------------------------------------------------------------------
(* The receive path.                                                       *)

emit(r, msgs) == IF r.app_ready THEN [r EXCEPT !.delivered = @ \o msgs]
                                ELSE [r EXCEPT !.rcv_buf = @ \o msgs]

AsMessage(item) == [cls |-> item.cls, data |-> item.data]

(* The messages of a set of reassembly entries, by ascending sequence number. *)
InSeqOrder(items) ==
    LET order == CHOOSE f \in [1 .. Cardinality(items) -> items] :
                    \A i, j \in 1 .. Cardinality(items) : i < j => f[i].seq < f[j].seq
    IN  [i \in 1 .. Cardinality(items) |-> AsMessage(order[i])]

(* The first sequence number at or above rcv_next that reasm does not hold. *)
FirstGap(r) ==
    CHOOSE q \in {r.rcv_next} \cup {e.seq + 1 : e \in r.reasm} :
        q \notin Seqs(r.reasm) /\ r.rcv_next .. (q - 1) \subseteq Seqs(r.reasm)

flush_reassembled(r) ==
    LET gap == FirstGap(r)
        run == {e \in r.reasm : e.seq < gap}
        held == {e \in run : e.cls = ReliableOrdered}
    IN  [emit(r, InSeqOrder(held)) EXCEPT !.reasm = @ \ run,
                                          !.rcv_next = gap,
                                          !.buffered_c2 = @ - Cardinality(held)]

Entry(p) == [seq |-> p.seq, cls |-> p.cls, data |-> p.data]

(* Fault: an out-of-order arrival is not looked up in the map. *)
handle_reliable_unchecked(n, r, p) ==
    IF p.seq = r.rcv_next /\ (r.app_ready \/ has_buffer_space(n, r))
    THEN flush_reassembled([emit(r, <<AsMessage(p)>>) EXCEPT !.rcv_next = @ + 1])
    ELSE IF p.seq > r.rcv_next /\ has_buffer_space(n, r)
    THEN IF p.cls = ReliableUnordered
         THEN [emit(r, <<AsMessage(p)>>) EXCEPT !.reasm = @ \cup {Entry(p)}]
         ELSE [r EXCEPT !.reasm = @ \cup {Entry(p)}, !.buffered_c2 = @ + 1]
    ELSE r

(* Fault: class 2 is passed on out of order like class 1. *)
handle_reliable_eager(n, r, p) ==
    IF p.seq = r.rcv_next /\ (r.app_ready \/ has_buffer_space(n, r))
    THEN flush_reassembled([emit(r, <<AsMessage(p)>>) EXCEPT !.rcv_next = @ + 1])
    ELSE IF p.seq > r.rcv_next /\ p.seq \notin Seqs(r.reasm) /\ has_buffer_space(n, r)
    THEN [emit(r, <<AsMessage(p)>>) EXCEPT !.reasm = @ \cup {Entry(p)}]
    ELSE r

(* handle_reliable up to its trailing send_ack. *)
handle_reliable(n, r, p) ==
    IF p.seq = r.rcv_next /\ (r.app_ready \/ has_buffer_space(n, r))
    THEN flush_reassembled([emit(r, <<AsMessage(p)>>) EXCEPT !.rcv_next = @ + 1])
    ELSE IF p.seq > r.rcv_next /\ p.seq \notin Seqs(r.reasm) /\ has_buffer_space(n, r)
    THEN IF p.cls = ReliableUnordered
         THEN [emit(r, <<AsMessage(p)>>) EXCEPT !.reasm = @ \cup {Entry(p)}]
         ELSE [r EXCEPT !.reasm = @ \cup {Entry(p)}, !.buffered_c2 = @ + 1]
    ELSE r

(* Fault: the bits slide one position further than the base. *)
handle_unreliable_skewed(r, p) ==
    LET base == IF r.ur_init THEN r.ur_base ELSE p.seq
        shift == IF p.seq - base >= DedupBits THEN p.seq - base - (DedupBits - 1) ELSE 0
        seen == IF shift = 0 THEN r.ur_seen
                ELSE {i \in 0 .. DedupBits - 1 : i + shift + 1 \in r.ur_seen}
        bit == p.seq - (base + shift)
        slid == [r EXCEPT !.ur_init = TRUE, !.ur_base = base + shift, !.ur_seen = seen]
    IN  IF p.seq < base THEN r
        ELSE IF bit \in seen THEN slid
        ELSE [slid EXCEPT !.ur_seen = @ \cup {bit},
                          !.heard = IF r.app_ready THEN Append(@, AsMessage(p)) ELSE @]

(* ur_seen holds the positions of the bits set in the class-0 window. *)
handle_unreliable(r, p) ==
    LET base == IF r.ur_init THEN r.ur_base ELSE p.seq
        shift == IF p.seq - base >= DedupBits THEN p.seq - base - (DedupBits - 1) ELSE 0
        seen == {i \in 0 .. DedupBits - 1 : i + shift \in r.ur_seen}
        bit == p.seq - (base + shift)
        slid == [r EXCEPT !.ur_init = TRUE, !.ur_base = base + shift, !.ur_seen = seen]
    IN  IF p.seq < base THEN r
        ELSE IF bit \in seen THEN slid
        ELSE [slid EXCEPT !.ur_seen = @ \cup {bit},
                          !.heard = IF r.app_ready THEN Append(@, AsMessage(p)) ELSE @]

-----------------------------------------------------------------------------
(* The public calls.                                                       *)

Init ==
    /\ tx = [n \in Node |->
               [next_seq |-> 0, next_unreliable_seq |-> 0, pending |-> <<>>, ring |-> {},
                sacked |-> {}, fast_retransmitted |-> {}, armed |-> {},
                peer_adv_window |-> Window[n], last_ack |-> 0, last_ack_seq |-> 0,
                ack_seq_initialized |-> FALSE, persist_active |-> FALSE]]
    /\ rx = [n \in Node |->
               [rcv_next |-> 0, reasm |-> {}, buffered_c2 |-> 0, rcv_buf |-> <<>>,
                app_ready |-> TRUE, next_ack_seq |-> 1, acks_sent |-> 0, delivered |-> <<>>,
                heard |-> <<>>, ur_init |-> FALSE, ur_base |-> 0, ur_seen |-> {}]]
    /\ polling = {}
    /\ accepted = [n \in Node |-> <<>>]
    /\ net = {}

(* pump() and maybe_arm_persist(), which end send(), poll() and tick(), on *)
(* a send side that has reached s.  resent is what the call already sent.  *)
PumpAndArm(n, s, resent) ==
    \E k \in PumpCounts(n, s) :
        LET t == pump(n, s, rx[n], k)
        IN  /\ tx' = [tx EXCEPT ![n] = maybe_arm_persist(t)]
            /\ net' = net \cup resent \cup (t.ring \ s.ring)

(* send() with a reliable class; at a full queue it refuses and changes nothing. *)
Send(n, cls) ==
    LET msg == [cls |-> cls, data |-> Len(accepted[n]) + 1]
    IN  /\ n \notin polling
        /\ Len(accepted[n]) < MaxReliable[n]
        /\ Len(tx[n].pending) < Window[n]
        /\ accepted' = [accepted EXCEPT ![n] = Append(@, msg)]
        /\ PumpAndArm(n, [tx[n] EXCEPT !.pending = Append(@, msg)], {})
        /\ UNCHANGED <<rx, polling>>

(* send() with class 0. *)
SendUnreliable(n) ==
    LET seq == tx[n].next_unreliable_seq
    IN  /\ n \notin polling
        /\ seq < MaxUnreliable[n]
        /\ tx' = [tx EXCEPT ![n].next_unreliable_seq = seq + 1]
        /\ net' = net \cup {MakePacket(n, rx[n], "Data", seq, Unreliable, seq + 1)}
        /\ UNCHANGED <<rx, polling, accepted>>

(* Fault: a reliable packet that changes nothing is not acknowledged again. *)
Receive_once(n, p, left) ==
    LET s == ProcessAckFields(tx[n], p)
        r == IF p.type # "Data" THEN rx[n]
             ELSE IF p.cls = Unreliable THEN handle_unreliable(rx[n], p)
             ELSE handle_reliable(n, rx[n], p)
        acks == p.type = "ProbeWindow" \/ (p.type = "Data" /\ r # rx[n])
    IN  /\ p.src = Peer(n)
        /\ acks => CanAck(n)
        /\ tx' = [tx EXCEPT ![n] = s]
        /\ rx' = [rx EXCEPT ![n] = IF acks THEN send_ack(r) ELSE r]
        /\ net' = left \cup FastResent(tx[n], s)
                       \cup (IF acks THEN {AckPacket(n, r)} ELSE {})
        /\ polling' = polling \cup {n}
        /\ UNCHANGED accepted

(* One turn of the loop of poll() at n, on packet p; left is what the      *)
(* network may still deliver afterwards.                                   *)
Receive(n, p, left) ==
    LET s == ProcessAckFields(tx[n], p)
        r == IF p.type # "Data" THEN rx[n]
             ELSE IF p.cls = Unreliable THEN handle_unreliable(rx[n], p)
             ELSE handle_reliable(n, rx[n], p)
        acks == p.type = "ProbeWindow" \/ (p.type = "Data" /\ p.cls # Unreliable)
    IN  /\ p.src = Peer(n)
        /\ acks => CanAck(n)
        /\ tx' = [tx EXCEPT ![n] = s]
        /\ rx' = [rx EXCEPT ![n] = IF acks THEN send_ack(r) ELSE r]
        /\ net' = left \cup FastResent(tx[n], s)
                       \cup (IF acks THEN {AckPacket(n, r)} ELSE {})
        /\ polling' = polling \cup {n}
        /\ UNCHANGED accepted

(* The end of poll(): nothing is left to read, or max_recv_per_poll is reached. *)
PollEnd(n) ==
    /\ PumpAndArm(n, tx[n], {})
    /\ polling' = polling \ {n}
    /\ UNCHANGED <<rx, accepted>>

(* tick() when the retransmission timers of due, and the persist timer if  *)
(* probe holds, have expired.                                              *)
Tick(n, due, probe) ==
    LET resent == {d \in tx[n].ring : d.seq \in due \ tx[n].sacked}
        s == [tx[n] EXCEPT !.armed = (@ \ due) \cup Seqs(resent)]
    IN  /\ n \notin polling
        /\ due \subseteq tx[n].armed
        /\ probe => tx[n].persist_active
        /\ PumpAndArm(n, s, resent \cup
                         (IF probe THEN {MakePacket(n, rx[n], "ProbeWindow", 0, Unreliable, 0)}
                                   ELSE {}))
        /\ UNCHANGED <<rx, polling, accepted>>

(* set_receiving(): resuming drains the queue to the application and acks. *)
SetReceiving(n, receiving) ==
    LET r == IF receiving
             THEN [rx[n] EXCEPT !.app_ready = TRUE,
                                !.delivered = @ \o rx[n].rcv_buf, !.rcv_buf = <<>>]
             ELSE [rx[n] EXCEPT !.app_ready = FALSE]
    IN  /\ n \notin polling
        /\ receiving => CanAck(n)
        /\ rx' = [rx EXCEPT ![n] = IF receiving THEN send_ack(r) ELSE r]
        /\ net' = IF receiving THEN net \cup {AckPacket(n, r)} ELSE net
        /\ UNCHANGED <<tx, polling, accepted>>

Next ==
    \E n \in Node :
        \/ \E cls \in ReliableClasses : Send(n, cls)
        \/ SendUnreliable(n)
        \/ \E p \in net : Receive(n, p, net)
        \/ PollEnd(n)
        \/ \E due \in SUBSET tx[n].armed, probe \in BOOLEAN : Tick(n, due, probe)
        \/ \E receiving \in BOOLEAN : SetReceiving(n, receiving)

Spec == Init /\ [][Next]_vars

-----------------------------------------------------------------------------
(* Properties.                                                             *)

TxState ==
    [next_seq : Nat, next_unreliable_seq : Nat, pending : Seq(Message), ring : SUBSET Packet,
     sacked : SUBSET Nat, fast_retransmitted : SUBSET Nat, armed : SUBSET Nat,
     peer_adv_window : Nat, last_ack : Nat, last_ack_seq : Nat,
     ack_seq_initialized : BOOLEAN, persist_active : BOOLEAN]

RxState ==
    [rcv_next : Nat, reasm : SUBSET [seq : Nat, cls : 1 .. 2, data : Nat],
     buffered_c2 : Int, rcv_buf : Seq(Message), app_ready : BOOLEAN, next_ack_seq : Nat,
     acks_sent : Nat, delivered : Seq(Message), heard : Seq(Message), ur_init : BOOLEAN, ur_base : Nat,
     ur_seen : SUBSET Nat]

(* The fields of both sessions keep the types session.h declares. *)
TypeOK ==
    /\ tx \in [Node -> TxState]
    /\ rx \in [Node -> RxState]
    /\ polling \subseteq Node
    /\ accepted \in [Node -> Seq(Message)]
    /\ net \subseteq Packet

(* What n has taken charge of for its application: handed over, then queued. *)
TakenBy(r) == r.delivered \o r.rcv_buf

Taken(n) == TakenBy(rx[n])

Elements(q) == {q[i] : i \in 1 .. Len(q)}

(* Sequence numbers of the peer's reliable messages that n has received. *)
Received(n) == {q \in 0 .. tx[Peer(n)].next_seq : q < rx[n].rcv_next}
               \cup Seqs(rx[n].reasm)

NoRepeat(q) == \A i, j \in 1 .. Len(q) : q[i] = q[j] => i = j

(* No reliable message reaches the application twice, whatever is          *)
(* duplicated, retransmitted or reordered (handle_reliable).               *)
AtMostOnce == \A n \in Node : NoRepeat(Taken(n))

(* No class-0 message reaches the application twice, although the window   *)
(* handle_unreliable remembers is finite and slides.                       *)
UnreliableAtMostOnce == \A n \in Node : NoRepeat(rx[n].heard)

(* Class-2 messages reach the application in the order the peer's send()   *)
(* accepted them and without a gap, even though handle_reliable,           *)
(* flush_reassembled and set_receiving all hand them over.                 *)
OrderedInTurn ==
    \A n \in Node : \A i \in 1 .. Len(Taken(n)), m \in Elements(accepted[Peer(n)]) :
        /\ Taken(n)[i].cls = ReliableOrdered
        /\ m.cls = ReliableOrdered
        /\ m.data < Taken(n)[i].data
        => \E j \in 1 .. i - 1 : Taken(n)[j] = m

(* The sender forgets a reliable message only when the receiver has it: an *)
(* accepted message is queued, in the ring, or taken charge of by the peer *)
(* (process_cum_ack never pops a slot the peer may still need).            *)
NoLoss ==
    \A n \in Node : \A i \in 1 .. Len(accepted[n]) :
        \/ accepted[n][i] \in Elements(tx[n].pending)
        \/ \E d \in tx[n].ring : AsMessage(d) = accepted[n][i]
        \/ accepted[n][i] \in Elements(Taken(Peer(n)))

(* A slot that process_sack marks, and so never times out again, is one the *)
(* peer holds: stale bitmaps in late or resent datagrams stay true.         *)
SackTruthful == \A n \in Node : tx[n].sacked \subseteq Received(Peer(n))

(* The receive buffer never exceeds its capacity, and the cached count of  *)
(* held class-2 payloads is the number really held.                        *)
NoOverflow ==
    \A n \in Node :
        /\ rcv_occupancy(rx[n]) <= Window[n]
        /\ rx[n].buffered_c2 =
             Cardinality({e \in rx[n].reasm : e.cls = ReliableOrdered})

(* Every slot that is not SACKed has a live retransmission timer and no    *)
(* other slot has one; the oldest slot is never SACKed.                    *)
TimersCoverRing ==
    \A n \in Node : /\ tx[n].armed = Seqs(tx[n].ring) \ tx[n].sacked
                    /\ tx[n].ring # {} => tx[n].armed # {}

(* Between calls, a session with reliable work left has a timer that will  *)
(* bring tick() back to it: a retransmission or the zero-window probe.     *)
NoStall ==
    \A n \in Node : ~ Paced /\ n \notin polling /\ (tx[n].pending # <<>> \/ tx[n].ring # {})
                        => tx[n].armed # {} \/ tx[n].persist_active

(* What a sender has outstanding beyond the peer's cumulative ACK never    *)
(* exceeds its window, so a window of at most SackBits + 1 packets keeps   *)
(* every out-of-order packet inside the bitmap.                            *)
SpanBounded ==
    \A n \in Node : tx[n].next_seq - rx[Peer(n)].rcv_next <= Window[n]

(* Invariant 3 of docs/DESIGN.md, stated in docs/DESIGN-flow.md to hold    *)
(* "literally, at all times" for class 2.                                  *)
InFlightWithinAdvertised ==
    \A n \in Node : /\ Cardinality(tx[n].ring) <= Window[n]
                    /\ Cardinality(tx[n].ring) <= tx[n].peer_adv_window

(* The edge up to which the peer may send never moves back while only      *)
(* class 2 is in use: an older advertisement does not clobber a newer one. *)
WindowNeverReneges ==
    [][\A n \in Node : tx'[n].last_ack + tx'[n].peer_adv_window
                         >= tx[n].last_ack + tx[n].peer_adv_window]_vars

Channel == INSTANCE ReliableChannel WITH taken <- [n \in Node |-> Taken(n)]

(* The sessions implement the channel: each call either accepts one        *)
(* message, takes charge of a batch that is new and in turn, or is         *)
(* invisible to the applications.                                          *)
ImplementsChannel == Channel!Spec

=============================================================================
