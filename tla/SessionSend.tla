---------------------------- MODULE SessionSend ----------------------------
(* The send path of Session, and what the datagrams in flight promise.     *)
EXTENDS SessionLemmas, FunctionTheorems

-----------------------------------------------------------------------------
(* Datagrams in flight.                                                    *)

LEMMA AcksMember ==
    ASSUME NEW N, NEW n, NEW p \in N, p.src = n
    PROVE  /\ p.cum_ack \in Acks(N, n)
           /\ \A i \in p.sack : p.cum_ack + 1 + i \in Bits(N, n)
BY DEF Acks, Bits

LEMMA AcksWitness ==
    ASSUME NEW N, NEW n
    PROVE  /\ \A c \in Acks(N, n) : \E p \in N : p.src = n /\ c = p.cum_ack
           /\ \A q \in Bits(N, n) :
                 \E p \in N : p.src = n /\ \E i \in p.sack : q = p.cum_ack + 1 + i
BY DEF Acks, Bits

LEMMA AcksMonotone ==
    ASSUME NEW N, NEW M, N \subseteq M, NEW n
    PROVE  Acks(N, n) \subseteq Acks(M, n) /\ Bits(N, n) \subseteq Bits(M, n)
<1>1. ASSUME NEW c \in Acks(N, n) PROVE c \in Acks(M, n)
  BY AcksWitness, AcksMember
<1>2. ASSUME NEW q \in Bits(N, n) PROVE q \in Bits(M, n)
  <2>1. PICK p \in N : p.src = n /\ \E i \in p.sack : q = p.cum_ack + 1 + i
    BY AcksWitness
  <2>. QED
    BY <2>1, AcksMember
<1>. QED
  BY <1>1, <1>2

(* p carries the ACK fields that fill_ack_fields takes from r. *)
Fresh(n, r, p) == /\ p.src = n
                  /\ p.cum_ack = r.rcv_next
                  /\ \A i \in p.sack : i \in Nat /\ r.rcv_next + 1 + i \in Seqs(r.reasm)

LEMMA MakePacketFresh ==
    ASSUME NEW n, NEW r, NEW type, NEW seq, NEW cls, NEW data
    PROVE  Fresh(n, r, MakePacket(n, r, type, seq, cls, data))
BY BitsAssumption DEF Fresh, MakePacket, build_sack

(* The promises of n's datagrams survive when n receives more and sends    *)
(* datagrams filled in from what it then has.                              *)
LEMMA AcksStep ==
    ASSUME NEW n, NEW N \in SUBSET Packet, NEW M \in SUBSET Packet,
           NEW r \in RxState, NEW u \in RxState,
           AcksOK(N, n, r), r.rcv_next <= u.rcv_next, Got(r) \subseteq Got(u),
           u.rcv_next \notin Seqs(u.reasm), \A e \in u.reasm : u.rcv_next <= e.seq,
           \A p \in M : p \in N \/ p.src # n \/ Fresh(n, u, p)
    PROVE  AcksOK(M, n, u)
<1>1. r.rcv_next \in Nat /\ u.rcv_next \in Nat /\ \A e \in u.reasm : e.seq \in Nat
  BY DEF RxState
<1>2. u.rcv_next \notin Got(u) /\ Seqs(u.reasm) \subseteq Got(u)
      /\ \A q \in Seqs(u.reasm) : q > u.rcv_next
  BY <1>1 DEF Got, Seqs
<1>3. ASSUME NEW c \in Acks(M, n) PROVE c \in Acks(N, n) \/ c = u.rcv_next
  <2>1. PICK p \in M : p.src = n /\ c = p.cum_ack
    BY AcksWitness
  <2>. QED
    BY <2>1, AcksMember DEF Fresh
<1>4. ASSUME NEW q \in Bits(M, n) PROVE q \in Bits(N, n) \/ q \in Seqs(u.reasm)
  <2>1. PICK p \in M : p.src = n /\ \E i \in p.sack : q = p.cum_ack + 1 + i
    BY AcksWitness
  <2>. QED
    BY <2>1, AcksMember DEF Fresh
<1>5. \A c \in Acks(N, n) : c \in Nat /\ c <= u.rcv_next
  <2>1. \A c \in Acks(N, n) : c \in Nat
    BY AcksWitness DEF Packet
  <2>. QED
    BY <2>1, <1>1 DEF AcksOK
<1>6. \A c \in Acks(M, n) : c <= u.rcv_next
  BY <1>1, <1>3, <1>5
<1>7. Bits(M, n) \subseteq Got(u)
  BY <1>2, <1>4 DEF AcksOK
<1>8. ASSUME NEW c \in Acks(M, n), c \in Bits(M, n) PROVE FALSE
  <2>1. CASE c = u.rcv_next
    BY <2>1, <1>2, <1>7, <1>8
  <2>2. CASE c \in Acks(N, n) /\ c \in Bits(N, n)
    BY <2>2 DEF AcksOK
  <2>3. CASE c \in Acks(N, n) /\ c \in Seqs(u.reasm)
    BY <2>3, <1>1, <1>2, <1>5
  <2>. QED
    BY <2>1, <2>2, <2>3, <1>3, <1>4, <1>8, SMTT(30)
<1>. QED
  BY <1>6, <1>7, <1>8 DEF AcksOK

-----------------------------------------------------------------------------
(* The acknowledgement path.                                               *)

(* process_window_update keeps the highest cumulative ACK seen. *)
LEMMA WindowUpdateFields ==
    ASSUME NEW s \in TxState, NEW p \in Packet
    PROVE  /\ process_window_update(s, p).last_ack =
                 (IF p.cum_ack > s.last_ack THEN p.cum_ack ELSE s.last_ack)
           /\ process_window_update(s, p).next_seq = s.next_seq
           /\ process_window_update(s, p).pending = s.pending
           /\ process_window_update(s, p).ring = s.ring
           /\ process_window_update(s, p).sacked = s.sacked
           /\ process_window_update(s, p).armed = s.armed
           /\ process_window_update(s, p).fast_retransmitted = s.fast_retransmitted
<1>1. s.last_ack \in Nat /\ p.cum_ack \in Nat
  BY DEF TxState, Packet
<1>. QED
  BY <1>1 DEF process_window_update, TxState

(* After the ACK fields of a datagram the ring is again the span from the  *)
(* last cumulative ACK, and its timers are those of the slots not SACKed.  *)
LEMMA AckFieldsProperties ==
    ASSUME NEW n \in Node, NEW s \in TxState, NEW acc, NEW N \in SUBSET Packet,
           TxOK(n, s, acc, N), NEW p \in N, p.src = Peer(n), p.cum_ack <= s.next_seq
    PROVE  /\ ProcessAckFields(s, p) \in TxState
           /\ TxOK(n, ProcessAckFields(s, p), acc, N)
           /\ ProcessAckFields(s, p).next_seq = s.next_seq
           /\ FastResent(s, ProcessAckFields(s, p)) \subseteq s.ring
<1>. DEFINE w == process_window_update(s, p)
            c == process_cum_ack(w, p.cum_ack)
            v == ProcessAckFields(s, p)
            kept == {d \in s.ring : d.seq >= p.cum_ack}
<1>1. p \in Packet /\ p.cum_ack \in Nat /\ p.sack \in SUBSET Nat /\ p.sack_present \in BOOLEAN
  BY DEF Packet
<1>2. /\ s.last_ack \in Nat /\ s.next_seq \in Nat /\ s.ring \subseteq Packet
      /\ \A d \in s.ring : d.seq \in Nat
  BY DEF TxState, Packet
<1>3. w \in TxState /\ c \in TxState
  BY <1>1, ProcessWindowUpdateType, ProcessCumAckType
<1>4. v \in TxState
  BY <1>1, <1>3, ProcessSackType DEF ProcessAckFields
<1>5. /\ w.last_ack = (IF p.cum_ack > s.last_ack THEN p.cum_ack ELSE s.last_ack)
      /\ w.next_seq = s.next_seq /\ w.pending = s.pending /\ w.ring = s.ring
      /\ w.sacked = s.sacked /\ w.armed = s.armed
  BY <1>1, WindowUpdateFields, SMTT(30)
<1>. HIDE DEF w
<1>6. /\ c.last_ack = w.last_ack /\ c.next_seq = s.next_seq /\ c.pending = s.pending
      /\ c.ring = kept /\ c.sacked = s.sacked \cap Seqs(kept)
      /\ c.armed = s.armed \cap Seqs(kept)
  BY <1>3, <1>5, Zenon DEF process_cum_ack, TxState
<1>. HIDE DEF c
<1>7. Seqs(kept) = {q \in Seqs(s.ring) : q >= p.cum_ack}
  BY DEF Seqs
<1>8. Seqs(s.ring) = s.last_ack .. (s.next_seq - 1) /\ s.last_ack <= s.next_seq
  BY DEF TxOK
<1>9. Seqs(kept) = c.last_ack .. (s.next_seq - 1) /\ c.last_ack <= s.next_seq
      /\ s.last_ack <= c.last_ack /\ c.last_ack \in Nat
  <2>1. /\ c.last_ack \in Nat /\ s.last_ack <= c.last_ack /\ c.last_ack <= s.next_seq
        /\ \A q \in Nat : q >= s.last_ack /\ q >= p.cum_ack <=> q >= c.last_ack
    BY <1>1, <1>2, <1>5, <1>6, <1>8, SMTT(30)
  <2>2. ASSUME NEW q \in Seqs(kept) PROVE q \in c.last_ack .. (s.next_seq - 1)
    BY <2>1, <2>2, <1>2, <1>7, <1>8, SMTT(30)
  <2>3. ASSUME NEW q \in c.last_ack .. (s.next_seq - 1) PROVE q \in Seqs(kept)
    BY <2>1, <2>3, <1>1, <1>2, <1>7, <1>8, SMTT(30)
  <2>. QED
    BY <2>1, <2>2, <2>3, Zenon
<1>10. c.armed = Seqs(kept) \ c.sacked /\ c.sacked \subseteq Bits(N, Peer(n)) \cap Seqs(kept)
  <2>1. Seqs(kept) \subseteq Seqs(s.ring)
    BY <1>7
  <2>. QED
    BY <2>1, <1>6 DEF TxOK
<1>11. c.last_ack \in Acks(N, Peer(n)) \cup {0}
  BY <1>1, <1>5, <1>6, AcksMember, SMTT(30) DEF TxOK
<1>12. /\ v.last_ack = c.last_ack /\ v.next_seq = s.next_seq /\ v.pending = s.pending
       /\ v.ring = kept /\ v.armed = Seqs(kept) \ v.sacked
       /\ v.sacked \subseteq Bits(N, Peer(n)) \cap Seqs(kept)
  <2>1. CASE ~ p.sack_present
    <3>1. v = c
      BY <2>1 DEF ProcessAckFields, c, w
    <3>. QED
      BY <3>1, <1>6, <1>10
  <2>2. CASE p.sack_present
    <3>. DEFINE marked == {q \in Seqs(c.ring) : \E i \in p.sack : q = p.cum_ack + 1 + i}
                sacked == c.sacked \cup marked
                holes == {q \in Seqs(c.ring) \ (sacked \cup c.fast_retransmitted) :
                            Cardinality({t \in sacked : t > q}) >= FastThreshold}
    <3>1. v = process_sack(c, p.cum_ack, p.sack)
      BY <2>2 DEF ProcessAckFields, c, w
    <3>2. /\ v.last_ack = c.last_ack /\ v.next_seq = c.next_seq /\ v.pending = c.pending
          /\ v.ring = c.ring /\ v.sacked = sacked /\ v.armed = (c.armed \ marked) \cup holes
      BY <3>1, <1>3 DEF process_sack, TxState
    <3>3. marked \subseteq Bits(N, Peer(n)) /\ marked \subseteq Seqs(kept)
      BY <1>6, AcksMember
    <3>4. holes \subseteq Seqs(kept) \ sacked
      BY <1>6
    <3>. HIDE DEF marked, holes
    <3>5. v.armed = Seqs(kept) \ v.sacked
      BY <3>2, <3>4, <1>10, SMTT(30)
    <3>. QED
      BY <3>2, <3>3, <3>5, <1>6, <1>10, SMTT(30)
  <2>. QED
    BY <1>1, <2>1, <2>2
<1>. HIDE DEF v
<1>13. TxOK(n, v, acc, N)
  <2>1. /\ Source(acc) /\ Len(acc) = v.next_seq + Len(v.pending)
        /\ \A i \in 1 .. Len(v.pending) : v.pending[i] = acc[v.next_seq + i]
    BY <1>12 DEF TxOK
  <2>2. /\ v.ring \subseteq N /\ Keyed(v.ring)
        /\ \A d \in v.ring : d.src = n /\ d.type = "Data" /\ d.cls \in 1 .. 2
    BY <1>12 DEF TxOK, Keyed
  <2>3. v.next_seq - v.last_ack <= Window[n]
    BY <1>2, <1>9, <1>12, WindowAssumption, SMTT(30) DEF TxOK
  <2>. QED
    BY <2>1, <2>2, <2>3, <1>9, <1>11, <1>12, SMTT(30) DEF TxOK
<1>14. FastResent(s, v) \subseteq s.ring
  BY <1>12 DEF FastResent
<1>. QED
  BY <1>4, <1>12, <1>13, <1>14 DEF v

-----------------------------------------------------------------------------
(* The send path.                                                          *)

(* A ring keyed by sequence number has as many slots as it spans numbers. *)
LEMMA RingSize ==
    ASSUME NEW ring \in SUBSET Packet, Keyed(ring),
           NEW lo \in Nat, NEW hi \in Nat, lo <= hi, Seqs(ring) = lo .. (hi - 1)
    PROVE  IsFiniteSet(ring) /\ Cardinality(ring) = hi - lo
<1>. DEFINE f == [d \in ring |-> d.seq]
            I == lo .. (hi - 1)
<1>1. f \in Bijection(ring, I)
  <2>1. \A d \in ring : d.seq \in I
    BY DEF Seqs
  <2>2. f \in Injection(ring, I)
    BY <2>1 DEF Injection, IsInjective, Keyed
  <2>3. \A i \in I : \E d \in ring : f[d] = i
    BY DEF Seqs
  <2>4. f \in Surjection(ring, I)
    BY <2>1, <2>3 DEF Surjection
  <2>. QED
    BY <2>2, <2>4 DEF Bijection
<1>2. IsFiniteSet(I) /\ Cardinality(I) = hi - lo
  <2>1. lo \in Int /\ hi - 1 \in Int
    OBVIOUS
  <2>2. IsFiniteSet(I) /\ Cardinality(I) = IF lo > hi - 1 THEN 0 ELSE (hi - 1) - lo + 1
    BY <2>1, FS_Interval
  <2>. QED
    BY <2>2
<1>3. ExistsBijection(I, ring)
  <2>1. ExistsBijection(ring, I)
    BY <1>1 DEF ExistsBijection
  <2>. QED
    BY <2>1, Fun_ExistsBijSymmetric
<1>. QED
  BY <1>2, <1>3, FS_Bijection

(* pump() moves at most what the window leaves free, and all of it unless  *)
(* congestion control paces it.                                            *)
LEMMA PumpCountProperties ==
    ASSUME NEW n \in Node, NEW s \in TxState, NEW acc, NEW N, TxOK(n, s, acc, N),
           NEW k \in PumpCounts(n, s)
    PROVE  /\ k \in 0 .. Len(s.pending)
           /\ s.next_seq + k - s.last_ack <= Window[n]
           /\ ~ Paced /\ s.ring = {} /\ k = 0 /\ s.pending # <<>> => s.peer_adv_window = 0
<1>1. /\ s.pending \in Seq(Message) /\ Len(s.pending) \in Nat /\ s.peer_adv_window \in Nat
      /\ s.next_seq \in Nat /\ s.last_ack \in Nat /\ s.ring \in SUBSET Packet
  BY DEF TxState
<1>2. Window[n] \in Nat \ {0} /\ Paced \in BOOLEAN
  BY WindowAssumption, ModeAssumption
<1>3. /\ Keyed(s.ring) /\ Seqs(s.ring) = s.last_ack .. (s.next_seq - 1)
      /\ s.last_ack <= s.next_seq /\ s.next_seq - s.last_ack <= Window[n]
  BY DEF TxOK
<1>4. Cardinality(s.ring) = s.next_seq - s.last_ack
  BY <1>1, <1>3, RingSize
<1>5. effective_window(n, s) \in Nat /\ effective_window(n, s) <= Window[n]
      /\ (effective_window(n, s) = 0 => s.peer_adv_window = 0)
  BY <1>1, <1>2, SMTT(30) DEF effective_window, MinOf
<1>6. PumpRoom(n, s) \in 0 .. Len(s.pending)
      /\ (PumpRoom(n, s) = 0 \/ PumpRoom(n, s) <= effective_window(n, s) - Cardinality(s.ring))
  BY <1>1, <1>3, <1>4, <1>5, SMTT(30) DEF PumpRoom, MinOf
<1>7. k \in 0 .. PumpRoom(n, s) /\ (~ Paced => k = PumpRoom(n, s))
  BY <1>1, <1>2, <1>6, SMTT(30) DEF PumpCounts
<1>8. s.next_seq + k - s.last_ack <= Window[n]
  <2>1. PumpRoom(n, s) \in Nat /\ Window[n] \in Nat
    BY <1>2, <1>6
  <2>. QED
    BY <2>1, <1>1, <1>3, <1>4, <1>5, <1>6, <1>7, SMTT(30)
<1>9. ASSUME ~ Paced, s.ring = {}, k = 0, s.pending # <<>> PROVE s.peer_adv_window = 0
  <2>1. Len(s.pending) > 0
    BY <1>1, <1>9, EmptySeq
  <2>2. Cardinality(s.ring) = 0
    BY <1>9, FS_EmptySet
  <2>3. effective_window(n, s) = 0
    BY <2>1, <2>2, <1>1, <1>5, <1>7, <1>9, SMTT(30) DEF PumpRoom, MinOf
  <2>. QED
    BY <2>3, <1>5
<1>. QED
  BY <1>1, <1>6, <1>7, <1>8, <1>9

(* Each packet of the batch carries the message of its sequence number. *)
LEMMA PumpBatchProperties ==
    ASSUME NEW n \in Node, NEW s \in TxState, NEW r \in RxState, NEW acc, NEW N,
           TxOK(n, s, acc, N), NEW k \in 0 .. Len(s.pending)
    PROVE  /\ \A p \in PumpBatch(n, s, r, k) :
                /\ p \in Packet /\ Fresh(n, r, p) /\ p.type = "Data" /\ p.cls \in 1 .. 2
                /\ p.seq \in s.next_seq .. (s.next_seq + k - 1)
                /\ AsMessage(p) = acc[p.seq + 1]
           /\ Keyed(PumpBatch(n, s, r, k))
           /\ Seqs(PumpBatch(n, s, r, k)) = s.next_seq .. (s.next_seq + k - 1)
<1>. DEFINE pk(i) == MakePacket(n, r, "Data", s.next_seq + i - 1,
                                s.pending[i].cls, s.pending[i].data)
            B == PumpBatch(n, s, r, k)
<1>1. /\ s.pending \in Seq(Message) /\ Len(s.pending) \in Nat /\ s.next_seq \in Nat
      /\ k \in Nat /\ k <= Len(s.pending)
  BY DEF TxState
<1>2. B = {pk(i) : i \in 1 .. k}
  BY SMTT(30) DEF PumpBatch
<1>3. ASSUME NEW i \in 1 .. k
      PROVE  /\ pk(i) \in Packet /\ Fresh(n, r, pk(i)) /\ pk(i).type = "Data"
             /\ pk(i).cls \in 1 .. 2 /\ pk(i).seq = s.next_seq + i - 1
             /\ AsMessage(pk(i)) = acc[pk(i).seq + 1]
  <2>1. i \in 1 .. Len(s.pending) /\ s.pending[i] \in Message
    BY <1>1
  <2>2. s.pending[i] = acc[s.next_seq + i] /\ s.next_seq + i \in 1 .. Len(acc)
    BY <2>1, <1>1 DEF TxOK
  <2>3. s.pending[i].cls \in 1 .. 2 /\ s.pending[i].data \in Nat
    BY <2>1, <2>2 DEF TxOK, Source, Message
  <2>4. s.next_seq + i - 1 \in Nat /\ (s.next_seq + i - 1) + 1 = s.next_seq + i
    BY <1>1
  <2>5. pk(i) \in Packet
    BY <2>3, <2>4, MakePacketType
  <2>6. Fresh(n, r, pk(i))
    BY MakePacketFresh, SMTT(30)
  <2>7. /\ pk(i).type = "Data" /\ pk(i).seq = s.next_seq + i - 1
        /\ pk(i).cls = s.pending[i].cls /\ pk(i).data = s.pending[i].data
    BY SMTT(30) DEF MakePacket
  <2>8. AsMessage(pk(i)) = s.pending[i]
    BY <2>1, <2>7 DEF AsMessage, Message
  <2>. QED
    BY <2>2, <2>3, <2>4, <2>5, <2>6, <2>7, <2>8, ZenonT(30)
<1>. HIDE DEF pk, B
<1>4. ASSUME NEW p \in B
      PROVE  /\ p \in Packet /\ Fresh(n, r, p) /\ p.type = "Data" /\ p.cls \in 1 .. 2
             /\ p.seq \in s.next_seq .. (s.next_seq + k - 1)
             /\ AsMessage(p) = acc[p.seq + 1]
  <2>1. PICK i \in 1 .. k : p = pk(i)
    BY <1>2
  <2>. QED
    BY <2>1, <1>1, <1>3
<1>5. Keyed(B)
  <2>. SUFFICES ASSUME NEW i \in 1 .. k, NEW j \in 1 .. k, pk(i).seq = pk(j).seq
                PROVE  pk(i) = pk(j)
    BY <1>2 DEF Keyed
  <2>1. i = j
    BY <1>1, <1>3
  <2>. QED
    BY <2>1
<1>6. ASSUME NEW q \in s.next_seq .. (s.next_seq + k - 1) PROVE q \in Seqs(B)
  <2>1. q - s.next_seq + 1 \in 1 .. k /\ s.next_seq + (q - s.next_seq + 1) - 1 = q
    BY <1>1
  <2>2. pk(q - s.next_seq + 1).seq = q /\ pk(q - s.next_seq + 1) \in B
    BY <2>1, <1>2, <1>3, SMTT(30)
  <2>. QED
    BY <2>2 DEF Seqs
<1>7. Seqs(B) = s.next_seq .. (s.next_seq + k - 1)
  BY <1>4, <1>6, SMTT(30) DEF Seqs
<1>. QED
  BY <1>4, <1>5, <1>7 DEF B

(* The network N after datagrams X and those pump() adds to make s into t. *)
PumpNet(N, X, s, t) == N \cup X \cup (t.ring \ s.ring)

Pumped(n, s, r, k) == maybe_arm_persist(pump(n, s, r, k))

(* pump() and maybe_arm_persist() keep the send side right, and leave the  *)
(* probe armed when the window holds the whole queue back.                 *)
LEMMA PumpProperties ==
    ASSUME NEW n \in Node, NEW s \in TxState, NEW r \in RxState, NEW acc,
           NEW N \in SUBSET Packet, NEW X \in SUBSET Packet,
           TxOK(n, s, acc, N), DataOK(N \cup X, n, acc, s.next_seq),
           NEW k \in PumpCounts(n, s)
    PROVE  /\ Pumped(n, s, r, k) \in TxState
           /\ PumpNet(N, X, s, pump(n, s, r, k)) \in SUBSET Packet
           /\ TxOK(n, Pumped(n, s, r, k), acc, PumpNet(N, X, s, pump(n, s, r, k)))
           /\ DataOK(PumpNet(N, X, s, pump(n, s, r, k)), n, acc, Pumped(n, s, r, k).next_seq)
           /\ ProbeOK(Pumped(n, s, r, k))
           /\ \A p \in PumpNet(N, X, s, pump(n, s, r, k)) : p \in N \cup X \/ Fresh(n, r, p)
           /\ s.next_seq <= Pumped(n, s, r, k).next_seq
           /\ Pumped(n, s, r, k).next_seq <= Len(acc)
<1>. DEFINE B == PumpBatch(n, s, r, k)
            rest == SubSeq(s.pending, k + 1, Len(s.pending))
            t == pump(n, s, r, k)
            u == maybe_arm_persist(t)
            M == N \cup X \cup (t.ring \ s.ring)
<1>1. /\ s.pending \in Seq(Message) /\ Len(s.pending) \in Nat /\ s.next_seq \in Nat
      /\ s.last_ack \in Nat /\ s.ring \in SUBSET Packet /\ s.armed \in SUBSET Nat
      /\ \A d \in s.ring : d.seq \in Nat
  BY DEF TxState, Packet
<1>2. /\ k \in 0 .. Len(s.pending) /\ k \in Nat /\ k <= Len(s.pending)
      /\ s.next_seq + k - s.last_ack <= Window[n]
      /\ ~ Paced /\ s.ring = {} /\ k = 0 /\ s.pending # <<>> => s.peer_adv_window = 0
  BY <1>1, PumpCountProperties, SMTT(30)
<1>3. /\ \A p \in B :
             /\ p \in Packet /\ Fresh(n, r, p) /\ p.type = "Data" /\ p.cls \in 1 .. 2
             /\ p.seq \in s.next_seq .. (s.next_seq + k - 1)
             /\ AsMessage(p) = acc[p.seq + 1]
      /\ Keyed(B)
      /\ Seqs(B) = s.next_seq .. (s.next_seq + k - 1)
  BY <1>2, PumpBatchProperties
<1>. HIDE DEF B
<1>4. /\ rest \in Seq(Message) /\ Len(rest) = Len(s.pending) - k
      /\ \A i \in 1 .. Len(rest) : rest[i] = s.pending[k + i]
  <2>1. Len(rest) = Len(s.pending) - k /\ rest \in Seq(Message)
    BY <1>1, <1>2
  <2>2. \A i \in 1 .. Len(rest) : rest[i] = s.pending[k + 1 + i - 1]
    BY <2>1, <1>1, <1>2, SMTT(30)
  <2>3. \A i \in 1 .. Len(rest) : k + 1 + i - 1 = k + i
    BY <2>1, <1>1, <1>2
  <2>. QED
    BY <2>1, <2>2, <2>3, Zenon
<1>. HIDE DEF rest
<1>5. t = [s EXCEPT !.pending = rest, !.next_seq = s.next_seq + k, !.ring = s.ring \cup B,
                    !.armed = s.armed \cup s.next_seq .. (s.next_seq + k - 1)]
  BY DEF pump, rest, B
<1>. HIDE DEF t
<1>6. t \in TxState
  <2>1. s.next_seq + k \in Nat /\ s.ring \cup B \in SUBSET Packet
        /\ s.armed \cup s.next_seq .. (s.next_seq + k - 1) \in SUBSET Nat
    BY <1>1, <1>2, <1>3
  <2>. QED
    BY <2>1, <1>4, <1>5, Zenon DEF TxState
<1>7. u = [t EXCEPT !.persist_active = NeedsProbe(t)]
  BY DEF maybe_arm_persist
<1>. HIDE DEF u
<1>8. u \in TxState
  BY <1>6, <1>7, Zenon DEF TxState, NeedsProbe
<1>9. /\ u.pending = rest /\ u.next_seq = s.next_seq + k /\ u.ring = s.ring \cup B
      /\ t.ring = s.ring \cup B
      /\ u.armed = s.armed \cup s.next_seq .. (s.next_seq + k - 1)
      /\ u.last_ack = s.last_ack /\ u.sacked = s.sacked
      /\ rest # <<>> /\ s.peer_adv_window = 0 /\ s.ring \cup B = {} => u.persist_active
  <2>1. /\ t.pending = rest /\ t.next_seq = s.next_seq + k /\ t.ring = s.ring \cup B
        /\ t.armed = s.armed \cup s.next_seq .. (s.next_seq + k - 1)
        /\ t.last_ack = s.last_ack /\ t.sacked = s.sacked
        /\ t.peer_adv_window = s.peer_adv_window
    BY <1>5 DEF TxState
  <2>2. /\ u.pending = t.pending /\ u.next_seq = t.next_seq /\ u.ring = t.ring
        /\ u.armed = t.armed /\ u.last_ack = t.last_ack /\ u.sacked = t.sacked
        /\ u.persist_active = NeedsProbe(t)
    BY <1>6, <1>7 DEF TxState
  <2>3. rest # <<>> /\ s.peer_adv_window = 0 /\ s.ring \cup B = {} => NeedsProbe(t)
    BY <2>1, SMTT(30) DEF NeedsProbe
  <2>. QED
    BY <2>1, <2>2, <2>3
<1>10. /\ Source(acc) /\ Len(acc) = s.next_seq + Len(s.pending)
       /\ \A i \in 1 .. Len(s.pending) : s.pending[i] = acc[s.next_seq + i]
       /\ s.ring \subseteq N /\ Keyed(s.ring)
       /\ \A d \in s.ring : d.src = n /\ d.type = "Data" /\ d.cls \in 1 .. 2
       /\ Seqs(s.ring) = s.last_ack .. (s.next_seq - 1) /\ s.last_ack <= s.next_seq
       /\ s.last_ack \in Acks(N, Peer(n)) \cup {0}
       /\ s.sacked \subseteq Bits(N, Peer(n)) \cap Seqs(s.ring)
       /\ s.armed = Seqs(s.ring) \ s.sacked
  BY DEF TxOK
<1>11. /\ u.next_seq = s.next_seq + k /\ u.last_ack = s.last_ack
       /\ Len(acc) = s.next_seq + Len(s.pending) /\ s.last_ack <= s.next_seq
  BY <1>9, <1>10, SMTT(30)
<1>12. M \in SUBSET Packet /\ N \subseteq M /\ u.ring \subseteq M
       /\ \A p \in M : p \in N \cup X \/ p \in B
  BY <1>3, <1>9, <1>10, SMTT(30)
<1>. HIDE DEF M
<1>13. Seqs(u.ring) = Seqs(s.ring) \cup Seqs(B)
  BY <1>9 DEF Seqs
<1>14. Seqs(u.ring) = u.last_ack .. (u.next_seq - 1)
  <2>1. Seqs(u.ring) = (s.last_ack .. (s.next_seq - 1)) \cup (s.next_seq .. (s.next_seq + k - 1))
    BY <1>3, <1>10, <1>13, SMTT(30)
  <2>. QED
    BY <2>1, <1>1, <1>2, <1>11, SMTT(30)
<1>15. Keyed(u.ring)
  <2>1. \A d \in s.ring : d.seq < s.next_seq
    BY <1>1, <1>10, SMTT(30) DEF Seqs
  <2>2. \A d \in B : d.seq >= s.next_seq
    BY <1>1, <1>2, <1>3, SMTT(30)
  <2>3. \A d \in s.ring, e \in B : d.seq # e.seq
    BY <1>1, <1>2, <1>3, <2>1, <2>2, SMTT(30)
  <2>. QED
    BY <2>3, <1>3, <1>9, <1>10, SMTT(30) DEF Keyed
<1>16. TxOK(n, u, acc, M)
  <2>1. Acks(N, Peer(n)) \subseteq Acks(M, Peer(n)) /\ Bits(N, Peer(n)) \subseteq Bits(M, Peer(n))
    BY <1>12, AcksMonotone, SMTT(30)
  <2>2. Len(acc) = u.next_seq + Len(u.pending)
    BY <1>1, <1>2, <1>4, <1>9, <1>10, SMTT(60)
  <2>3. \A i \in 1 .. Len(u.pending) : u.pending[i] = acc[u.next_seq + i]
    <3>. SUFFICES ASSUME NEW i \in 1 .. Len(rest) PROVE rest[i] = acc[(s.next_seq + k) + i]
      BY <1>9
    <3>1. k + i \in 1 .. Len(s.pending) /\ s.next_seq + (k + i) = (s.next_seq + k) + i
      BY <1>1, <1>2, <1>4, SMTT(30)
    <3>. QED
      BY <3>1, <1>4, <1>10, SMTT(30)
  <2>4. \A d \in u.ring : d.src = n /\ d.type = "Data" /\ d.cls \in 1 .. 2
    BY <1>3, <1>9, <1>10, SMTT(30) DEF Fresh
  <2>5. u.last_ack <= u.next_seq /\ u.next_seq - u.last_ack <= Window[n]
    BY <1>1, <1>2, <1>9, <1>10, SMTT(30)
  <2>6. u.armed = Seqs(u.ring) \ u.sacked
    <3>1. Seqs(B) \cap s.sacked = {}
      BY <1>1, <1>2, <1>3, <1>10, SMTT(30)
    <3>. QED
      BY <3>1, <1>3, <1>9, <1>10, <1>13, ZenonT(60)
  <2>. QED
    BY <2>1, <2>2, <2>3, <2>4, <2>5, <2>6, <1>9, <1>10, <1>12, <1>13, <1>14, <1>15, ZenonT(60) DEF TxOK
<1>17. DataOK(M, n, acc, u.next_seq)
  <2>. SUFFICES ASSUME NEW p \in M, p.src = n, p.type = "Data"
                PROVE  IF p.cls = Unreliable THEN p.data = p.seq + 1
                       ELSE p.seq < u.next_seq /\ AsMessage(p) = acc[p.seq + 1]
    BY DEF DataOK
  <2>1. p.seq \in Nat
    BY <1>12, SMTT(30) DEF Packet
  <2>2. CASE p \in N \cup X
    BY <2>1, <2>2, <1>1, <1>2, <1>9, SMTT(30) DEF DataOK
  <2>3. CASE p \in B
    <3>1. /\ p.cls \in 1 .. 2 /\ AsMessage(p) = acc[p.seq + 1]
          /\ p.seq \in s.next_seq .. (s.next_seq + k - 1)
      BY <2>3, <1>3, SMTT(30)
    <3>2. p.seq < u.next_seq
      BY <2>1, <3>1, <1>1, <1>2, <1>11, SMTT(60)
    <3>. QED
      BY <3>1, <3>2, SMTT(30) DEF Unreliable
  <2>. QED
    BY <2>2, <2>3, <1>12, SMTT(30)
<1>18. ProbeOK(u)
  <2>. SUFFICES ASSUME ~ Paced, rest # <<>>, s.ring \cup B = {} PROVE u.persist_active
    BY <1>9, SMTT(30) DEF ProbeOK
  <2>1. k = 0
    <3>1. Seqs(B) = {}
      BY DEF Seqs
    <3>. QED
      BY <3>1, <1>1, <1>2, <1>3, SMTT(30)
  <2>2. Len(rest) # 0
    BY <1>4, EmptySeq, SMTT(30)
  <2>3. s.pending # <<>>
    BY <2>1, <2>2, <1>1, <1>4, SMTT(30)
  <2>. QED
    BY <2>1, <2>3, <1>2, <1>9, SMTT(30)
<1>19. s.next_seq <= u.next_seq /\ u.next_seq <= Len(acc)
  BY <1>1, <1>2, <1>11, SMTT(30)
<1>. QED
  BY <1>3, <1>8, <1>12, <1>16, <1>17, <1>18, <1>19, SMTT(30) DEF Pumped, PumpNet, t, u, M

-----------------------------------------------------------------------------
(* Class 0.                                                                *)

(* handle_unreliable slides its window without forgetting that a number    *)
(* above the base was heard.                                               *)
LEMMA HandleUnreliableProperties ==
    ASSUME NEW r \in RxState, DedupOK(r), NEW p \in Packet,
           p.cls = Unreliable, p.data = p.seq + 1,
           NEW u, u = handle_unreliable(r, p)
    PROVE  /\ u \in RxState
           /\ DedupOK(u)
           /\ u.rcv_next = r.rcv_next /\ u.reasm = r.reasm /\ u.buffered_c2 = r.buffered_c2
           /\ u.rcv_buf = r.rcv_buf /\ u.delivered = r.delivered /\ u.app_ready = r.app_ready
<1>. DEFINE base == IF r.ur_init THEN r.ur_base ELSE p.seq
            shift == IF p.seq - base >= DedupBits THEN p.seq - base - (DedupBits - 1) ELSE 0
            seen == {i \in 0 .. DedupBits - 1 : i + shift \in r.ur_seen}
            bit == p.seq - (base + shift)
            slid == [r EXCEPT !.ur_init = TRUE, !.ur_base = base + shift, !.ur_seen = seen]
            next == [slid EXCEPT !.ur_seen = @ \cup {bit},
                        !.heard = IF r.app_ready THEN Append(@, AsMessage(p)) ELSE @]
            Marked(x, b, S) == x.data - 1 < b \/ x.data - 1 - b \in S
<1>1. /\ r.ur_base \in Nat /\ r.ur_seen \subseteq Nat /\ r.heard \in Seq(Message)
      /\ p.seq \in Nat /\ DedupBits \in Nat \ {0} /\ r.ur_init \in BOOLEAN
      /\ r.app_ready \in BOOLEAN /\ Len(r.heard) \in Nat
  BY BitsAssumption, SMTT(30) DEF RxState, Packet
<1>2. base \in Nat
  BY <1>1
<1>3. u = IF p.seq < base THEN r ELSE IF bit \in seen THEN slid ELSE next
  BY DEF handle_unreliable
<1>4. CASE p.seq < base
  BY <1>3, <1>4, SMTT(30)
<1>5. CASE p.seq >= base
  <2>. HIDE DEF base
  <2>1. shift \in Nat /\ bit \in 0 .. DedupBits - 1
    BY <1>1, <1>2, <1>5, SMTT(30)
  <2>2. seen \subseteq 0 .. DedupBits - 1 /\ seen \subseteq Nat /\ base + shift \in Nat
    BY <1>1, <1>2, <2>1, SMTT(30)
  <2>3. ASSUME NEW i \in 1 .. Len(r.heard)
        PROVE  r.heard[i] \in Message /\ Marked(r.heard[i], base + shift, seen)
    <3>1. r.ur_init /\ base = r.ur_base
      <4>1. r.heard # <<>>
        BY <1>1
      <4>. QED
        BY <4>1, <1>1 DEF DedupOK, base
    <3>. DEFINE x == r.heard[i].data
    <3>2. r.heard[i] \in Message /\ x \in Nat
      <4>1. r.heard[i] \in Message
        BY <1>1, SMTT(30)
      <4>. QED
        BY <4>1 DEF Message
    <3>3. x - 1 < base \/ x - 1 - base \in r.ur_seen
      BY <3>1 DEF DedupOK
    <3>. HIDE DEF x
    <3>4. ASSUME x - 1 >= base + shift PROVE x - 1 - (base + shift) \in seen
      <4>1. x - 1 - base \in r.ur_seen /\ r.ur_seen \subseteq 0 .. DedupBits - 1
        BY <3>2, <3>3, <3>4, <1>2, <2>1, SMTT(30) DEF DedupOK
      <4>2. x - 1 - (base + shift) \in 0 .. DedupBits - 1
        BY <3>2, <3>4, <4>1, <1>1, <1>2, <2>1, SMTT(30)
      <4>3. x - 1 - (base + shift) + shift = x - 1 - base
        BY <3>2, <1>2, <2>1, SMTT(30)
      <4>. QED
        BY <4>1, <4>2, <4>3, SMTT(30)
    <3>5. x - 1 < base + shift \/ x - 1 - (base + shift) \in seen
      <4>1. x - 1 < base + shift \/ x - 1 >= base + shift
        BY <3>2, <1>2, <2>1
      <4>. QED
        BY <4>1, <3>4, SMTT(30)
    <3>. QED
      BY <3>2, <3>5, SMTT(30) DEF x
  <2>. HIDE DEF shift, bit, seen
  <2>4. slid \in RxState
    BY <2>2, Zenon DEF RxState
  <2>5. /\ slid.ur_base = base + shift /\ slid.ur_seen = seen /\ slid.heard = r.heard
        /\ slid.ur_init = TRUE
    BY DEF RxState
  <2>6. DedupOK(slid)
    BY <2>2, <2>3, <2>5 DEF DedupOK
  <2>7. CASE bit \in seen
    <3>1. u = slid
      BY <2>7, <1>1, <1>2, <1>3, <1>5, SMTT(30)
    <3>. QED
      BY <3>1, <2>4, <2>6, SMTT(30) DEF RxState
  <2>8. CASE bit \notin seen
    <3>. DEFINE m == AsMessage(p)
    <3>1. m \in Message /\ m.data = p.seq + 1
      BY <1>1 DEF AsMessage, Message, Packet
    <3>2. u = next
      BY <2>8, <1>1, <1>2, <1>3, <1>5, SMTT(30)
    <3>. HIDE DEF m
    <3>. DEFINE h == IF r.app_ready THEN Append(r.heard, m) ELSE r.heard
    <3>4. h \in Seq(Message)
      BY <1>1, <3>1
    <3>5. next = [r EXCEPT !.ur_init = TRUE, !.ur_base = base + shift,
                           !.ur_seen = seen \cup {bit}, !.heard = h]
      BY Zenon DEF RxState, m
    <3>6. seen \cup {bit} \subseteq 0 .. DedupBits - 1 /\ seen \cup {bit} \subseteq Nat
      BY <1>1, <2>1, <2>2
    <3>7. next \in RxState
      BY <3>4, <3>5, <3>6, <2>2, Zenon DEF RxState
    <3>8. /\ next.ur_base = base + shift /\ next.ur_seen = seen \cup {bit}
          /\ next.heard = h /\ next.ur_init = TRUE
      BY <3>5, Zenon DEF RxState
    <3>9. \A i \in 1 .. Len(r.heard) : r.heard[i] # m
      <4>. SUFFICES ASSUME NEW i \in 1 .. Len(r.heard), r.heard[i] = m PROVE FALSE
        OBVIOUS
      <4>1. Marked(m, base + shift, seen)
        BY <2>3
      <4>2. m.data - 1 = p.seq /\ p.seq - (base + shift) = bit
        BY <3>1, <1>1 DEF bit
      <4>3. bit \in Nat
        BY <2>1, <1>1
      <4>. QED
        BY <4>1, <4>2, <4>3, <2>2, <2>8, <1>1, SMTT(30)
    <3>10. Marked(m, base + shift, seen \cup {bit})
      <4>1. m.data - 1 - (base + shift) = bit
        BY <3>1, <1>1, <2>2, SMTT(30) DEF bit
      <4>. QED
        BY <4>1
    <3>11. \A i \in 1 .. Len(h) : Marked(h[i], base + shift, seen \cup {bit})
      <4>1. \A i \in 1 .. Len(r.heard) : Marked(r.heard[i], base + shift, seen \cup {bit})
        BY <2>3
      <4>. QED
        BY <4>1, <3>1, <3>10, <1>1, SMTT(30)
    <3>12. NoRepeat(h)
      <4>1. NoRepeat(r.heard)
        BY DEF DedupOK
      <4>. QED
        BY <4>1, <3>1, <3>9, <1>1, SMTT(30) DEF NoRepeat
    <3>13. DedupOK(next)
      BY <3>6, <3>8, <3>11, <3>12, Zenon DEF DedupOK
    <3>. QED
      BY <3>2, <3>5, <3>7, <3>13, SMTT(30) DEF RxState
  <2>. QED
    BY <2>7, <2>8
<1>. QED
  BY <1>1, <1>2, <1>4, <1>5, SMTT(30)

=============================================================================
