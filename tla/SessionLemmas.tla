--------------------------- MODULE SessionLemmas ---------------------------
(* Facts about the operators of Session: what each one returns and keeps.  *)
EXTENDS SessionInv, FiniteSetTheorems, SequenceTheorems, WellFoundedInduction, TLAPS

-----------------------------------------------------------------------------
(* Types.                                                                  *)

(* Each node has one peer, whose peer it is. *)
LEMMA PeerProperties ==
    ASSUME NEW n \in Node
    PROVE  /\ Peer(n) \in Node
           /\ Peer(n) # n
           /\ Peer(Peer(n)) = n
<1>1. PICK x \in Node, y \in Node : x # y /\ Node = {x, y}
  BY NodeAssumption
<1>2. \A m \in Node : \E k \in Node : k # m
  BY <1>1
<1>3. \A m \in Node : Peer(m) \in Node /\ Peer(m) # m
  BY <1>2 DEF Peer
<1>. QED
  BY <1>1, <1>3

(* fill_ack_fields completes every header field. *)
LEMMA MakePacketType ==
    ASSUME NEW n \in Node, NEW r \in RxState,
           NEW type \in {"Data", "Ack", "ProbeWindow"}, NEW seq \in Nat,
           NEW cls \in 0 .. 2, NEW data \in Nat
    PROVE  MakePacket(n, r, type, seq, cls, data) \in Packet
<1>1. my_adv_window(n, r) \in Nat
  <2>1. Len(r.rcv_buf) \in Nat /\ Window[n] \in Nat
    BY WindowAssumption DEF RxState
  <2>. QED
    BY <2>1 DEF my_adv_window
<1>2. build_sack(r) \in SUBSET Nat
  BY BitsAssumption DEF build_sack
<1>3. r.rcv_next \in Nat
  BY DEF RxState
<1>. QED
  BY <1>1, <1>2, <1>3, ModeAssumption DEF MakePacket, Packet

(* send_ack() keeps the receive side typed. *)
LEMMA SendAckType ==
    ASSUME NEW r \in RxState
    PROVE  send_ack(r) \in RxState
<1>1. NextGeneration(r.next_ack_seq) \in Nat
  BY BitsAssumption DEF NextGeneration, RxState
<1>2. r.acks_sent + 1 \in Nat
  BY DEF RxState
<1>. HIDE DEF NextGeneration
<1>. QED
  BY <1>1, <1>2, Zenon DEF send_ack, RxState

LEMMA ProcessWindowUpdateType ==
    ASSUME NEW s \in TxState, NEW p \in Packet
    PROVE  process_window_update(s, p) \in TxState
<1>1. /\ p.adv_window \in Nat /\ p.cum_ack \in Nat /\ p.seq \in Nat
      /\ s.last_ack_seq \in Nat /\ s.ack_seq_initialized \in BOOLEAN
  BY DEF Packet, TxState
<1>2. (s.ack_seq_initialized \/ (p.type = "Ack" /\ p.seq # 0)) \in BOOLEAN
  OBVIOUS
<1>. QED
  BY <1>1, <1>2, ZenonT(60) DEF process_window_update, TxState

LEMMA ProcessCumAckType ==
    ASSUME NEW s \in TxState, NEW cum_ack \in Nat
    PROVE  process_cum_ack(s, cum_ack) \in TxState
BY Zenon DEF process_cum_ack, TxState, Packet, Seqs

LEMMA ProcessSackType ==
    ASSUME NEW s \in TxState, NEW cum_ack \in Nat, NEW sack \in SUBSET Nat
    PROVE  process_sack(s, cum_ack, sack) \in TxState
<1>1. Seqs(s.ring) \subseteq Nat /\ s.sacked \subseteq Nat
      /\ s.fast_retransmitted \subseteq Nat /\ s.armed \subseteq Nat
  BY DEF TxState, Packet, Seqs
<1>. QED
  BY <1>1, Zenon DEF process_sack, TxState

-----------------------------------------------------------------------------
(* Order among reassembly entries.                                         *)

Ascends(f, k) == \A i, j \in 1 .. k : i < j => f[i].seq < f[j].seq

(* A non-empty set of natural numbers has a least element. *)
LEMMA LeastElement ==
    ASSUME NEW T \in SUBSET Nat, T # {}
    PROVE  \E x \in T : \A y \in T : x <= y
<1>1. PICK x \in T : \A y \in T : ~ (<<y, x>> \in OpToRel(<, Nat))
  BY WFMin, NatLessThanWellFounded, Zenon
<1>2. ASSUME NEW y \in T PROVE x <= y
  <2>1. <<y, x>> \in OpToRel(<, Nat) <=> y < x
    BY DEF OpToRel
  <2>2. ~ (y < x)
    BY <1>1, <2>1, Zenon
  <2>3. x \in Nat /\ y \in Nat
    OBVIOUS
  <2>. QED
    BY ONLY <2>2, <2>3
<1>. QED
  BY <1>2

(* A non-empty set of entries below a bound has one with the highest key. *)
LEMMA HighestEntry ==
    ASSUME NEW items \in SUBSET ReasmEntry, NEW B \in Nat, items # {},
           \A e \in items : e.seq < B
    PROVE  \E top \in items : \A e \in items : e.seq <= top.seq
<1>. DEFINE D == {B - e.seq : e \in items}
<1>1. D \in SUBSET Nat /\ D # {}
  BY DEF ReasmEntry
<1>2. PICK d \in D : \A c \in D : d <= c
  BY <1>1, LeastElement, Zenon
<1>3. PICK top \in items : d = B - top.seq
  BY <1>2
<1>4. ASSUME NEW e \in items PROVE e.seq <= top.seq
  <2>1. d <= B - e.seq
    BY <1>2
  <2>. QED
    BY <2>1, <1>3 DEF ReasmEntry
<1>. QED
  BY <1>4

(* A finite keyed set of entries can be listed by ascending key. *)
LEMMA AscendingListing ==
    ASSUME NEW items \in SUBSET ReasmEntry, IsFiniteSet(items), Keyed(items),
           NEW B \in Nat, \A e \in items : e.seq < B
    PROVE  \E f \in [1 .. Cardinality(items) -> items] : Ascends(f, Cardinality(items))
<1>. DEFINE Listed(T) == \E f \in [1 .. Cardinality(T) -> T] : Ascends(f, Cardinality(T))
            Bad == {k \in Nat : \E T \in SUBSET items : Cardinality(T) = k /\ ~ Listed(T)}
<1>1. SUFFICES ASSUME ~ Listed(items) PROVE FALSE
  OBVIOUS
<1>2. Cardinality(items) \in Bad
  BY <1>1, FS_CardinalityType
<1>3. PICK k \in Bad : \A j \in Bad : k <= j
  BY <1>2, LeastElement, Zenon
<1>4. PICK T \in SUBSET items : Cardinality(T) = k /\ ~ Listed(T)
  BY <1>3
<1>5. IsFiniteSet(T) /\ k \in Nat
  BY <1>4, FS_Subset
<1>6. T # {}
  <2>. SUFFICES ASSUME T = {} PROVE Listed(T)
    BY <1>4
  <2>1. Cardinality(T) = 0
    BY FS_EmptySet
  <2>2. [i \in 1 .. 0 |-> 0] \in [1 .. Cardinality(T) -> T]
    BY <2>1
  <2>3. Ascends([i \in 1 .. 0 |-> 0], Cardinality(T))
    BY <2>1 DEF Ascends
  <2>. QED
    BY <2>2, <2>3, Zenon
<1>7. PICK top \in T : \A e \in T : e.seq <= top.seq
  <2>1. T \in SUBSET ReasmEntry /\ \A e \in T : e.seq < B
    OBVIOUS
  <2>. QED
    BY <1>6, <2>1, HighestEntry
<1>. DEFINE U == T \ {top}
<1>8. Cardinality(U) = k - 1 /\ U \in SUBSET items
  BY <1>4, <1>5, <1>7, FS_RemoveElement, Zenon
<1>9. k - 1 \in Nat
  BY <1>4, <1>5, <1>6, FS_EmptySet
<1>10. Listed(U)
  <2>1. k - 1 \notin Bad
    BY <1>3, <1>5, <1>9
  <2>. QED
    BY <2>1, <1>8, <1>9, Zenon
<1>11. PICK f \in [1 .. k - 1 -> U] : Ascends(f, k - 1)
  BY <1>8, <1>10, Zenon
<1>. DEFINE g == [i \in 1 .. k |-> IF i = k THEN top ELSE f[i]]
<1>12. g \in [1 .. k -> T]
  BY <1>5, <1>7, <1>9, <1>11
<1>13. Ascends(g, k)
  <2>. SUFFICES ASSUME NEW i \in 1 .. k, NEW j \in 1 .. k, i < j
                PROVE  g[i].seq < g[j].seq
    BY DEF Ascends
  <2>1. i \in 1 .. k - 1 /\ g[i] = f[i] /\ f[i] \in U
    BY <1>5, <1>11
  <2>2. CASE j = k
    <3>1. f[i].seq <= top.seq /\ f[i] # top /\ f[i] \in items /\ top \in items
      BY <2>1, <1>7
    <3>2. f[i].seq # top.seq
      BY <3>1 DEF Keyed
    <3>. QED
      BY <2>1, <2>2, <3>1, <3>2 DEF ReasmEntry
  <2>3. CASE j # k
    BY <2>1, <2>3, <1>5, <1>11 DEF Ascends
  <2>. QED
    BY <2>2, <2>3
<1>. QED
  BY <1>4, <1>12, <1>13

(* flush_reassembled hands over each held entry once, by ascending key. *)
LEMMA InSeqOrderProperties ==
    ASSUME NEW items \in SUBSET ReasmEntry, IsFiniteSet(items), Keyed(items),
           NEW B \in Nat, \A e \in items : e.seq < B
    PROVE  /\ InSeqOrder(items) \in Seq(Message)
           /\ Len(InSeqOrder(items)) = Cardinality(items)
           /\ \E f \in [1 .. Cardinality(items) -> items] :
                /\ Ascends(f, Cardinality(items))
                /\ \A e \in items : \E i \in 1 .. Cardinality(items) : f[i] = e
                /\ \A i \in 1 .. Cardinality(items) : InSeqOrder(items)[i] = AsMessage(f[i])
<1>. DEFINE C == Cardinality(items)
            f == CHOOSE g \in [1 .. C -> items] :
                    \A i, j \in 1 .. C : i < j => g[i].seq < g[j].seq
<1>1. C \in Nat
  BY FS_CardinalityType
<1>2. f \in [1 .. C -> items] /\ \A i, j \in 1 .. C : i < j => f[i].seq < f[j].seq
  <2>1. \E g \in [1 .. C -> items] : \A i, j \in 1 .. C : i < j => g[i].seq < g[j].seq
    BY AscendingListing DEF Ascends
  <2>. QED
    BY <2>1, Zenon
<1>3. InSeqOrder(items) = [i \in 1 .. C |-> AsMessage(f[i])]
  BY DEF InSeqOrder
<1>. HIDE DEF f
<1>4. f \in Injection(1 .. C, items)
  <2>. SUFFICES ASSUME NEW i \in 1 .. C, NEW j \in 1 .. C, f[i] = f[j] PROVE i = j
    BY <1>2 DEF Injection, IsInjective
  <2>1. f[i].seq \in Nat
    BY <1>2 DEF ReasmEntry
  <2>. QED
    BY <2>1, <1>1, <1>2
<1>5. f \in Surjection(1 .. C, items)
  <2>1. IsFiniteSet(1 .. C) /\ Cardinality(1 .. C) = C
    BY <1>1, FS_Interval
  <2>. QED
    BY <2>1, <1>4, FS_Injection
<1>6. \A e \in items : \E i \in 1 .. C : f[i] = e
  BY <1>5 DEF Surjection
<1>7. \A i \in 1 .. C : AsMessage(f[i]) \in Message
  BY <1>2 DEF AsMessage, Message, ReasmEntry
<1>8. InSeqOrder(items) \in [1 .. C -> Message]
  BY <1>3, <1>7
<1>9. InSeqOrder(items) \in Seq(Message)
  BY <1>1, <1>8, SeqDef
<1>10. Len(InSeqOrder(items)) = C
  BY <1>1, <1>8, <1>9, SMTT(30)
<1>. QED
  BY <1>2, <1>3, <1>6, <1>9, <1>10, Zenon DEF Ascends

(* The loop of flush_reassembled stops at the first missing number. *)
LEMMA FirstGapProperties ==
    ASSUME NEW r \in RxState, NEW B \in Nat,
           \A e \in r.reasm : r.rcv_next <= e.seq /\ e.seq < B
    PROVE  /\ FirstGap(r) \in Nat
           /\ FirstGap(r) >= r.rcv_next
           /\ FirstGap(r) = r.rcv_next \/ \E e \in r.reasm : FirstGap(r) = e.seq + 1
           /\ FirstGap(r) \notin Seqs(r.reasm)
           /\ \A q \in Nat : r.rcv_next <= q /\ q < FirstGap(r) => q \in Seqs(r.reasm)
<1>. DEFINE next == r.rcv_next
            Free == {q \in Nat : q >= next /\ q \notin Seqs(r.reasm)}
            Cand == {next} \cup {e.seq + 1 : e \in r.reasm}
<1>1. next \in Nat /\ \A e \in r.reasm : e.seq \in Nat
  BY DEF RxState
<1>2. Free # {}
  <2>1. next + B \in Nat /\ next + B >= next /\ next + B >= B
    BY <1>1
  <2>2. next + B \notin Seqs(r.reasm)
    BY <2>1, <1>1 DEF Seqs
  <2>. QED
    BY <2>1, <2>2
<1>3. PICK g \in Free : \A q \in Free : g <= q
  BY <1>2, LeastElement, Zenon
<1>4. \A q \in Nat : next <= q /\ q < g => q \in Seqs(r.reasm)
  BY <1>1, <1>3
<1>5. g \in Cand
  <2>1. CASE g = next
    BY <2>1
  <2>2. CASE g # next
    <3>1. g - 1 \in Nat /\ next <= g - 1 /\ g - 1 < g
      BY <2>2, <1>1, <1>3
    <3>2. PICK e \in r.reasm : e.seq = g - 1
      BY <3>1, <1>4 DEF Seqs
    <3>3. g = e.seq + 1
      BY <3>1, <3>2
    <3>. QED
      BY <3>3
  <2>. QED
    BY <2>1, <2>2
<1>6. next .. (g - 1) \subseteq Seqs(r.reasm)
  BY <1>1, <1>3, <1>4
<1>7. \E q \in Cand : q \notin Seqs(r.reasm) /\ next .. (q - 1) \subseteq Seqs(r.reasm)
  BY <1>3, <1>5, <1>6
<1>8. FirstGap(r) \in Cand /\ FirstGap(r) \notin Seqs(r.reasm)
      /\ next .. (FirstGap(r) - 1) \subseteq Seqs(r.reasm)
  BY <1>7 DEF FirstGap
<1>9. FirstGap(r) \in Nat
  BY <1>1, <1>8
<1>10. FirstGap(r) >= next
  BY <1>1, <1>8
<1>. QED
  BY <1>8, <1>9, <1>10

-----------------------------------------------------------------------------
(* What the receive side has taken charge of.                              *)

(* A batch of later messages extends what is held. *)
LEMMA HoldsExtend ==
    ASSUME NEW acc, Source(acc),
           NEW P \in SUBSET (0 .. Len(acc) - 1), NEW N \in SUBSET (0 .. Len(acc) - 1),
           NEW q \in Seq(Message), NEW new \in Seq(Message),
           Holds(q, P, acc), Holds(new, N, acc),
           P \cap N = {},
           \A k \in P, m \in N : acc[k + 1].cls = ReliableOrdered
                                 /\ acc[m + 1].cls = ReliableOrdered => k < m
    PROVE  Holds(q \o new, P \cup N, acc)
<1>. DEFINE a == Len(q)
            b == Len(new)
            c == q \o new
<1>1. a \in Nat /\ b \in Nat /\ Len(c) = a + b
      /\ \A i \in 1 .. a + b : c[i] = IF i <= a THEN q[i] ELSE new[i - a]
  BY ConcatProperties
<1>2. \A i \in 1 .. a : c[i] = q[i]
  BY <1>1
<1>3. \A i \in 1 .. b : a + i \in 1 .. a + b /\ c[a + i] = new[i]
  BY <1>1
<1>4. \A i \in 1 .. a + b : i \in 1 .. a \/ \E j \in 1 .. b : i = a + j
  <2>. SUFFICES ASSUME NEW i \in 1 .. a + b, i > a PROVE \E j \in 1 .. b : i = a + j
    BY <1>1
  <2>1. i - a \in 1 .. b /\ i = a + (i - a)
    BY <1>1
  <2>. QED
    BY <2>1, Zenon
<1>. HIDE DEF c
<1>5. \A k \in 0 .. Len(acc) - 1 : acc[k + 1].data = k + 1
  BY DEF Source
<1>6. ASSUME NEW k \in P \cup N PROVE \E i \in 1 .. Len(c) : c[i] = acc[k + 1]
  <2>1. CASE k \in P
    <3>1. PICK i \in 1 .. a : q[i] = acc[k + 1]
      BY <2>1, Zenon DEF Holds
    <3>. QED
      BY <3>1, <1>1, <1>2
  <2>2. CASE k \in N
    <3>1. PICK i \in 1 .. b : new[i] = acc[k + 1]
      BY <2>2, ZenonT(30) DEF Holds
    <3>. QED
      BY <3>1, <1>1, <1>3, ZenonT(30)
  <2>. QED
    BY <2>1, <2>2
<1>7. ASSUME NEW i \in 1 .. Len(c) PROVE \E k \in P \cup N : c[i] = acc[k + 1]
  <2>1. CASE i \in 1 .. a
    <3>1. PICK k \in P : q[i] = acc[k + 1]
      BY <2>1 DEF Holds
    <3>. QED
      BY <3>1, <2>1, <1>2
  <2>2. ASSUME NEW j \in 1 .. b, i = a + j PROVE \E k \in P \cup N : c[i] = acc[k + 1]
    <3>1. PICK k \in N : new[j] = acc[k + 1]
      BY DEF Holds
    <3>. QED
      BY <3>1, <2>2, <1>3, SMTT(30)
  <2>. QED
    BY <2>1, <2>2, <1>1, <1>4, Zenon
<1>8. ASSUME NEW i \in 1 .. a, NEW j \in 1 .. b
      PROVE  /\ c[i] # c[a + j]
             /\ c[i].cls = ReliableOrdered /\ c[a + j].cls = ReliableOrdered
                    => c[i].data < c[a + j].data
  <2>1. PICK k \in P : c[i] = acc[k + 1]
    BY <1>2 DEF Holds
  <2>2. PICK m \in N : c[a + j] = acc[m + 1]
    BY <1>3 DEF Holds
  <2>3. c[i].data = k + 1 /\ c[a + j].data = m + 1 /\ k # m
    BY <2>1, <2>2, <1>5, SMTT(30)
  <2>. QED
    BY <2>1, <2>2, <2>3, SMTT(30)
<1>9. ASSUME NEW i \in 1 .. Len(c), NEW j \in 1 .. Len(c)
      PROVE  /\ c[i] = c[j] => i = j
             /\ c[i].cls = ReliableOrdered /\ c[j].cls = ReliableOrdered /\ i < j
                    => c[i].data < c[j].data
  <2>1. CASE i \in 1 .. a /\ j \in 1 .. a
    BY <2>1, <1>2, ZenonT(60) DEF Holds
  <2>2. ASSUME i \in 1 .. a, NEW k \in 1 .. b, j = a + k
        PROVE  /\ c[i] = c[j] => i = j
               /\ c[i].cls = ReliableOrdered /\ c[j].cls = ReliableOrdered /\ i < j
                    => c[i].data < c[j].data
    BY <2>2, <1>8
  <2>3. ASSUME j \in 1 .. a, NEW k \in 1 .. b, i = a + k
        PROVE  c[i] # c[j] /\ ~ (i < j)
    BY <2>3, <1>8, <1>1
  <2>4. ASSUME NEW k \in 1 .. b, i = a + k, NEW l \in 1 .. b, j = a + l
        PROVE  /\ c[i] = c[j] => i = j
               /\ c[i].cls = ReliableOrdered /\ c[j].cls = ReliableOrdered /\ i < j
                    => c[i].data < c[j].data
    <3>1. c[i] = new[k] /\ c[j] = new[l]
      BY <2>4, <1>3
    <3>2. (i < j <=> k < l) /\ (k = l => i = j)
      BY <2>4, <1>1
    <3>3. /\ new[k] = new[l] => k = l
          /\ new[k].cls = ReliableOrdered /\ new[l].cls = ReliableOrdered /\ k < l
                 => new[k].data < new[l].data
      BY Zenon DEF Holds
    <3>. QED
      BY <3>1, <3>2, <3>3
  <2>. QED
    BY <2>1, <2>2, <2>3, <2>4, <1>1, <1>4, Zenon
<1>10. Holds(c, P \cup N, acc)
  BY <1>6, <1>7, <1>9 DEF Holds
<1>. QED
  BY <1>10 DEF c

=============================================================================
