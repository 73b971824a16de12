--------------------------- MODULE SessionProofs ---------------------------
(* The theorems about Session, for every window, bitmap width, threshold,  *)
(* generation modulus and bound.                                           *)
EXTENDS SessionSteps

-----------------------------------------------------------------------------
(* The invariant holds in every reachable state.                           *)

LEMMA InitOK == Init => IndInv
<1>. SUFFICES ASSUME Init PROVE IndInv
  OBVIOUS
<1>0. <<>> \in Seq(Message) /\ Len(<<>>) = 0 /\ Window \in [Node -> Nat \ {0}]
      /\ IsFiniteSet({}) /\ Cardinality({}) = 0
  BY WindowAssumption, FS_EmptySet, SMTT(30)
<1>1. TypeOK
  <2>1. tx \in [Node -> TxState]
    BY <1>0 DEF Init, TxState
  <2>2. rx \in [Node -> RxState]
    BY <1>0, SMTT(30) DEF Init, RxState
  <2>. QED
    BY <2>1, <2>2, <1>0, ZenonT(60) DEF Init, TypeOK
<1>2. ASSUME NEW n \in Node
      PROVE  /\ TxOK(n, tx[n], accepted[n], net)
             /\ DataOK(net, n, accepted[n], tx[n].next_seq)
             /\ RxOK(n, rx[n], accepted[Peer(n)], tx[Peer(n)].next_seq)
             /\ AcksOK(net, n, rx[n]) /\ DedupOK(rx[n])
             /\ (n \notin polling => ProbeOK(tx[n]))
  <2>. DEFINE s == tx[n]
              r == rx[n]
  <2>1. /\ s.next_seq = 0 /\ s.pending = <<>> /\ s.ring = {} /\ s.sacked = {} /\ s.armed = {}
        /\ s.last_ack = 0
    BY SMTT(30) DEF Init
  <2>2. /\ r.rcv_next = 0 /\ r.reasm = {} /\ r.buffered_c2 = 0 /\ r.rcv_buf = <<>>
        /\ r.delivered = <<>> /\ r.heard = <<>> /\ r.ur_seen = {}
    BY SMTT(30) DEF Init
  <2>3. Peer(n) \in Node /\ tx[Peer(n)].next_seq = 0 /\ accepted[Peer(n)] = <<>>
        /\ accepted[n] = <<>> /\ net = {} /\ Window[n] \in Nat
    BY <1>0, PeerProperties DEF Init
  <2>4. Seqs({}) = {} /\ Acks({}, n) = {} /\ Bits({}, n) = {}
    BY SMTT(30) DEF Seqs, Acks, Bits
  <2>. HIDE DEF s, r
  <2>5. TxOK(n, s, <<>>, {})
    BY <1>0, <2>1, <2>3, <2>4, SMTT(30) DEF TxOK, Source, Keyed
  <2>6. Passed(r) = {} /\ TakenBy(r) = <<>> /\ Ordered(r.reasm) = {} /\ rcv_occupancy(r) = 0
    BY <1>0, <2>2, <2>4, SMTT(30) DEF Passed, TakenBy, Ordered, rcv_occupancy
  <2>7. Holds(<<>>, {}, <<>>)
    BY <1>0 DEF Holds
  <2>8. RxOK(n, r, <<>>, 0)
    <3>1. RxInOrder(n, r, <<>>, 0)
      <4>1. /\ r.rcv_buf = <<>> /\ r.rcv_next <= 0 /\ Keyed(r.reasm)
            /\ \A e \in r.reasm : FALSE
        BY <2>2 DEF Keyed
      <4>2. IsFiniteSet(r.reasm) /\ r.buffered_c2 = Cardinality(Ordered(r.reasm))
        BY <1>0, <2>2, <2>6, Zenon
      <4>3. Holds(TakenBy(r), Passed(r), <<>>) /\ rcv_occupancy(r) <= Window[n]
        BY <2>3, <2>6, <2>7, SMTT(30)
      <4>. QED
        BY <4>1, <4>2, <4>3, SMTT(30) DEF RxInOrder
    <3>. QED
      BY <3>1, <2>2, <2>4, SMTT(30) DEF RxOK
  <2>9. AcksOK({}, n, r) /\ DedupOK(r) /\ DataOK({}, n, <<>>, 0)
    BY <1>0, <2>2, <2>4, SMTT(30) DEF AcksOK, DedupOK, NoRepeat, DataOK
  <2>10. ProbeOK(s)
    BY <2>1 DEF ProbeOK
  <2>. QED
    BY <2>1, <2>3, <2>5, <2>8, <2>9, <2>10, SMTT(30) DEF s, r
<1>. QED
  BY <1>1, <1>2 DEF IndInv

LEMMA NextOK == IndInv /\ [Next]_vars => IndInv'
<1>. SUFFICES ASSUME IndInv, [Next]_vars PROVE IndInv'
  OBVIOUS
<1>1. CASE UNCHANGED vars
  BY <1>1, SMTT(30) DEF vars, IndInv, TypeOK
<1>2. CASE Next
  <2>1. PICK n \in Node :
          \/ \E cls \in ReliableClasses : Send(n, cls)
          \/ SendUnreliable(n)
          \/ \E p \in net : Receive(n, p, net)
          \/ PollEnd(n)
          \/ \E due \in SUBSET tx[n].armed, probe \in BOOLEAN : Tick(n, due, probe)
          \/ \E receiving \in BOOLEAN : SetReceiving(n, receiving)
    BY <1>2 DEF Next
  <2>. QED
    BY <2>1, SendStep, SendUnreliableStep, ReceiveStep, PollEndStep, TickStep, SetReceivingStep,
       SMTT(30)
<1>. QED
  BY <1>1, <1>2

(* Whatever the network duplicates, reorders or drops and whenever timers  *)
(* fire, the calls of session.cc keep the inductive invariant.             *)
THEOREM Invariance == Spec => []IndInv
BY InitOK, NextOK, PTL DEF Spec

-----------------------------------------------------------------------------
(* What the invariant implies.                                             *)

(* The last cumulative ACK seen is covered by what the peer has. *)
LEMMA LastAckCovered ==
    ASSUME IndInv, NEW n \in Node
    PROVE  /\ tx[n].last_ack \in Nat /\ rx[Peer(n)].rcv_next \in Nat
           /\ tx[n].last_ack <= rx[Peer(n)].rcv_next
<1>1. Peer(n) \in Node
  BY PeerProperties
<1>2. tx[n].last_ack \in Nat /\ rx[Peer(n)].rcv_next \in Nat
  BY <1>1, NodeFacts, SMTT(30) DEF TxState, RxState
<1>3. tx[n].last_ack \in Acks(net, Peer(n)) \cup {0}
  BY NodeFacts DEF TxOK
<1>4. \A c \in Acks(net, Peer(n)) : c <= rx[Peer(n)].rcv_next
  BY <1>1, NodeFacts, SMTT(30) DEF AcksOK
<1>. QED
  BY <1>2, <1>3, <1>4, SMTT(30)

(* The oldest slot is the one rcv_next may stand at, so no bitmap marks it. *)
LEMMA OldestTimed ==
    ASSUME IndInv, NEW n \in Node, tx[n].ring # {}
    PROVE  tx[n].armed # {}
<1>. DEFINE s == tx[n]
            P == Peer(n)
<1>1. /\ s \in TxState /\ TxOK(n, s, accepted[n], net) /\ net \in SUBSET Packet
  BY NodeFacts
<1>2. AcksOK(net, P, rx[P])
  BY PeerProperties, NodeFacts, SMTT(30)
<1>3. s.last_ack \in Nat /\ s.next_seq \in Nat
  BY <1>1, SMTT(30) DEF TxState
<1>4. s.last_ack \in Seqs(s.ring)
  <2>1. PICK d \in s.ring : TRUE
    BY SMTT(30)
  <2>2. d.seq \in s.last_ack .. (s.next_seq - 1)
    BY <1>1, SMTT(30) DEF TxOK, Seqs
  <2>3. s.last_ack \in s.last_ack .. (s.next_seq - 1)
    BY <2>2, <1>3, SMTT(30)
  <2>. QED
    BY <2>3, <1>1, SMTT(30) DEF TxOK
<1>5. 0 \notin Bits(net, P)
  <2>. SUFFICES ASSUME 0 \in Bits(net, P) PROVE FALSE
    OBVIOUS
  <2>1. PICK p \in net : p.src = P /\ \E i \in p.sack : 0 = p.cum_ack + 1 + i
    BY AcksWitness
  <2>2. p.cum_ack \in Nat /\ p.sack \subseteq Nat
    BY <1>1, SMTT(30) DEF Packet
  <2>. QED
    BY <2>1, <2>2
<1>6. s.last_ack \notin s.sacked
  BY <1>1, <1>2, <1>5, SMTT(30) DEF TxOK, AcksOK
<1>. QED
  BY <1>1, <1>4, <1>6, SMTT(30) DEF TxOK

(* Every field keeps the type session.h declares. *)
THEOREM TypeCorrect == Spec => []TypeOK
<1>1. IndInv => TypeOK
  BY SMTT(30) DEF IndInv
<1>. QED
  BY <1>1, Invariance, PTL

(* handle_reliable never passes a reliable message on twice. *)
THEOREM NeverTwice == Spec => []AtMostOnce
<1>1. IndInv => AtMostOnce
  <2>. SUFFICES ASSUME IndInv, NEW n \in Node PROVE NoRepeat(Taken(n))
    BY SMTT(30) DEF AtMostOnce
  <2>1. Holds(Taken(n), Passed(rx[n]), accepted[Peer(n)])
    BY ZenonT(60) DEF IndInv, RxOK, RxInOrder, Taken
  <2>. QED
    BY <2>1 DEF Holds, NoRepeat
<1>. QED
  BY <1>1, Invariance, PTL

(* handle_unreliable never passes a class-0 message on twice. *)
THEOREM UnreliableNeverTwice == Spec => []UnreliableAtMostOnce
<1>1. IndInv => UnreliableAtMostOnce
  BY ZenonT(60) DEF IndInv, DedupOK, UnreliableAtMostOnce
<1>. QED
  BY <1>1, Invariance, PTL

(* Class 2 is passed on in the order of the sender's send() calls, without *)
(* a gap.                                                                  *)
THEOREM InOrder == Spec => []OrderedInTurn
<1>1. IndInv => OrderedInTurn
  <2>. SUFFICES ASSUME IndInv, NEW n \in Node, NEW i \in 1 .. Len(Taken(n)),
                       NEW m \in Elements(accepted[Peer(n)]),
                       Taken(n)[i].cls = ReliableOrdered, m.cls = ReliableOrdered,
                       m.data < Taken(n)[i].data
                PROVE  \E j \in 1 .. i - 1 : Taken(n)[j] = m
    BY DEF OrderedInTurn
  <2>. DEFINE acc == accepted[Peer(n)]
              q == Taken(n)
              r == rx[n]
  <2>1. Peer(n) \in Node
    BY PeerProperties, SMTT(30)
  <2>2. Source(acc) /\ r \in RxState
    BY <2>1, NodeFacts, SMTT(30) DEF TxOK
  <2>3. Holds(q, Passed(r), acc) /\ \A e \in r.reasm : AsMessage(e) = acc[e.seq + 1]
    BY ZenonT(60) DEF IndInv, RxOK, RxInOrder, Taken
  <2>4. q \in Seq(Message)
    BY <2>2, ConcatProperties, SMTT(30) DEF Taken, TakenBy, RxState
  <2>5. PICK l \in 1 .. Len(acc) : m = acc[l]
    BY DEF Elements
  <2>6. m.data = l /\ l \in Nat /\ l > 0
    BY <2>2, <2>5, SMTT(30) DEF Source
  <2>. HIDE DEF q, acc, r
  <2>7. PICK k \in Passed(r) : q[i] = acc[k + 1]
    BY <2>3 DEF Holds, q
  <2>8. k \in 0 .. r.rcv_next - 1
    <3>1. ASSUME NEW e \in r.reasm, e.cls = ReliableUnordered, k = e.seq PROVE FALSE
      <4>1. q[i] = AsMessage(e)
        BY <2>3, <2>7, <3>1, SMTT(30)
      <4>. QED
        BY <3>1, <4>1, SMTT(30) DEF AsMessage, ReliableOrdered, ReliableUnordered, q
    <3>. QED
      BY <2>7, <3>1, SMTT(30) DEF Passed, Seqs
  <2>9. r.rcv_next \in Nat /\ r.rcv_next <= Len(acc) /\ Len(acc) \in Nat
    <3>1. /\ tx[Peer(n)].next_seq \in Nat /\ Len(tx[Peer(n)].pending) \in Nat
          /\ Len(acc) = tx[Peer(n)].next_seq + Len(tx[Peer(n)].pending)
      BY <2>1, NodeFacts, SMTT(30) DEF TxState, TxOK, acc
    <3>2. r.rcv_next <= tx[Peer(n)].next_seq
      BY ZenonT(60) DEF IndInv, RxOK, RxInOrder, r
    <3>. QED
      <4>1. r.rcv_next \in Nat
        BY <2>2, SMTT(30) DEF RxState
      <4>. QED
        BY <3>1, <3>2, <4>1, SMTT(30)
  <2>10. q[i].data = k + 1
    <3>1. k + 1 \in 1 .. Len(acc)
      BY <2>8, <2>9, SMTT(30)
    <3>. QED
      BY <2>2, <2>7, <3>1, SMTT(30) DEF Source
  <2>11. l - 1 \in Passed(r) /\ (l - 1) + 1 = l /\ l < k + 1
    <3>1. l < k + 1
      BY <2>6, <2>10, SMTT(30) DEF q
    <3>. QED
      BY <2>6, <2>8, <2>9, <3>1, SMTT(30) DEF Passed
  <2>12. PICK j \in 1 .. Len(q) : q[j] = m
    BY <2>3, <2>5, <2>11, SMTT(30) DEF Holds
  <2>13. Len(q) \in Nat /\ i \in 1 .. Len(q) /\ q[i].cls = ReliableOrdered
    BY <2>4 DEF q
  <2>14. ~ (i < j)
    <3>. SUFFICES ASSUME i < j PROVE FALSE
      OBVIOUS
    <3>1. q[i].data < q[j].data
      BY <2>3, <2>12, <2>13, SMTT(30) DEF Holds
    <3>2. k + 1 < l
      BY <3>1, <2>6, <2>10, <2>12, SMTT(30)
    <3>3. k \in Nat
      BY <2>8, <2>9
    <3>. QED
      BY <3>2, <3>3, <2>6, <2>11, SMTT(30)
  <2>15. i # j
    BY <2>6, <2>8, <2>9, <2>10, <2>11, <2>12, SMTT(30)
  <2>16. j \in 1 .. i - 1
    BY <2>13, <2>14, <2>15, SMTT(30)
  <2>. QED
    BY <2>12, <2>16, SMTT(30) DEF q
<1>. QED
  BY <1>1, Invariance, PTL

(* process_cum_ack never frees a slot whose message the peer has not taken *)
(* charge of.                                                              *)
THEOREM NothingLost == Spec => []NoLoss
<1>1. IndInv => NoLoss
  <2>. SUFFICES ASSUME IndInv, NEW n \in Node, NEW i \in 1 .. Len(accepted[n])
                PROVE  \/ accepted[n][i] \in Elements(tx[n].pending)
                       \/ \E d \in tx[n].ring : AsMessage(d) = accepted[n][i]
                       \/ accepted[n][i] \in Elements(Taken(Peer(n)))
    BY DEF NoLoss
  <2>. DEFINE acc == accepted[n]
              s == tx[n]
              r == rx[Peer(n)]
  <2>1. Peer(n) \in Node /\ Peer(Peer(n)) = n
    BY PeerProperties
  <2>2. s \in TxState /\ TxOK(n, s, acc, net) /\ DataOK(net, n, acc, s.next_seq)
        /\ acc \in Seq(Message) /\ net \in SUBSET Packet
    BY NodeFacts, SMTT(30)
  <2>3. r \in RxState /\ Holds(Taken(Peer(n)), Passed(r), acc)
    BY <2>1, NodeFacts, SMTT(30) DEF RxOK, RxInOrder, Taken
  <2>4. s.last_ack <= r.rcv_next /\ s.last_ack \in Nat /\ r.rcv_next \in Nat
    BY LastAckCovered, SMTT(30) DEF TxState
  <2>5. /\ s.next_seq \in Nat /\ Len(s.pending) \in Nat /\ Len(acc) \in Nat
        /\ Len(acc) = s.next_seq + Len(s.pending)
    <3>1. s.next_seq \in Nat /\ s.pending \in Seq(Message)
      BY <2>2, SMTT(30) DEF TxState
    <3>2. Len(acc) = s.next_seq + Len(s.pending)
      BY <2>2, SMTT(30) DEF TxOK
    <3>. QED
      BY <3>1, <3>2, <2>2, SMTT(30)
  <2>6. CASE i > s.next_seq
    <3>1. i - s.next_seq \in 1 .. Len(s.pending) /\ s.next_seq + (i - s.next_seq) = i
      BY <2>5, <2>6, SMTT(30)
    <3>2. s.pending[i - s.next_seq] = acc[i]
      BY <2>2, <3>1, SMTT(30) DEF TxOK
    <3>. QED
      BY <3>1, <3>2, SMTT(30) DEF Elements
  <2>7. CASE i <= s.next_seq /\ i - 1 >= s.last_ack
    <3>1. i - 1 \in s.last_ack .. (s.next_seq - 1) /\ (i - 1) + 1 = i
      BY <2>4, <2>5, <2>7, SMTT(30)
    <3>2. PICK d \in s.ring : d.seq = i - 1
      BY <2>2, <3>1, SMTT(30) DEF TxOK, Seqs
    <3>3. d \in net /\ d.src = n /\ d.type = "Data" /\ d.cls \in 1 .. 2
      BY <2>2 DEF TxOK
    <3>4. AsMessage(d) = acc[d.seq + 1]
      BY <2>2, <3>3, SMTT(30) DEF DataOK, Unreliable
    <3>. QED
      BY <3>1, <3>2, <3>4, SMTT(30)
  <2>8. CASE i - 1 < s.last_ack
    <3>1. i - 1 \in Passed(r) /\ (i - 1) + 1 = i
      BY <2>4, <2>5, <2>8, SMTT(30) DEF Passed
    <3>2. \E j \in 1 .. Len(Taken(Peer(n))) : Taken(Peer(n))[j] = acc[i]
      BY <2>3, <3>1, SMTT(30) DEF Holds
    <3>. QED
      BY <3>2 DEF Elements
  <2>. QED
    BY <2>4, <2>5, <2>6, <2>7, <2>8, SMTT(30)
<1>. QED
  BY <1>1, Invariance, PTL

(* process_sack marks only what the peer holds, however stale the bitmap. *)
THEOREM SacksTrue == Spec => []SackTruthful
<1>1. IndInv => SackTruthful
  <2>. SUFFICES ASSUME IndInv, NEW n \in Node, NEW q \in tx[n].sacked
                PROVE  q \in Received(Peer(n))
    BY DEF SackTruthful
  <2>. DEFINE r == rx[Peer(n)]
  <2>1. Peer(n) \in Node /\ Peer(Peer(n)) = n
    BY PeerProperties, SMTT(30)
  <2>2. q \in Bits(net, Peer(n))
    BY DEF IndInv, TxOK
  <2>3. q \in Got(r) /\ r.rcv_next <= tx[n].next_seq
    BY <2>1, <2>2, NodeFacts, SMTT(30) DEF AcksOK, RxOK, RxInOrder
  <2>4. r.rcv_next \in Nat /\ tx[n].next_seq \in Nat
    BY <2>1, NodeFacts, SMTT(30) DEF RxState, TxState
  <2>. QED
    BY <2>1, <2>3, <2>4, SMTT(30) DEF Got, Received
<1>. QED
  BY <1>1, Invariance, PTL

(* has_buffer_space keeps the receive buffer within its capacity. *)
THEOREM BufferBounded == Spec => []NoOverflow
<1>1. IndInv => NoOverflow
  BY ZenonT(60) DEF IndInv, RxOK, RxInOrder, Ordered, NoOverflow
<1>. QED
  BY <1>1, Invariance, PTL

(* The retransmission timers are those of the slots that still need one,   *)
(* and the oldest slot always does.                                        *)
THEOREM TimersCover == Spec => []TimersCoverRing
<1>1. IndInv => TimersCoverRing
  BY OldestTimed, ZenonT(60) DEF IndInv, TxOK, TimersCoverRing
<1>. QED
  BY <1>1, Invariance, PTL

(* A session with reliable work left and no call in progress always has a  *)
(* timer armed.                                                            *)
THEOREM NeverStalls == Spec => []NoStall
<1>1. IndInv => NoStall
  <2>. SUFFICES ASSUME IndInv, NEW n \in Node, ~ Paced, n \notin polling,
                       tx[n].pending # <<>> \/ tx[n].ring # {}
                PROVE  tx[n].armed # {} \/ tx[n].persist_active
    BY DEF NoStall
  <2>1. CASE tx[n].ring # {}
    BY <2>1, OldestTimed, SMTT(30)
  <2>2. CASE tx[n].ring = {}
    BY <2>2, SMTT(30) DEF IndInv, ProbeOK
  <2>. QED
    BY <2>1, <2>2, ZenonT(60)
<1>. QED
  BY <1>1, Invariance, PTL

(* effective_window keeps the span beyond the peer's rcv_next within one   *)
(* window, so that the bitmap can describe all of it.                      *)
THEOREM SpanWithinWindow == Spec => []SpanBounded
<1>1. IndInv => SpanBounded
  <2>. SUFFICES ASSUME IndInv, NEW n \in Node
                PROVE  tx[n].next_seq - rx[Peer(n)].rcv_next <= Window[n]
    BY DEF SpanBounded
  <2>1. tx[n].next_seq \in Nat /\ tx[n].next_seq - tx[n].last_ack <= Window[n]
        /\ Window[n] \in Nat
    BY NodeFacts, WindowAssumption, SMTT(30) DEF TxState, TxOK
  <2>2. /\ tx[n].last_ack <= rx[Peer(n)].rcv_next
        /\ tx[n].last_ack \in Nat /\ rx[Peer(n)].rcv_next \in Nat
    BY LastAckCovered
  <2>. QED
    BY <2>1, <2>2, SMTT(30)
<1>. QED
  BY <1>1, Invariance, PTL

=============================================================================
