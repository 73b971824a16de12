---------------------------- MODULE SessionSteps ----------------------------
(* Every call of session.cc keeps the inductive invariant.                 *)
EXTENDS SessionReceive, SessionSend

-----------------------------------------------------------------------------
(* What a step at one node leaves true at the other.                       *)

LEMMA TxFrame ==
    ASSUME NEW m \in Node, NEW s, NEW acc, NEW N, NEW M, TxOK(m, s, acc, N), N \subseteq M
    PROVE  TxOK(m, s, acc, M)
<1>1. Acks(N, Peer(m)) \subseteq Acks(M, Peer(m)) /\ Bits(N, Peer(m)) \subseteq Bits(M, Peer(m))
  BY AcksMonotone
<1>. QED
  BY <1>1 DEF TxOK

(* A receive side stays right when its peer has more messages and sends some. *)
LEMMA RxGrow ==
    ASSUME NEW n \in Node, NEW r \in RxState, NEW acc \in Seq(Message), NEW lim \in Nat,
           RxOK(n, r, acc, lim), lim <= Len(acc),
           NEW acc2 \in Seq(Message), NEW lim2 \in Nat, lim <= lim2,
           \A i \in 1 .. Len(acc) : acc2[i] = acc[i]
    PROVE  RxOK(n, r, acc2, lim2)
<1>1. r.rcv_next \in Nat /\ Len(acc) \in Nat /\ r.rcv_next <= lim
      /\ \A e \in r.reasm : e.seq \in Nat /\ e.seq < lim
  BY DEF RxState, RxOK, RxInOrder
<1>2. \A k \in 0 .. lim - 1 : acc2[k + 1] = acc[k + 1]
  BY <1>1
<1>3. Passed(r) \subseteq 0 .. lim - 1
  BY <1>1 DEF Passed, Seqs
<1>4. \A k \in Passed(r) : acc2[k + 1] = acc[k + 1]
  BY <1>2, <1>3
<1>5. Holds(TakenBy(r), Passed(r), acc2)
  <2>1. Holds(TakenBy(r), Passed(r), acc)
    BY DEF RxOK, RxInOrder
  <2>. QED
    BY <2>1, <1>4 DEF Holds
<1>6. \A e \in r.reasm : /\ r.rcv_next <= e.seq /\ e.seq < lim2
                         /\ AsMessage(e) = acc2[e.seq + 1]
  BY <1>1, <1>2 DEF RxOK, RxInOrder
<1>7. r.rcv_next <= lim2
  BY <1>1
<1>. QED
  BY <1>5, <1>6, <1>7 DEF RxOK, RxInOrder

(* The invariant of the whole from the invariant of the node that moved. *)
LEMMA Compose ==
    ASSUME IndInv, NEW n \in Node, NEW u \in TxState, NEW v \in RxState,
           NEW acc \in Seq(Message), NEW M \in SUBSET Packet,
           tx' = [tx EXCEPT ![n] = u], rx' = [rx EXCEPT ![n] = v],
           accepted' = [accepted EXCEPT ![n] = acc], net' = M, net \subseteq M,
           polling' \subseteq Node, polling \ {n} = polling' \ {n},
           TxOK(n, u, acc, M), DataOK(M, n, acc, u.next_seq),
           RxOK(n, v, accepted[Peer(n)], tx[Peer(n)].next_seq), DedupOK(v),
           n \notin polling' => ProbeOK(u),
           tx[n].next_seq <= u.next_seq,
           \A i \in 1 .. Len(accepted[n]) : acc[i] = accepted[n][i],
           rx[n].rcv_next <= v.rcv_next, Got(rx[n]) \subseteq Got(v),
           \A p \in M : p \in net \/ Fresh(n, v, p)
    PROVE  IndInv'
<1>. DEFINE m == Peer(n)
<1>1. m \in Node /\ m # n /\ Peer(m) = n /\ \A k \in Node : k = n \/ k = m
  <2>1. PICK x \in Node, y \in Node : x # y /\ Node = {x, y}
    BY NodeAssumption
  <2>. QED
    BY <2>1, PeerProperties
<1>. HIDE DEF m
<1>2. /\ tx \in [Node -> TxState] /\ rx \in [Node -> RxState] /\ net \in SUBSET Packet
      /\ accepted \in [Node -> Seq(Message)]
  BY DEF IndInv, TypeOK
<1>3. TypeOK'
  BY <1>2 DEF TypeOK
<1>4. /\ tx'[n] = u /\ rx'[n] = v /\ accepted'[n] = acc
      /\ tx'[m] = tx[m] /\ rx'[m] = rx[m] /\ accepted'[m] = accepted[m]
  BY <1>1, <1>2
<1>5. /\ TxOK(m, tx[m], accepted[m], net) /\ DataOK(net, m, accepted[m], tx[m].next_seq)
      /\ RxOK(m, rx[m], accepted[n], tx[n].next_seq) /\ AcksOK(net, m, rx[m])
      /\ DedupOK(rx[m]) /\ (m \notin polling => ProbeOK(tx[m]))
      /\ TxOK(n, tx[n], accepted[n], net) /\ AcksOK(net, n, rx[n])
  BY <1>1 DEF IndInv
<1>6. \A p \in M : p \in net \/ p.src # m
  BY <1>1 DEF Fresh
<1>7. TxOK(m, tx[m], accepted[m], M)
  BY <1>1, <1>5, TxFrame, SMTT(30)
<1>8. DataOK(M, m, accepted[m], tx[m].next_seq)
  BY <1>5, <1>6, SMTT(30) DEF DataOK
<1>9. RxOK(m, rx[m], acc, u.next_seq)
  <2>1. /\ rx[m] \in RxState /\ accepted[n] \in Seq(Message)
        /\ tx[n].next_seq \in Nat /\ u.next_seq \in Nat
    BY <1>1, <1>2, SMTT(30) DEF TxState
  <2>2. tx[n].next_seq <= Len(accepted[n])
    <3>1. Len(tx[n].pending) \in Nat
      BY <1>2, SMTT(60) DEF TxState
    <3>. QED
      BY <2>1, <3>1, <1>5, SMTT(120) DEF TxOK
  <2>. QED
    BY <1>1, <1>5, <2>1, <2>2, RxGrow, SMTT(30)
<1>10. AcksOK(M, m, rx[m])
  <2>1. rx[m] \in RxState /\ rx[m].rcv_next \in Nat
    BY <1>1, <1>2, ZenonT(60) DEF RxState
  <2>2. rx[m].rcv_next \notin Seqs(rx[m].reasm)
        /\ \A e \in rx[m].reasm : rx[m].rcv_next <= e.seq
    BY <1>5 DEF RxOK, RxInOrder
  <2>3. rx[m].rcv_next <= rx[m].rcv_next /\ Got(rx[m]) \subseteq Got(rx[m])
    BY <2>1
  <2>4. \A p \in M : p \in net \/ p.src # m \/ Fresh(m, rx[m], p)
    BY <1>6
  <2>. QED
    BY <1>2, <1>5, <2>1, <2>2, <2>3, <2>4, AcksStep, Zenon
<1>11. AcksOK(M, n, v)
  <2>1. rx[n] \in RxState
    BY <1>2, SMTT(30)
  <2>2. v.rcv_next \notin Seqs(v.reasm) /\ \A e \in v.reasm : v.rcv_next <= e.seq
    BY DEF RxOK, RxInOrder
  <2>. QED
    BY <1>2, <1>5, <2>1, <2>2, AcksStep, ZenonT(60)
<1>12. RxOK(n, v, accepted[m], tx[m].next_seq)
  BY DEF m
<1>13. m \notin polling' => ProbeOK(tx[m])
  BY <1>1, <1>5, SMTT(30)
<1>14. ASSUME NEW k \in Node
       PROVE  /\ TxOK(k, tx'[k], accepted'[k], net')
              /\ DataOK(net', k, accepted'[k], tx'[k].next_seq)
              /\ RxOK(k, rx'[k], accepted'[Peer(k)], tx'[Peer(k)].next_seq)
              /\ AcksOK(net', k, rx'[k]) /\ DedupOK(rx'[k])
              /\ (k \notin polling' => ProbeOK(tx'[k]))
  <2>1. CASE k = n
    BY <2>1, <1>4, <1>11, <1>12, SMTT(30) DEF m
  <2>2. CASE k = m
    BY <2>2, <1>1, <1>4, <1>5, <1>7, <1>8, <1>9, <1>10, <1>13, SMTT(30)
  <2>. QED
    BY <2>1, <2>2, <1>1, SMTT(30)
<1>. QED
  BY <1>3, <1>14 DEF IndInv

-----------------------------------------------------------------------------
(* Each call keeps the invariant.                                          *)

(* The facts of the invariant about one node, typed. *)
LEMMA NodeFacts ==
    ASSUME IndInv, NEW n \in Node
    PROVE  /\ tx[n] \in TxState /\ rx[n] \in RxState /\ accepted[n] \in Seq(Message)
           /\ net \in SUBSET Packet /\ polling \subseteq Node
           /\ TxOK(n, tx[n], accepted[n], net)
           /\ DataOK(net, n, accepted[n], tx[n].next_seq)
           /\ RxOK(n, rx[n], accepted[Peer(n)], tx[Peer(n)].next_seq)
           /\ AcksOK(net, n, rx[n])
           /\ DedupOK(rx[n])
           /\ n \notin polling => ProbeOK(tx[n])
           /\ rx[n].rcv_next <= rx[n].rcv_next
           /\ tx = [tx EXCEPT ![n] = tx[n]] /\ rx = [rx EXCEPT ![n] = rx[n]]
           /\ accepted = [accepted EXCEPT ![n] = accepted[n]]
<1>1. /\ tx \in [Node -> TxState] /\ rx \in [Node -> RxState] /\ net \in SUBSET Packet
      /\ accepted \in [Node -> Seq(Message)] /\ polling \subseteq Node
  BY DEF IndInv, TypeOK
<1>2. rx[n].rcv_next \in Nat
  BY <1>1 DEF RxState
<1>. QED
  BY <1>1, <1>2 DEF IndInv

(* A call that ends in pump() keeps the invariant, once what it did to the *)
(* send side before is known to be right.                                  *)
LEMMA PumpStep ==
    ASSUME IndInv, NEW n \in Node, NEW s \in TxState, NEW acc \in Seq(Message),
           NEW X \in SUBSET Packet,
           TxOK(n, s, acc, net), DataOK(net \cup X, n, acc, s.next_seq),
           tx[n].next_seq <= s.next_seq,
           \A i \in 1 .. Len(accepted[n]) : acc[i] = accepted[n][i],
           \A p \in X : p \in net \/ Fresh(n, rx[n], p),
           PumpAndArm(n, s, X), accepted' = [accepted EXCEPT ![n] = acc], rx' = rx,
           polling' \subseteq Node, polling \ {n} = polling' \ {n}
    PROVE  IndInv'
<1>1. /\ tx[n] \in TxState /\ rx[n] \in RxState /\ net \in SUBSET Packet
      /\ RxOK(n, rx[n], accepted[Peer(n)], tx[Peer(n)].next_seq) /\ DedupOK(rx[n])
      /\ rx[n].rcv_next <= rx[n].rcv_next /\ rx = [rx EXCEPT ![n] = rx[n]]
  BY NodeFacts
<1>2. PICK k \in PumpCounts(n, s) :
         LET t == pump(n, s, rx[n], k)
         IN  /\ tx' = [tx EXCEPT ![n] = maybe_arm_persist(t)]
             /\ net' = net \cup X \cup (t.ring \ s.ring)
  BY Zenon DEF PumpAndArm
<1>. DEFINE t == pump(n, s, rx[n], k)
            u == Pumped(n, s, rx[n], k)
            M == PumpNet(net, X, s, t)
<1>4. tx' = [tx EXCEPT ![n] = u] /\ net' = M /\ net \subseteq M
  BY <1>2 DEF Pumped, PumpNet
<1>3. /\ u \in TxState /\ M \in SUBSET Packet
      /\ TxOK(n, u, acc, M) /\ DataOK(M, n, acc, u.next_seq) /\ ProbeOK(u)
      /\ \A p \in M : p \in net \cup X \/ Fresh(n, rx[n], p)
      /\ s.next_seq <= u.next_seq
  BY <1>1, PumpProperties, ZenonT(60)
<1>. HIDE DEF t, u, M
<1>5. tx[n].next_seq <= u.next_seq
  <2>1. tx[n].next_seq \in Nat /\ s.next_seq \in Nat /\ u.next_seq \in Nat
    BY <1>1, <1>3 DEF TxState
  <2>. QED
    BY <2>1, <1>3
<1>6. rx' = [rx EXCEPT ![n] = rx[n]] /\ Got(rx[n]) \subseteq Got(rx[n])
  BY <1>1
<1>7. \A p \in M : p \in net \/ Fresh(n, rx[n], p)
  BY <1>3
<1>. QED
  BY <1>1, <1>3, <1>4, <1>5, <1>6, <1>7, Compose, ZenonT(60)

LEMMA SendStep ==
    ASSUME IndInv, NEW n \in Node, NEW cls \in ReliableClasses, Send(n, cls)
    PROVE  IndInv'
<1>. DEFINE msg == [cls |-> cls, data |-> Len(accepted[n]) + 1]
            acc == Append(accepted[n], msg)
            s == [tx[n] EXCEPT !.pending = Append(@, msg)]
<1>1. /\ tx[n] \in TxState /\ accepted[n] \in Seq(Message) /\ net \in SUBSET Packet
      /\ TxOK(n, tx[n], accepted[n], net) /\ polling \subseteq Node
      /\ DataOK(net, n, accepted[n], tx[n].next_seq)
  BY NodeFacts, SMTT(30)
<1>2. /\ tx[n].pending \in Seq(Message) /\ tx[n].next_seq \in Nat
      /\ Len(tx[n].pending) \in Nat /\ Len(accepted[n]) \in Nat
      /\ Len(accepted[n]) = tx[n].next_seq + Len(tx[n].pending)
  BY <1>1, SMTT(30) DEF TxState, TxOK
<1>3. cls \in 1 .. 2 /\ msg \in Message /\ msg.cls = cls /\ msg.data = Len(accepted[n]) + 1
  BY <1>2, ClassAssumption DEF Message
<1>4. /\ PumpAndArm(n, s, {}) /\ accepted' = [accepted EXCEPT ![n] = acc]
      /\ rx' = rx /\ polling' = polling
  BY DEF Send
<1>. HIDE DEF msg
<1>5. /\ acc \in Seq(Message) /\ Len(acc) = Len(accepted[n]) + 1
      /\ acc[Len(acc)] = msg /\ \A i \in 1 .. Len(accepted[n]) : acc[i] = accepted[n][i]
  BY <1>1, <1>2, <1>3
<1>6. s \in TxState
  <2>1. Append(tx[n].pending, msg) \in Seq(Message)
    BY <1>2, <1>3
  <2>. QED
    BY <2>1, <1>1, Zenon DEF TxState
<1>7. /\ s.pending = Append(tx[n].pending, msg) /\ s.next_seq = tx[n].next_seq
      /\ s.ring = tx[n].ring /\ s.last_ack = tx[n].last_ack
      /\ s.sacked = tx[n].sacked /\ s.armed = tx[n].armed
  BY <1>1 DEF TxState
<1>8. /\ Len(s.pending) = Len(tx[n].pending) + 1 /\ s.pending[Len(s.pending)] = msg
      /\ \A i \in 1 .. Len(tx[n].pending) : s.pending[i] = tx[n].pending[i]
  BY <1>2, <1>3, <1>7
<1>. HIDE DEF acc, s
<1>9. Source(acc)
  <2>. SUFFICES ASSUME NEW k \in 1 .. Len(acc) PROVE acc[k].data = k /\ acc[k].cls \in 1 .. 2
    BY <1>5 DEF Source
  <2>1. CASE k = Len(acc)
    BY <2>1, <1>3, <1>5, SMTT(30)
  <2>2. CASE k # Len(acc)
    <3>1. k \in 1 .. Len(accepted[n])
      BY <2>2, <1>2, <1>5
    <3>. QED
      BY <3>1, <1>1, <1>5, Zenon DEF TxOK, Source
  <2>. QED
    BY <2>1, <2>2
<1>10. ASSUME NEW i \in 1 .. Len(s.pending) PROVE s.pending[i] = acc[s.next_seq + i]
  <2>1. CASE i = Len(s.pending)
    <3>1. s.next_seq + i = Len(acc)
      BY <2>1, <1>2, <1>5, <1>7, <1>8, SMTT(60)
    <3>. QED
      BY <2>1, <3>1, <1>5, <1>8, SMTT(30)
  <2>2. CASE i # Len(s.pending)
    <3>1. i \in 1 .. Len(tx[n].pending)
      BY <2>2, <1>2, <1>8, SMTT(30)
    <3>2. tx[n].next_seq + i \in 1 .. Len(accepted[n])
      BY <3>1, <1>2, SMTT(30)
    <3>. QED
      BY <3>1, <3>2, <1>1, <1>5, <1>7, <1>8, Zenon DEF TxOK
  <2>. QED
    BY <2>1, <2>2
<1>11. TxOK(n, s, acc, net)
  <2>1. Len(acc) = s.next_seq + Len(s.pending)
    <3>1. /\ Len(acc) = Len(accepted[n]) + 1 /\ s.next_seq = tx[n].next_seq
          /\ Len(s.pending) = Len(tx[n].pending) + 1
      BY <1>5, <1>7, <1>8, Zenon
    <3>2. Len(accepted[n]) + 1 = tx[n].next_seq + (Len(tx[n].pending) + 1)
      BY <1>2, SMTT(30)
    <3>. QED
      BY <3>1, <3>2, Zenon
  <2>. QED
    BY <2>1, <1>1, <1>7, <1>9, <1>10, Zenon DEF TxOK
<1>12. DataOK(net \cup {}, n, acc, s.next_seq)
  <2>. SUFFICES ASSUME NEW p \in net, p.src = n, p.type = "Data"
                PROVE  IF p.cls = Unreliable THEN p.data = p.seq + 1
                       ELSE p.seq < s.next_seq /\ AsMessage(p) = acc[p.seq + 1]
    BY DEF DataOK
  <2>1. p.seq \in Nat
    BY <1>1 DEF Packet
  <2>2. IF p.cls = Unreliable THEN p.data = p.seq + 1
        ELSE p.seq < tx[n].next_seq /\ AsMessage(p) = accepted[n][p.seq + 1]
    BY <1>1 DEF DataOK
  <2>3. p.seq < tx[n].next_seq => p.seq + 1 \in 1 .. Len(accepted[n])
    BY <2>1, <1>2
  <2>. QED
    BY <2>2, <2>3, <1>5, <1>7, SMTT(30)
<1>13. tx[n].next_seq <= s.next_seq
  BY <1>2, <1>7
<1>14. /\ {} \in SUBSET Packet /\ \A p \in {} : p \in net \/ Fresh(n, rx[n], p)
       /\ polling' \subseteq Node /\ polling \ {n} = polling' \ {n}
  BY <1>1, <1>4
<1>. QED
  BY <1>4, <1>5, <1>6, <1>11, <1>12, <1>13, <1>14, PumpStep, ZenonT(60)

LEMMA SendUnreliableStep ==
    ASSUME IndInv, NEW n \in Node, SendUnreliable(n)
    PROVE  IndInv'
<1>. DEFINE seq == tx[n].next_unreliable_seq
            u == [tx[n] EXCEPT !.next_unreliable_seq = seq + 1]
            pk == MakePacket(n, rx[n], "Data", seq, Unreliable, seq + 1)
            M == net \cup {pk}
<1>1. /\ tx[n] \in TxState /\ rx[n] \in RxState /\ accepted[n] \in Seq(Message)
      /\ net \in SUBSET Packet /\ polling \subseteq Node
      /\ TxOK(n, tx[n], accepted[n], net) /\ DataOK(net, n, accepted[n], tx[n].next_seq)
      /\ RxOK(n, rx[n], accepted[Peer(n)], tx[Peer(n)].next_seq) /\ DedupOK(rx[n])
      /\ (n \notin polling => ProbeOK(tx[n]))
      /\ rx[n].rcv_next <= rx[n].rcv_next /\ rx = [rx EXCEPT ![n] = rx[n]]
      /\ accepted = [accepted EXCEPT ![n] = accepted[n]]
  BY NodeFacts
<1>2. /\ tx' = [tx EXCEPT ![n] = u] /\ net' = M
      /\ rx' = rx /\ polling' = polling /\ accepted' = accepted
  BY DEF SendUnreliable
<1>3. seq \in Nat /\ seq + 1 \in Nat /\ tx[n].next_seq \in Nat
  BY <1>1 DEF TxState
<1>4. u \in TxState
  BY <1>1, <1>3, Zenon DEF TxState
<1>5. /\ u.pending = tx[n].pending /\ u.next_seq = tx[n].next_seq /\ u.ring = tx[n].ring
      /\ u.last_ack = tx[n].last_ack /\ u.sacked = tx[n].sacked /\ u.armed = tx[n].armed
      /\ u.persist_active = tx[n].persist_active
  BY <1>1 DEF TxState
<1>6. pk \in Packet /\ Fresh(n, rx[n], pk)
  BY <1>1, <1>3, MakePacketType, MakePacketFresh, SMTT(30) DEF Unreliable
<1>7. pk.cls = Unreliable /\ pk.seq = seq /\ pk.data = seq + 1
  BY SMTT(30) DEF MakePacket
<1>. HIDE DEF u, pk
<1>8. TxOK(n, u, accepted[n], M)
  <2>1. TxOK(n, tx[n], accepted[n], M)
    BY <1>1, TxFrame, SMTT(30)
  <2>. QED
    BY <2>1, <1>5, ZenonT(60) DEF TxOK
<1>9. DataOK(M, n, accepted[n], u.next_seq)
  BY <1>1, <1>5, <1>7, SMTT(30) DEF DataOK
<1>10. n \notin polling' => ProbeOK(u)
  BY <1>1, <1>2, <1>5, SMTT(30) DEF ProbeOK
<1>11. tx[n].next_seq <= u.next_seq /\ M \in SUBSET Packet /\ net \subseteq M
       /\ Got(rx[n]) \subseteq Got(rx[n])
       /\ \A p \in M : p \in net \/ Fresh(n, rx[n], p)
  BY <1>1, <1>3, <1>5, <1>6, SMTT(30)
<1>12. rx' = [rx EXCEPT ![n] = rx[n]] /\ accepted' = [accepted EXCEPT ![n] = accepted[n]]
  BY <1>1, <1>2
<1>13. polling' \subseteq Node /\ polling \ {n} = polling' \ {n}
       /\ \A i \in 1 .. Len(accepted[n]) : accepted[n][i] = accepted[n][i]
  BY <1>1, <1>2, SMTT(30)
<1>. HIDE DEF M
<1>. QED
  BY <1>1, <1>2, <1>4, <1>8, <1>9, <1>10, <1>11, <1>12, <1>13, Compose, Zenon

LEMMA PollEndStep ==
    ASSUME IndInv, NEW n \in Node, PollEnd(n)
    PROVE  IndInv'
<1>. DEFINE s == tx[n]
            acc == accepted[n]
            X == {}
<1>1. /\ s \in TxState /\ acc \in Seq(Message) /\ polling \subseteq Node
      /\ TxOK(n, s, acc, net) /\ DataOK(net, n, acc, s.next_seq)
      /\ accepted = [accepted EXCEPT ![n] = acc]
  BY NodeFacts
<1>2. /\ PumpAndArm(n, s, X) /\ rx' = rx /\ polling' = polling \ {n}
      /\ accepted' = [accepted EXCEPT ![n] = acc]
  BY <1>1 DEF PollEnd
<1>3. /\ X \in SUBSET Packet /\ \A p \in X : p \in net \/ Fresh(n, rx[n], p)
      /\ polling' \subseteq Node /\ polling \ {n} = polling' \ {n}
  BY <1>1, <1>2
<1>4. DataOK(net \cup X, n, acc, s.next_seq)
  <2>1. net \cup X = net
    OBVIOUS
  <2>. QED
    BY <2>1, <1>1
<1>5. tx[n].next_seq <= s.next_seq /\ \A i \in 1 .. Len(accepted[n]) : acc[i] = accepted[n][i]
  BY <1>1 DEF TxState
<1>. HIDE DEF s, acc, X
<1>. QED
  BY <1>1, <1>2, <1>3, <1>4, <1>5, PumpStep, Zenon

LEMMA TickStep ==
    ASSUME IndInv, NEW n \in Node, NEW due \in SUBSET tx[n].armed, NEW probe \in BOOLEAN,
           Tick(n, due, probe)
    PROVE  IndInv'
<1>. DEFINE resent == {d \in tx[n].ring : d.seq \in due \ tx[n].sacked}
            s == [tx[n] EXCEPT !.armed = (@ \ due) \cup Seqs(resent)]
            pk == MakePacket(n, rx[n], "ProbeWindow", 0, Unreliable, 0)
            X == resent \cup (IF probe THEN {pk} ELSE {})
<1>1. /\ tx[n] \in TxState /\ rx[n] \in RxState /\ accepted[n] \in Seq(Message)
      /\ polling \subseteq Node /\ net \in SUBSET Packet
      /\ TxOK(n, tx[n], accepted[n], net) /\ DataOK(net, n, accepted[n], tx[n].next_seq)
      /\ accepted = [accepted EXCEPT ![n] = accepted[n]]
  BY NodeFacts
<1>2. /\ PumpAndArm(n, s, X) /\ rx' = rx /\ polling' = polling
      /\ accepted' = [accepted EXCEPT ![n] = accepted[n]]
  BY <1>1 DEF Tick
<1>3. pk \in Packet /\ Fresh(n, rx[n], pk) /\ pk.type # "Data"
  <2>1. pk.type = "ProbeWindow"
    BY DEF MakePacket
  <2>2. "ProbeWindow" \in {"Data", "Ack", "ProbeWindow"} /\ Unreliable \in 0 .. 2 /\ 0 \in Nat
    BY DEF Unreliable
  <2>3. pk \in Packet
    BY <2>2, <1>1, MakePacketType, ZenonT(60)
  <2>4. Fresh(n, rx[n], pk)
    BY MakePacketFresh
  <2>. QED
    BY <2>1, <2>3, <2>4, SMTT(30)
<1>. HIDE DEF pk
<1>4. tx[n].armed = Seqs(tx[n].ring) \ tx[n].sacked /\ tx[n].ring \subseteq net
  BY <1>1 DEF TxOK
<1>5. (tx[n].armed \ due) \cup Seqs(resent) = tx[n].armed
  BY <1>4 DEF Seqs
<1>6. s = [tx[n] EXCEPT !.armed = tx[n].armed]
  BY <1>5, Zenon
<1>7. s \in TxState
  BY <1>1, <1>6, Zenon DEF TxState
<1>8. /\ s.pending = tx[n].pending /\ s.next_seq = tx[n].next_seq /\ s.ring = tx[n].ring
      /\ s.last_ack = tx[n].last_ack /\ s.sacked = tx[n].sacked /\ s.armed = tx[n].armed
  BY <1>1, <1>6, SMTT(30) DEF TxState
<1>. HIDE DEF s
<1>9. TxOK(n, s, accepted[n], net)
  BY <1>1, <1>8, ZenonT(60) DEF TxOK
<1>10. resent \subseteq net
  BY <1>4
<1>. HIDE DEF resent
<1>11. X \in SUBSET Packet /\ \A p \in X : p \in net \/ Fresh(n, rx[n], p)
  BY <1>1, <1>3, <1>10, SMTT(30)
<1>12. DataOK(net \cup X, n, accepted[n], s.next_seq)
  <2>1. \A p \in net \cup X : p \in net \/ p.type # "Data"
    BY <1>3, <1>10
  <2>. HIDE DEF X
  <2>. QED
    BY <2>1, <1>1, <1>8, SMTT(30) DEF DataOK
<1>13. tx[n].next_seq <= s.next_seq
  BY <1>1, <1>8 DEF TxState
<1>14. /\ polling' \subseteq Node /\ polling \ {n} = polling' \ {n}
       /\ \A i \in 1 .. Len(accepted[n]) : accepted[n][i] = accepted[n][i]
  BY <1>1, <1>2, SMTT(30)
<1>. HIDE DEF X
<1>. QED
  BY <1>1, <1>2, <1>7, <1>9, <1>11, <1>12, <1>13, <1>14, PumpStep, ZenonT(60)

(* The fields that the receive-side invariants read. *)
Same(r, v) ==
    /\ v.rcv_next = r.rcv_next /\ v.reasm = r.reasm /\ v.buffered_c2 = r.buffered_c2
    /\ v.rcv_buf = r.rcv_buf /\ v.delivered = r.delivered /\ v.app_ready = r.app_ready
    /\ v.heard = r.heard /\ v.ur_init = r.ur_init /\ v.ur_base = r.ur_base
    /\ v.ur_seen = r.ur_seen

(* send_ack() counts a generation and changes nothing else. *)
LEMMA SendAckSame ==
    ASSUME NEW r \in RxState
    PROVE  send_ack(r) \in RxState /\ Same(r, send_ack(r))
BY SendAckType, Zenon DEF send_ack, Same, RxState

LEMMA SameKeeps ==
    ASSUME NEW n, NEW r, NEW v, NEW acc, NEW lim, Same(r, v)
    PROVE  /\ RxOK(n, r, acc, lim) => RxOK(n, v, acc, lim)
           /\ DedupOK(r) => DedupOK(v)
           /\ Got(v) = Got(r)
           /\ \A p : Fresh(n, r, p) => Fresh(n, v, p)
<1>1. Passed(v) = Passed(r) /\ TakenBy(v) = TakenBy(r) /\ Got(v) = Got(r)
      /\ rcv_occupancy(v) = rcv_occupancy(r)
  BY DEF Same, Passed, TakenBy, Got, rcv_occupancy
<1>2. RxOK(n, r, acc, lim) => RxOK(n, v, acc, lim)
  BY <1>1 DEF Same, RxOK, RxInOrder
<1>3. DedupOK(r) => DedupOK(v)
  BY DEF Same, DedupOK
<1>4. \A p : Fresh(n, r, p) => Fresh(n, v, p)
  BY SMTT(30) DEF Same, Fresh
<1>. QED
  BY <1>1, <1>2, <1>3, <1>4, SMTT(30)

LEMMA SetReceivingStep ==
    ASSUME IndInv, NEW n \in Node, NEW receiving \in BOOLEAN, SetReceiving(n, receiving)
    PROVE  IndInv'
<1>. DEFINE r == IF receiving
                 THEN [rx[n] EXCEPT !.app_ready = TRUE,
                                    !.delivered = @ \o rx[n].rcv_buf, !.rcv_buf = <<>>]
                 ELSE [rx[n] EXCEPT !.app_ready = FALSE]
            v == IF receiving THEN send_ack(r) ELSE r
            M == IF receiving THEN net \cup {AckPacket(n, r)} ELSE net
            acc == accepted[Peer(n)]
            lim == tx[Peer(n)].next_seq
<1>1. /\ tx[n] \in TxState /\ rx[n] \in RxState /\ accepted[n] \in Seq(Message)
      /\ net \in SUBSET Packet /\ polling \subseteq Node
      /\ TxOK(n, tx[n], accepted[n], net) /\ DataOK(net, n, accepted[n], tx[n].next_seq)
      /\ RxOK(n, rx[n], acc, lim) /\ DedupOK(rx[n]) /\ (n \notin polling => ProbeOK(tx[n]))
      /\ rx[n].rcv_next <= rx[n].rcv_next
      /\ tx = [tx EXCEPT ![n] = tx[n]] /\ accepted = [accepted EXCEPT ![n] = accepted[n]]
  BY NodeFacts
<1>2. /\ tx' = [tx EXCEPT ![n] = tx[n]] /\ rx' = [rx EXCEPT ![n] = v] /\ net' = M
      /\ polling' = polling /\ accepted' = [accepted EXCEPT ![n] = accepted[n]]
  BY <1>1 DEF SetReceiving
<1>3. rx[n].delivered \in Seq(Message) /\ rx[n].rcv_buf \in Seq(Message)
      /\ rx[n].delivered \o rx[n].rcv_buf \in Seq(Message) /\ <<>> \in Seq(Message)
  BY <1>1, ConcatProperties DEF RxState
<1>4. r \in RxState
  BY <1>1, <1>3, Zenon DEF RxState
<1>5. /\ r.rcv_next = rx[n].rcv_next /\ r.reasm = rx[n].reasm
      /\ r.buffered_c2 = rx[n].buffered_c2 /\ r.heard = rx[n].heard
      /\ r.ur_init = rx[n].ur_init /\ r.ur_base = rx[n].ur_base /\ r.ur_seen = rx[n].ur_seen
      /\ r.app_ready = receiving
      /\ receiving => r.delivered = rx[n].delivered \o rx[n].rcv_buf /\ r.rcv_buf = <<>>
      /\ ~ receiving => r.delivered = rx[n].delivered /\ r.rcv_buf = rx[n].rcv_buf
  BY <1>1, Zenon DEF RxState
<1>. HIDE DEF r
<1>6. TakenBy(r) = TakenBy(rx[n])
  BY <1>3, <1>5, ConcatEmptySeq, ZenonT(60) DEF TakenBy
<1>7. RxOK(n, r, acc, lim)
  <2>1. Passed(r) = Passed(rx[n])
    BY <1>5 DEF Passed
  <2>2. rcv_occupancy(r) <= Window[n]
    <3>1. Len(rx[n].rcv_buf) \in Nat /\ rx[n].buffered_c2 \in Int /\ Window[n] \in Nat
      BY <1>1, <1>3, WindowAssumption, SMTT(30) DEF RxState
    <3>2. Len(rx[n].rcv_buf) + rx[n].buffered_c2 <= Window[n]
      BY <1>1 DEF RxOK, RxInOrder, rcv_occupancy
    <3>3. Len(r.rcv_buf) \in Nat /\ Len(r.rcv_buf) <= Len(rx[n].rcv_buf)
      <4>1. CASE receiving
        BY <4>1, <3>1, <1>5, SMTT(30)
      <4>2. CASE ~ receiving
        BY <4>2, <3>1, <1>5, SMTT(30)
      <4>. QED
        BY <4>1, <4>2, SMTT(30)
    <3>. QED
      BY <3>1, <3>2, <3>3, <1>5, SMTT(30) DEF rcv_occupancy
  <2>3. r.app_ready => r.rcv_buf = <<>>
    BY <1>5, SMTT(30)
  <2>. QED
    BY <2>1, <2>2, <2>3, <1>1, <1>5, <1>6, SMTT(30) DEF RxOK, RxInOrder
<1>8. DedupOK(r) /\ Got(r) = Got(rx[n])
  BY <1>1, <1>5, SMTT(30) DEF DedupOK, Got
<1>9. v \in RxState /\ Same(r, v)
  BY <1>4, SendAckSame DEF Same
<1>10. AckPacket(n, r) \in Packet /\ Fresh(n, r, AckPacket(n, r)) /\ AckPacket(n, r).type = "Ack"
  <2>1. r.next_ack_seq \in Nat
    BY <1>4 DEF RxState
  <2>2. AckPacket(n, r).type = "Ack"
    BY DEF AckPacket, MakePacket
  <2>. QED
    BY <2>1, <2>2, <1>4, MakePacketType, MakePacketFresh, SMTT(30) DEF AckPacket, Unreliable
<1>. HIDE DEF v
<1>11. /\ RxOK(n, v, acc, lim) /\ DedupOK(v) /\ Got(v) = Got(r)
       /\ Fresh(n, v, AckPacket(n, r))
  BY <1>7, <1>8, <1>9, <1>10, SameKeeps, SMTT(30)
<1>12. M \in SUBSET Packet /\ net \subseteq M /\ (\A p \in M : p \in net \/ Fresh(n, v, p))
       /\ \A p \in M : p \in net \/ p.type # "Data"
  BY <1>1, <1>10, <1>11, SMTT(30)
<1>. HIDE DEF M
<1>13. DataOK(M, n, accepted[n], tx[n].next_seq)
  BY <1>1, <1>12 DEF DataOK
<1>14. TxOK(n, tx[n], accepted[n], M)
  BY <1>1, <1>12, TxFrame, SMTT(30)
<1>15. rx[n].rcv_next <= v.rcv_next /\ Got(rx[n]) \subseteq Got(v)
  BY <1>1, <1>5, <1>8, <1>9, <1>11, SMTT(30) DEF Same
<1>16. /\ polling' \subseteq Node /\ polling \ {n} = polling' \ {n}
       /\ (n \notin polling' => ProbeOK(tx[n]))
       /\ tx[n].next_seq <= tx[n].next_seq
       /\ \A i \in 1 .. Len(accepted[n]) : accepted[n][i] = accepted[n][i]
  BY <1>1, <1>2, SMTT(30) DEF TxState
<1>. QED
  BY <1>1, <1>2, <1>9, <1>11, <1>12, <1>13, <1>14, <1>15, <1>16, Compose, ZenonT(60)

(* handle_reliable leaves the class-0 window alone. *)
LEMMA HandleReliableClassZero ==
    ASSUME NEW n, NEW r \in RxState, NEW p
    PROVE  /\ handle_reliable(n, r, p).heard = r.heard
           /\ handle_reliable(n, r, p).ur_init = r.ur_init
           /\ handle_reliable(n, r, p).ur_base = r.ur_base
           /\ handle_reliable(n, r, p).ur_seen = r.ur_seen
BY DEF handle_reliable, flush_reassembled, emit, RxState

(* What one turn of poll()'s loop makes of the receive side. *)
Handled(n, p) == IF p.type # "Data" THEN rx[n]
                 ELSE IF p.cls = Unreliable THEN handle_unreliable(rx[n], p)
                 ELSE handle_reliable(n, rx[n], p)

LEMMA HandledOK ==
    ASSUME IndInv, NEW n \in Node, NEW p \in net, p.src = Peer(n)
    PROVE  /\ Handled(n, p) \in RxState
           /\ RxOK(n, Handled(n, p), accepted[Peer(n)], tx[Peer(n)].next_seq)
           /\ DedupOK(Handled(n, p))
           /\ rx[n].rcv_next <= Handled(n, p).rcv_next
           /\ Got(rx[n]) \subseteq Got(Handled(n, p))
<1>. DEFINE m == Peer(n)
            acc == accepted[m]
            lim == tx[m].next_seq
            r == rx[n]
<1>1. m \in Node
  BY PeerProperties
<1>2. /\ r \in RxState /\ RxOK(n, r, acc, lim) /\ DedupOK(r) /\ r.rcv_next <= r.rcv_next
      /\ net \in SUBSET Packet
  BY NodeFacts
<1>3. /\ tx[m] \in TxState /\ TxOK(m, tx[m], acc, net) /\ DataOK(net, m, acc, lim)
  BY <1>1, NodeFacts, SMTT(30)
<1>4. p \in Packet /\ p.cls \in 0 .. 2
  BY <1>2, SMTT(30) DEF Packet
<1>5. Source(acc) /\ lim \in Nat /\ lim <= Len(acc)
  <2>1. lim \in Nat /\ Len(tx[m].pending) \in Nat
    BY <1>3 DEF TxState
  <2>. QED
    BY <2>1, <1>3, SMTT(30) DEF TxOK
<1>. HIDE DEF acc, lim
<1>6. CASE p.type # "Data"
  <2>1. Handled(n, p) = r
    BY <1>6, SMTT(30) DEF Handled
  <2>. QED
    BY <2>1, <1>2 DEF acc, lim
<1>7. CASE p.type = "Data" /\ p.cls = Unreliable
  <2>. DEFINE u == handle_unreliable(r, p)
  <2>1. Handled(n, p) = u
    BY <1>7 DEF Handled
  <2>2. p.data = p.seq + 1
    BY <1>3, <1>7, SMTT(30) DEF DataOK
  <2>3. /\ u \in RxState /\ DedupOK(u)
        /\ u.rcv_next = r.rcv_next /\ u.reasm = r.reasm /\ u.buffered_c2 = r.buffered_c2
        /\ u.rcv_buf = r.rcv_buf /\ u.delivered = r.delivered /\ u.app_ready = r.app_ready
    BY <1>2, <1>4, <1>7, <2>2, HandleUnreliableProperties, SMTT(30)
  <2>. HIDE DEF u
  <2>4. Passed(u) = Passed(r) /\ TakenBy(u) = TakenBy(r) /\ Got(u) = Got(r)
        /\ rcv_occupancy(u) = rcv_occupancy(r)
    BY <2>3, SMTT(60) DEF Passed, TakenBy, Got, rcv_occupancy
  <2>5. RxOK(n, u, acc, lim)
    BY <2>3, <2>4, <1>2, ZenonT(60) DEF RxOK, RxInOrder
  <2>. QED
    BY <2>1, <2>3, <2>4, <2>5, <1>2, SMTT(30) DEF acc, lim
<1>8. CASE p.type = "Data" /\ p.cls # Unreliable
  <2>. DEFINE u == handle_reliable(n, r, p)
  <2>1. Handled(n, p) = u
    BY <1>8 DEF Handled
  <2>2. p.cls \in 1 .. 2 /\ p.seq < lim /\ AsMessage(p) = acc[p.seq + 1]
    BY <1>3, <1>4, <1>8, SMTT(30) DEF DataOK, Unreliable
  <2>3. /\ u \in RxState /\ RxOK(n, u, acc, lim)
        /\ u.rcv_next >= r.rcv_next /\ Got(r) \subseteq Got(u)
    <3>1. RxOK(n, r, acc, lim)
      BY <1>2, SMTT(30) DEF acc, lim
    <3>. QED
      BY <3>1, <1>2, <1>4, <1>5, <2>2, HandleReliableProperties, SMTT(30)
  <2>4. /\ u.heard = r.heard /\ u.ur_init = r.ur_init /\ u.ur_base = r.ur_base
        /\ u.ur_seen = r.ur_seen
    BY <1>2, HandleReliableClassZero, SMTT(30)
  <2>5. DedupOK(u)
    BY <2>4, <1>2, SMTT(30) DEF DedupOK
  <2>6. r.rcv_next <= u.rcv_next
    <3>1. r.rcv_next \in Nat /\ u.rcv_next \in Nat
      BY <2>3, <1>2, Zenon DEF RxState
    <3>2. u.rcv_next >= r.rcv_next
      BY <2>3
    <3>. QED
      BY <3>1, <3>2
  <2>. QED
    BY <2>1, <2>3, <2>5, <2>6, SMTT(30) DEF acc, lim
<1>. QED
  BY <1>6, <1>7, <1>8

LEMMA ReceiveStep ==
    ASSUME IndInv, NEW n \in Node, NEW p \in net, Receive(n, p, net)
    PROVE  IndInv'
<1>. DEFINE s == ProcessAckFields(tx[n], p)
            r == Handled(n, p)
            acks == p.type = "ProbeWindow" \/ (p.type = "Data" /\ p.cls # Unreliable)
            v == IF acks THEN send_ack(r) ELSE r
            M == net \cup FastResent(tx[n], s) \cup (IF acks THEN {AckPacket(n, r)} ELSE {})
            m == Peer(n)
            acc == accepted[n]
<1>1. m \in Node /\ p.src = m /\ Peer(m) = n
  BY PeerProperties, SMTT(30) DEF Receive
<1>2. /\ tx' = [tx EXCEPT ![n] = s] /\ rx' = [rx EXCEPT ![n] = v] /\ net' = M
      /\ polling' = polling \cup {n} /\ accepted' = accepted
  BY DEF Receive, Handled
<1>3. /\ tx[n] \in TxState /\ rx[n] \in RxState /\ acc \in Seq(Message)
      /\ net \in SUBSET Packet /\ polling \subseteq Node
      /\ TxOK(n, tx[n], acc, net) /\ DataOK(net, n, acc, tx[n].next_seq)
      /\ accepted = [accepted EXCEPT ![n] = acc]
  BY NodeFacts
<1>4. rx[m] \in RxState /\ RxOK(m, rx[m], acc, tx[n].next_seq) /\ AcksOK(net, m, rx[m])
  BY <1>1, NodeFacts, SMTT(30)
<1>5. p.cum_ack <= tx[n].next_seq
  <2>1. p.cum_ack \in Nat /\ rx[m].rcv_next \in Nat /\ tx[n].next_seq \in Nat
    BY <1>3, <1>4, ZenonT(60) DEF Packet, RxState, TxState
  <2>2. p.cum_ack <= rx[m].rcv_next
    BY <1>1, <1>4, AcksMember, SMTT(30) DEF AcksOK
  <2>3. rx[m].rcv_next <= tx[n].next_seq
    BY <1>4, SMTT(30) DEF RxOK, RxInOrder
  <2>. QED
    BY <2>1, <2>2, <2>3, SMTT(30)
<1>6. /\ s \in TxState /\ TxOK(n, s, acc, net) /\ s.next_seq = tx[n].next_seq
      /\ FastResent(tx[n], s) \subseteq tx[n].ring
  BY <1>1, <1>3, <1>5, AckFieldsProperties, SMTT(30)
<1>7. tx[n].ring \subseteq net
  BY <1>3, SMTT(30) DEF TxOK
<1>8. /\ r \in RxState /\ RxOK(n, r, accepted[m], tx[m].next_seq) /\ DedupOK(r)
      /\ rx[n].rcv_next <= r.rcv_next /\ Got(rx[n]) \subseteq Got(r)
  BY <1>1, HandledOK, SMTT(30)
<1>. HIDE DEF s, r
<1>9. v \in RxState /\ Same(r, v)
  BY <1>8, SendAckSame, SMTT(30) DEF Same
<1>10. AckPacket(n, r) \in Packet /\ Fresh(n, r, AckPacket(n, r)) /\ AckPacket(n, r).type = "Ack"
  <2>1. r.next_ack_seq \in Nat
    BY <1>8, SMTT(30) DEF RxState
  <2>2. AckPacket(n, r).type = "Ack"
    BY DEF AckPacket, MakePacket
  <2>. QED
    BY <2>1, <2>2, <1>8, MakePacketType, MakePacketFresh, SMTT(30) DEF AckPacket, Unreliable
<1>. HIDE DEF v
<1>11. /\ RxOK(n, v, accepted[m], tx[m].next_seq) /\ DedupOK(v) /\ Got(v) = Got(r)
       /\ Fresh(n, v, AckPacket(n, r))
  BY <1>8, <1>9, <1>10, SameKeeps, ZenonT(60)
<1>12. M \in SUBSET Packet /\ net \subseteq M /\ (\A q \in M : q \in net \/ Fresh(n, v, q))
       /\ \A q \in M : q \in net \/ q.type # "Data"
  BY <1>3, <1>6, <1>7, <1>10, <1>11, SMTT(30)
<1>. HIDE DEF M, acks
<1>13. DataOK(M, n, acc, s.next_seq)
  BY <1>3, <1>6, <1>12, SMTT(30) DEF DataOK
<1>14. TxOK(n, s, acc, M)
  BY <1>6, <1>12, TxFrame, SMTT(30)
<1>15. rx[n].rcv_next <= v.rcv_next /\ Got(rx[n]) \subseteq Got(v)
  BY <1>8, <1>9, <1>11, SMTT(30) DEF Same
<1>16. /\ polling' \subseteq Node /\ polling \ {n} = polling' \ {n}
       /\ (n \notin polling' => ProbeOK(s))
       /\ tx[n].next_seq <= s.next_seq
       /\ \A i \in 1 .. Len(accepted[n]) : acc[i] = accepted[n][i]
       /\ accepted' = [accepted EXCEPT ![n] = acc]
  BY <1>2, <1>3, <1>6, SMTT(30) DEF TxState
<1>. HIDE DEF acc
<1>. QED
  BY <1>2, <1>3, <1>6, <1>9, <1>11, <1>12, <1>13, <1>14, <1>15, <1>16, Compose, ZenonT(60) DEF m

=============================================================================
