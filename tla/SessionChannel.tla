--------------------------- MODULE SessionChannel ---------------------------
(* Session implements ReliableChannel: every call either accepts a message, *)
(* takes charge of new messages in turn, or is invisible.                   *)
EXTENDS SessionProofs

-----------------------------------------------------------------------------
(* What a call adds to what the application owns.                          *)

LEMMA FlushAppends ==
    ASSUME NEW r \in RxState, NEW acc, Source(acc), NEW lim \in Nat, lim <= Len(acc),
           IsFiniteSet(r.reasm), Keyed(r.reasm), r.app_ready => r.rcv_buf = <<>>,
           \A e \in r.reasm : e.seq < lim /\ AsMessage(e) = acc[e.seq + 1]
    PROVE  \E batch \in Seq(Message) : TakenBy(flush_reassembled(r)) = TakenBy(r) \o batch
<1>. DEFINE run == {e \in r.reasm : e.seq < FirstGap(r)}
            held == {e \in run : e.cls = ReliableOrdered}
            batch == InSeqOrder(held)
            t == emit(r, batch)
<1>1. r.reasm \subseteq ReasmEntry /\ Len(acc) \in Nat
  BY DEF RxState, ReasmEntry, Source
<1>2. /\ held \in SUBSET ReasmEntry /\ IsFiniteSet(held) /\ Keyed(held)
      /\ \A e \in held : e.seq < Len(acc) /\ AsMessage(e) = acc[e.seq + 1]
  <2>1. IsFiniteSet(held)
    BY <1>1, FS_Subset
  <2>2. \A e \in held : e.seq \in Nat
    BY <1>1 DEF ReasmEntry
  <2>. QED
    BY <2>1, <2>2, <1>1, SMTT(30) DEF Keyed
<1>3. batch \in Seq(Message)
  BY <1>2, HoldsBatch
<1>. HIDE DEF batch
<1>4. t \in RxState /\ TakenBy(t) = TakenBy(r) \o batch
  BY <1>1, <1>3, EmitProperties, Zenon
<1>5. flush_reassembled(r) = [t EXCEPT !.reasm = @ \ run, !.rcv_next = FirstGap(r),
                                       !.buffered_c2 = @ - Cardinality(held)]
  BY DEF flush_reassembled, batch
<1>. HIDE DEF t, run, held
<1>6. TakenBy(flush_reassembled(r)) = TakenBy(t)
  <2>1. /\ flush_reassembled(r).delivered = t.delivered
        /\ flush_reassembled(r).rcv_buf = t.rcv_buf
    BY <1>4, <1>5, Zenon DEF RxState
  <2>. QED
    BY <2>1 DEF TakenBy
<1>. QED
  BY <1>3, <1>4, <1>6, SMTT(30)

LEMMA HandleReliableAppends ==
    ASSUME NEW n \in Node, NEW r \in RxState, NEW acc, Source(acc),
           NEW lim \in Nat, lim <= Len(acc), RxOK(n, r, acc, lim),
           NEW p \in Packet, p.cls \in 1 .. 2, p.seq < lim, AsMessage(p) = acc[p.seq + 1]
    PROVE  \E batch \in Seq(Message) : TakenBy(handle_reliable(n, r, p)) = TakenBy(r) \o batch
<1>. DEFINE m == AsMessage(p)
            t == emit(r, <<m>>)
            u == handle_reliable(n, r, p)
<1>1. /\ r.app_ready => r.rcv_buf = <<>>
      /\ IsFiniteSet(r.reasm) /\ Keyed(r.reasm)
      /\ \A e \in r.reasm : e.seq < lim /\ AsMessage(e) = acc[e.seq + 1]
      /\ TakenBy(r) \in Seq(Message)
      /\ m \in Message /\ <<m>> \in Seq(Message)
  <2>1. /\ r.app_ready => r.rcv_buf = <<>>
        /\ IsFiniteSet(r.reasm) /\ Keyed(r.reasm)
        /\ \A e \in r.reasm : e.seq < lim /\ AsMessage(e) = acc[e.seq + 1]
    BY DEF RxOK, RxInOrder
  <2>2. TakenBy(r) \in Seq(Message)
    BY ConcatProperties DEF TakenBy, RxState
  <2>3. m \in Message
    BY DEF AsMessage, Message, Packet
  <2>. QED
    BY <2>1, <2>2, <2>3, SMTT(30)
<1>. HIDE DEF m
<1>2. /\ t \in RxState /\ TakenBy(t) = TakenBy(r) \o <<m>>
      /\ t.reasm = r.reasm /\ t.rcv_next = r.rcv_next
      /\ t.app_ready => t.rcv_buf = <<>>
  BY <1>1, EmitProperties, Zenon
<1>. HIDE DEF t
<1>3. CASE p.seq = r.rcv_next /\ (r.app_ready \/ has_buffer_space(n, r))
  <2>. DEFINE v == [t EXCEPT !.rcv_next = @ + 1]
  <2>1. u = flush_reassembled(v)
    BY <1>3 DEF handle_reliable, t, m
  <2>2. v \in RxState
    <3>1. t.rcv_next + 1 \in Nat
      <4>1. r.rcv_next \in Nat
        BY DEF RxState
      <4>. QED
        BY <4>1, <1>2
    <3>. QED
      BY <3>1, <1>2, Zenon DEF RxState
  <2>3. /\ v.reasm = r.reasm /\ v.rcv_buf = t.rcv_buf
        /\ v.delivered = t.delivered /\ v.app_ready = t.app_ready
    BY <1>2, Zenon DEF RxState
  <2>. HIDE DEF v, u
  <2>4. PICK batch \in Seq(Message) : TakenBy(u) = TakenBy(v) \o batch
    <3>1. v.app_ready => v.rcv_buf = <<>>
      BY <1>2, <2>3
    <3>2. IsFiniteSet(v.reasm) /\ Keyed(v.reasm)
          /\ \A e \in v.reasm : e.seq < lim /\ AsMessage(e) = acc[e.seq + 1]
      BY <1>1, <2>3
    <3>. QED
      BY <3>1, <3>2, <2>1, <2>2, FlushAppends, SMTT(30)
  <2>5. TakenBy(v) = TakenBy(r) \o <<m>>
    BY <1>2, <2>3, Zenon DEF TakenBy
  <2>6. TakenBy(u) = TakenBy(r) \o (<<m>> \o batch)
    <3>1. (TakenBy(r) \o <<m>>) \o batch = TakenBy(r) \o (<<m>> \o batch)
      BY <1>1, ConcatMessages, Zenon
    <3>. QED
      BY <3>1, <2>4, <2>5, Zenon
  <2>7. <<m>> \o batch \in Seq(Message)
    BY <1>1, ConcatProperties
  <2>. QED
    BY <2>6, <2>7, Zenon DEF u
<1>4. CASE /\ ~ (p.seq = r.rcv_next /\ (r.app_ready \/ has_buffer_space(n, r)))
           /\ p.seq > r.rcv_next /\ p.seq \notin Seqs(r.reasm) /\ has_buffer_space(n, r)
           /\ p.cls = ReliableUnordered
  <2>1. u = [t EXCEPT !.reasm = @ \cup {Entry(p)}]
    BY <1>4 DEF handle_reliable, t, m
  <2>2. u.delivered = t.delivered /\ u.rcv_buf = t.rcv_buf
    BY <1>2, <2>1, Zenon DEF RxState
  <2>3. TakenBy(u) = TakenBy(t)
    BY <2>2 DEF TakenBy
  <2>. QED
    BY <1>1, <1>2, <2>3, Zenon
<1>5. CASE /\ ~ (p.seq = r.rcv_next /\ (r.app_ready \/ has_buffer_space(n, r)))
           /\ ~ (/\ p.seq > r.rcv_next /\ p.seq \notin Seqs(r.reasm) /\ has_buffer_space(n, r)
                 /\ p.cls = ReliableUnordered)
  <2>1. \/ u = r
        \/ u = [r EXCEPT !.reasm = @ \cup {Entry(p)}, !.buffered_c2 = @ + 1]
    BY <1>5 DEF handle_reliable
  <2>2. u.delivered = r.delivered /\ u.rcv_buf = r.rcv_buf
    BY <2>1, Zenon DEF RxState
  <2>3. TakenBy(u) = TakenBy(r)
    BY <2>2 DEF TakenBy
  <2>4. TakenBy(r) = TakenBy(r) \o <<>> /\ <<>> \in Seq(Message)
    BY <1>1, ConcatEmptySeq
  <2>. QED
    BY <2>3, <2>4, Zenon
<1>. QED
  BY <1>3, <1>4, <1>5, SMTT(30)

LEMMA HandledAppends ==
    ASSUME IndInv, NEW n \in Node, NEW p \in net, p.src = Peer(n)
    PROVE  \E batch \in Seq(Message) : TakenBy(Handled(n, p)) = TakenBy(rx[n]) \o batch
<1>. DEFINE m == Peer(n)
            acc == accepted[m]
            lim == tx[m].next_seq
            r == rx[n]
<1>1. m \in Node
  BY PeerProperties
<1>2. r \in RxState /\ RxOK(n, r, acc, lim) /\ net \in SUBSET Packet
  BY NodeFacts
<1>3. tx[m] \in TxState /\ TxOK(m, tx[m], acc, net) /\ DataOK(net, m, acc, lim)
  BY <1>1, NodeFacts
<1>4. Source(acc) /\ lim \in Nat /\ lim <= Len(acc)
  <2>1. lim \in Nat /\ Len(tx[m].pending) \in Nat
    BY <1>3, SMTT(30) DEF TxState
  <2>2. Source(acc) /\ Len(acc) = lim + Len(tx[m].pending)
    BY <1>3 DEF TxOK
  <2>. QED
    BY <2>1, <2>2, SMTT(30)
<1>. HIDE DEF m, acc, lim, r
<1>5. p \in Packet /\ p.src = m
  BY <1>2 DEF m
<1>6. TakenBy(r) = TakenBy(r) \o <<>> /\ <<>> \in Seq(Message)
  <2>1. TakenBy(r) \in Seq(Message)
    BY <1>2, ConcatProperties DEF TakenBy, RxState
  <2>. QED
    BY <2>1, ConcatEmptySeq
<1>7. CASE p.type # "Data"
  <2>1. Handled(n, p) = r
    BY <1>7 DEF Handled, r
  <2>. QED
    BY <1>6, <2>1, Zenon DEF r
<1>8. CASE p.type = "Data" /\ p.cls = Unreliable
  <2>1. Handled(n, p) = handle_unreliable(r, p)
    BY <1>8 DEF Handled, r
  <2>2. handle_unreliable(r, p).delivered = r.delivered /\ handle_unreliable(r, p).rcv_buf = r.rcv_buf
    BY <1>2, ZenonT(60) DEF handle_unreliable, RxState
  <2>3. TakenBy(Handled(n, p)) = TakenBy(r)
    BY <2>1, <2>2, Zenon DEF TakenBy
  <2>. QED
    BY <1>6, <2>3, Zenon DEF r
<1>9. CASE p.type = "Data" /\ p.cls # Unreliable
  <2>1. Handled(n, p) = handle_reliable(n, r, p)
    BY <1>9 DEF Handled, r
  <2>2. p.cls \in 1 .. 2 /\ p.seq < lim /\ AsMessage(p) = acc[p.seq + 1]
    <3>1. p.cls \in 0 .. 2
      BY <1>5 DEF Packet
    <3>2. p.cls \in 1 .. 2
      BY <3>1, <1>9, SMTT(30) DEF Unreliable
    <3>. QED
      BY <3>2, <1>3, <1>5, <1>9, SMTT(30) DEF DataOK
  <2>3. \E batch \in Seq(Message) : TakenBy(handle_reliable(n, r, p)) = TakenBy(r) \o batch
    BY <1>2, <1>4, <1>5, <2>2, HandleReliableAppends, SMTT(30)
  <2>. QED
    BY <2>1, <2>3, Zenon DEF r
<1>. QED
  BY <1>7, <1>8, <1>9, Zenon

-----------------------------------------------------------------------------
(* The messages the application owns were accepted by the peer's send(). *)
TakenSent ==
    \A n \in Node : \A i \in 1 .. Len(Taken(n)) : Taken(n)[i] \in Elements(accepted[Peer(n)])

LEMMA InvTakenSent == IndInv => TakenSent
<1>. SUFFICES ASSUME IndInv, NEW n \in Node, NEW i \in 1 .. Len(Taken(n))
              PROVE  Taken(n)[i] \in Elements(accepted[Peer(n)])
  BY DEF TakenSent
<1>. DEFINE m == Peer(n)
            acc == accepted[m]
            lim == tx[m].next_seq
            r == rx[n]
<1>1. m \in Node
  BY PeerProperties
<1>2. r \in RxState /\ RxOK(n, r, acc, lim)
  BY NodeFacts
<1>3. tx[m] \in TxState /\ TxOK(m, tx[m], acc, net)
  BY <1>1, NodeFacts, SMTT(30)
<1>4. lim \in Nat /\ Len(acc) \in Nat /\ lim <= Len(acc)
  <2>1. lim \in Nat /\ Len(tx[m].pending) \in Nat
    BY <1>3, SMTT(30) DEF TxState
  <2>2. Len(acc) = lim + Len(tx[m].pending)
    BY <1>3, SMTT(30) DEF TxOK
  <2>. QED
    BY <2>1, <2>2, SMTT(60)
<1>. HIDE DEF acc, lim, r
<1>5. PICK k \in Passed(r) : Taken(n)[i] = acc[k + 1]
  BY <1>2 DEF RxOK, RxInOrder, Holds, Taken, r
<1>6. k \in 0 .. lim - 1
  <2>1. r.rcv_next \in Nat /\ r.rcv_next <= lim /\ r.reasm \subseteq ReasmEntry
    BY <1>2 DEF RxState, RxOK, RxInOrder, ReasmEntry
  <2>2. \A e \in r.reasm : e.seq \in 0 .. lim - 1
    BY <1>2, <1>4, <2>1, SMTT(30) DEF RxOK, RxInOrder, ReasmEntry
  <2>. QED
    BY <1>4, <2>1, <2>2, SMTT(30) DEF Passed, Seqs
<1>7. k + 1 \in 1 .. Len(acc)
  BY <1>4, <1>6, SMTT(30)
<1>. QED
  BY <1>5, <1>7 DEF Elements, acc

(* What is appended without repeating anything is a batch of outstanding   *)
(* messages, no longer than there are any.                                 *)
LEMMA BatchOutstanding ==
    ASSUME NEW acc \in Seq(Message), NEW q \in Seq(Message), NEW batch \in Seq(Message),
           batch # <<>>, NoRepeat(q \o batch),
           \A i \in 1 .. Len(q \o batch) : (q \o batch)[i] \in Elements(acc)
    PROVE  /\ NoRepeat(batch)
           /\ batch \in [1 .. Len(batch) -> Elements(acc) \ Elements(q)]
           /\ Len(batch) \in 1 .. Len(acc)
<1>. DEFINE all == q \o batch
            out == Elements(acc) \ Elements(q)
            a == Len(q)
            b == Len(batch)
<1>1. a \in Nat /\ b \in Nat /\ b > 0 /\ Len(acc) \in Nat
  BY EmptySeq, LenProperties, SMTT(30)
<1>2. /\ Len(all) = a + b
      /\ \A i \in 1 .. a : all[i] = q[i]
      /\ \A i \in 1 .. b : a + i \in 1 .. a + b /\ all[a + i] = batch[i]
  BY <1>1, ConcatProperties, SMTT(30)
<1>. HIDE DEF all
<1>3. \A i, j \in 1 .. Len(all) : all[i] = all[j] => i = j
  BY DEF NoRepeat, all
<1>4. NoRepeat(batch)
  <2>. SUFFICES ASSUME NEW i \in 1 .. b, NEW j \in 1 .. b, batch[i] = batch[j] PROVE i = j
    BY DEF NoRepeat
  <2>1. all[a + i] = all[a + j] /\ a + i \in 1 .. Len(all) /\ a + j \in 1 .. Len(all)
    BY <1>1, <1>2, SMTT(30)
  <2>2. a + i = a + j
    BY <2>1, <1>3, SMTT(30)
  <2>. QED
    BY <2>2, <1>1, SMTT(30)
<1>5. \A i \in 1 .. b : batch[i] \in out
  <2>. SUFFICES ASSUME NEW i \in 1 .. b
                PROVE  batch[i] \in Elements(acc) /\ batch[i] \notin Elements(q)
    OBVIOUS
  <2>1. batch[i] \in Elements(acc)
    BY <1>1, <1>2, ZenonT(30) DEF all
  <2>2. ASSUME NEW j \in 1 .. a, batch[i] = q[j] PROVE FALSE
    <3>1. all[a + i] = all[j] /\ a + i \in 1 .. Len(all) /\ j \in 1 .. Len(all)
      BY <1>1, <1>2, <2>2, SMTT(30)
    <3>2. a + i = j
      BY <3>1, <1>3, SMTT(30)
    <3>. QED
      BY <3>2, <1>1, SMTT(30)
  <2>. QED
    BY <2>1, <2>2, SMTT(30) DEF Elements
<1>6. batch \in [1 .. b -> out]
  <2>1. batch \in [1 .. b -> Message]
    BY LenProperties
  <2>. QED
    BY <2>1, <1>5, SMTT(30)
<1>7. IsFiniteSet(Elements(acc)) /\ Cardinality(Elements(acc)) <= Len(acc)
  <2>1. acc \in [1 .. Len(acc) -> Message]
    BY LenProperties
  <2>2. acc \in Surjection(1 .. Len(acc), Elements(acc))
    BY <2>1 DEF Surjection, Elements
  <2>3. IsFiniteSet(1 .. Len(acc)) /\ Cardinality(1 .. Len(acc)) = Len(acc)
    <3>. DEFINE l == Len(acc)
    <3>1. l \in Nat
      BY <1>1
    <3>. HIDE DEF l
    <3>2. IsFiniteSet(1 .. l) /\ Cardinality(1 .. l) = IF 1 > l THEN 0 ELSE l - 1 + 1
      BY <3>1, FS_Interval, SMTT(30)
    <3>3. Cardinality(1 .. l) = l
      BY <3>1, <3>2
    <3>. QED
      BY <3>2, <3>3, SMTT(30) DEF l
  <2>4. /\ IsFiniteSet(Elements(acc))
        /\ Cardinality(Elements(acc)) <= Cardinality(1 .. Len(acc))
    BY <2>2, <2>3, FS_Surjection, Zenon
  <2>. QED
    BY <2>3, <2>4, SMTT(30)
<1>8. b <= Len(acc)
  <2>1. batch \in Injection(1 .. b, Elements(acc))
    BY <1>4, <1>6 DEF Injection, IsInjective, NoRepeat
  <2>2. Cardinality(1 .. b) <= Cardinality(Elements(acc))
    BY <2>1, <1>7, FS_Injection, Zenon
  <2>3. Cardinality(1 .. b) = b /\ Cardinality(Elements(acc)) \in Nat
    BY <1>1, <1>7, FS_Interval, FS_CardinalityType, SMTT(30)
  <2>. QED
    BY <1>1, <1>7, <2>2, <2>3, SMTT(30)
<1>. QED
  BY <1>1, <1>4, <1>6, <1>8, SMTT(30)

-----------------------------------------------------------------------------
(* The step simulation.                                                    *)

(* A step that appends to what one application owns is a Take of what it   *)
(* appended, or nothing was appended.                                      *)
LEMMA AppendRefines ==
    ASSUME IndInv, AtMostOnce', OrderedInTurn', TakenSent', accepted' = accepted,
           NEW n \in Node, NEW batch \in Seq(Message),
           \A m \in Node : m # n => TakenBy(rx'[m]) = TakenBy(rx[m]),
           TakenBy(rx'[n]) = TakenBy(rx[n]) \o batch
    PROVE  [Channel!Next]_(Channel!vars)
<1>. DEFINE q == TakenBy(rx[n])
            acc == accepted[Peer(n)]
<1>1. q \in Seq(Message) /\ acc \in Seq(Message)
  <2>1. rx[n] \in RxState
    BY NodeFacts
  <2>2. Peer(n) \in Node
    BY PeerProperties
  <2>3. acc \in Seq(Message)
    BY <2>2, NodeFacts
  <2>. QED
    BY <2>1, <2>3, ConcatProperties, SMTT(30) DEF TakenBy, RxState
<1>2. /\ NoRepeat(q \o batch)
      /\ \A i \in 1 .. Len(q \o batch) : (q \o batch)[i] \in Elements(acc)
      /\ \A i \in 1 .. Len(q \o batch), m \in Elements(acc) :
            /\ (q \o batch)[i].cls = ReliableOrdered
            /\ m.cls = ReliableOrdered
            /\ m.data < (q \o batch)[i].data
            => \E j \in 1 .. i - 1 : (q \o batch)[j] = m
  <2>. DEFINE all == TakenBy(rx'[n])
  <2>1. NoRepeat(all)
    BY Zenon DEF AtMostOnce, Taken
  <2>2. \A i \in 1 .. Len(all) : all[i] \in Elements(accepted'[Peer(n)])
    BY Zenon DEF TakenSent, Taken
  <2>3. \A i \in 1 .. Len(all), m \in Elements(accepted'[Peer(n)]) :
            /\ all[i].cls = ReliableOrdered
            /\ m.cls = ReliableOrdered
            /\ m.data < all[i].data
            => \E j \in 1 .. i - 1 : all[j] = m
    BY Zenon DEF OrderedInTurn, Taken
  <2>4. all = q \o batch /\ accepted'[Peer(n)] = acc
    OBVIOUS
  <2>. HIDE DEF all
  <2>. QED
    BY <2>1, <2>2, <2>3, <2>4, ZenonT(30)
<1>3. Channel!Other(n) = Peer(n) /\ \A s : Channel!In(s) = Elements(s)
  BY DEF Channel!Other, Peer, Channel!In, Elements
<1>4. CASE batch = <<>>
  <2>1. TakenBy(rx'[n]) = TakenBy(rx[n])
    BY <1>1, <1>4, ConcatEmptySeq, SMTT(30)
  <2>2. \A m \in Node : TakenBy(rx'[m]) = TakenBy(rx[m])
    BY <2>1
  <2>. QED
    BY <2>2 DEF Channel!vars, Taken
<1>5. CASE batch # <<>>
  <2>1. /\ NoRepeat(batch)
        /\ batch \in [1 .. Len(batch) -> Elements(acc) \ Elements(q)]
        /\ Len(batch) \in 1 .. Len(acc)
    BY <1>1, <1>2, <1>5, BatchOutstanding, Zenon
  <2>2. Channel!Outstanding(n) = Elements(acc) \ Elements(q)
    BY <1>3 DEF Channel!Outstanding, Taken
  <2>3. Channel!Distinct(batch)
    BY <2>1, SMTT(30) DEF Channel!Distinct, NoRepeat
  <2>4. Channel!InTurn(n, q \o batch)
    BY <1>2, <1>3, ZenonT(30) DEF Channel!InTurn, ReliableOrdered
  <2>5. [m \in Node |-> TakenBy(rx'[m])]
          = [[m \in Node |-> TakenBy(rx[m])] EXCEPT ![n] = @ \o batch]
    BY Zenon
  <2>6. Channel!Take(n, batch)
    BY <2>3, <2>4, <2>5, SMTT(30) DEF Channel!Take, Taken
  <2>7. Channel!Next
    BY <1>3, <2>1, <2>2, <2>6, Zenon DEF Channel!Next
  <2>. QED
    BY <2>7
<1>. QED
  BY <1>4, <1>5, SMTT(30)

LEMMA RxFunction == IndInv => DOMAIN rx = Node /\ accepted \in [Node -> Seq(Message)]
BY SMTT(30) DEF IndInv, TypeOK

(* send() with a reliable class is an Accept. *)
LEMMA SendRefines ==
    ASSUME NEW n \in Node, NEW cls \in ReliableClasses, Send(n, cls),
           accepted \in [Node -> Seq(Message)]
    PROVE  Channel!Next
<1>1. cls \in 1 .. 2
  BY ClassAssumption
<1>2. rx' = rx
  BY Zenon DEF Send
<1>3. accepted' = [accepted EXCEPT ![n] = Append(accepted[n],
                                                [cls |-> cls, data |-> Len(accepted[n]) + 1])]
  BY Zenon DEF Send
<1>4. Channel!Accept(n, cls)
  BY <1>2, <1>3 DEF Channel!Accept, Taken
<1>. QED
  BY <1>1, <1>4, Zenon DEF Channel!Next

LEMMA SendAckKeeps ==
    ASSUME NEW r \in RxState
    PROVE  TakenBy(send_ack(r)) = TakenBy(r)
<1>1. Same(r, send_ack(r))
  BY SendAckSame
<1>. QED
  BY <1>1, Zenon DEF Same, TakenBy

(* One turn of the loop of poll() appends what handle_reliable passes on. *)
LEMMA ReceiveAppends ==
    ASSUME IndInv, NEW n \in Node, NEW p \in net, Receive(n, p, net)
    PROVE  /\ accepted' = accepted
           /\ \A m \in Node : m # n => TakenBy(rx'[m]) = TakenBy(rx[m])
           /\ \E batch \in Seq(Message) : TakenBy(rx'[n]) = TakenBy(rx[n]) \o batch
<1>. DEFINE r == Handled(n, p)
            acks == p.type = "ProbeWindow" \/ (p.type = "Data" /\ p.cls # Unreliable)
            v == IF acks THEN send_ack(r) ELSE r
<1>1. p.src = Peer(n) /\ rx' = [rx EXCEPT ![n] = v] /\ accepted' = accepted
  BY DEF Receive, Handled
<1>2. r \in RxState
  BY <1>1, HandledOK, SMTT(30)
<1>3. PICK batch \in Seq(Message) : TakenBy(r) = TakenBy(rx[n]) \o batch
  BY <1>1, HandledAppends, SMTT(30)
<1>. HIDE DEF r
<1>4. TakenBy(v) = TakenBy(r)
  BY <1>2, SendAckKeeps
<1>. HIDE DEF v
<1>5. rx'[n] = v /\ \A m \in Node : m # n => rx'[m] = rx[m]
  BY <1>1, RxFunction
<1>. QED
  BY <1>1, <1>3, <1>4, <1>5, Zenon

(* set_receiving() moves messages from the queue to the application. *)
LEMMA SetReceivingKeeps ==
    ASSUME IndInv, NEW n \in Node, NEW receiving \in BOOLEAN, SetReceiving(n, receiving)
    PROVE  accepted' = accepted /\ \A m \in Node : TakenBy(rx'[m]) = TakenBy(rx[m])
<1>. DEFINE r == IF receiving
                 THEN [rx[n] EXCEPT !.app_ready = TRUE,
                                    !.delivered = @ \o rx[n].rcv_buf, !.rcv_buf = <<>>]
                 ELSE [rx[n] EXCEPT !.app_ready = FALSE]
            v == IF receiving THEN send_ack(r) ELSE r
<1>1. rx' = [rx EXCEPT ![n] = v] /\ accepted' = accepted
  BY DEF SetReceiving
<1>2. rx[n] \in RxState
  BY NodeFacts
<1>3. /\ rx[n].delivered \in Seq(Message) /\ rx[n].rcv_buf \in Seq(Message)
      /\ rx[n].delivered \o rx[n].rcv_buf \in Seq(Message) /\ <<>> \in Seq(Message)
  BY <1>2, ConcatProperties, SMTT(30) DEF RxState
<1>4. r \in RxState
  BY <1>2, <1>3, Zenon DEF RxState
<1>5. /\ receiving => r.delivered = rx[n].delivered \o rx[n].rcv_buf /\ r.rcv_buf = <<>>
      /\ ~receiving => r.delivered = rx[n].delivered /\ r.rcv_buf = rx[n].rcv_buf
  BY <1>2, Zenon DEF RxState
<1>. HIDE DEF r
<1>6. TakenBy(r) = TakenBy(rx[n])
  <2>1. CASE receiving
    <3>1. (rx[n].delivered \o rx[n].rcv_buf) \o <<>> = rx[n].delivered \o rx[n].rcv_buf
      BY <1>3, ConcatEmptySeq, Zenon
    <3>. QED
      BY <2>1, <3>1, <1>5, Zenon DEF TakenBy
  <2>2. CASE ~receiving
    BY <2>2, <1>5, Zenon DEF TakenBy
  <2>. QED
    BY <2>1, <2>2
<1>7. TakenBy(v) = TakenBy(r)
  BY <1>4, SendAckKeeps, SMTT(30)
<1>. HIDE DEF v
<1>8. rx'[n] = v /\ \A m \in Node : m # n => rx'[m] = rx[m]
  BY <1>1, RxFunction, SMTT(30)
<1>. QED
  BY <1>1, <1>6, <1>7, <1>8, Zenon

LEMMA ChannelStep ==
    ASSUME IndInv, [Next]_vars, AtMostOnce', OrderedInTurn', TakenSent'
    PROVE  [Channel!Next]_(Channel!vars)
<1>1. ASSUME accepted' = accepted, \A m \in Node : TakenBy(rx'[m]) = TakenBy(rx[m])
      PROVE  [Channel!Next]_(Channel!vars)
  BY <1>1 DEF Channel!vars, Taken
<1>2. ASSUME accepted' = accepted, rx' = rx
      PROVE  [Channel!Next]_(Channel!vars)
  BY <1>1, <1>2, SMTT(30)
<1>3. CASE UNCHANGED vars
  BY <1>2, <1>3, SMTT(30) DEF vars
<1>4. ASSUME NEW n \in Node, NEW cls \in ReliableClasses, Send(n, cls)
      PROVE  [Channel!Next]_(Channel!vars)
  BY <1>4, RxFunction, SendRefines, SMTT(30)
<1>5. ASSUME NEW n \in Node, SendUnreliable(n) \/ PollEnd(n)
      PROVE  [Channel!Next]_(Channel!vars)
  <2>1. accepted' = accepted /\ rx' = rx
    BY <1>5, Zenon DEF SendUnreliable, PollEnd
  <2>. QED
    BY <2>1, <1>2, SMTT(30)
<1>6. ASSUME NEW n \in Node, NEW due, NEW probe, Tick(n, due, probe)
      PROVE  [Channel!Next]_(Channel!vars)
  <2>1. accepted' = accepted /\ rx' = rx
    BY <1>6, Zenon DEF Tick
  <2>. QED
    BY <2>1, <1>2
<1>7. ASSUME NEW n \in Node, NEW receiving \in BOOLEAN, SetReceiving(n, receiving)
      PROVE  [Channel!Next]_(Channel!vars)
  BY <1>1, <1>7, SetReceivingKeeps, SMTT(30)
<1>8. ASSUME NEW n \in Node, NEW p \in net, Receive(n, p, net)
      PROVE  [Channel!Next]_(Channel!vars)
  BY <1>8, ReceiveAppends, AppendRefines, SMTT(30)
<1>9. CASE Next
  BY <1>4, <1>5, <1>6, <1>7, <1>8, <1>9, SMTT(30) DEF Next
<1>. QED
  BY <1>3, <1>9, SMTT(30)

(* A pair of sessions is a reliable channel: whatever the network loses,   *)
(* repeats or reorders and whenever timers fire, send() accepts one        *)
(* message, and each later call hands over new messages in turn (poll()    *)
(* through handle_reliable and flush_reassembled) or nothing the           *)
(* applications could see.                                                 *)
THEOREM ChannelRefined == Spec => ImplementsChannel
<1>1. Init => Channel!Init
  <2>. SUFFICES ASSUME Init PROVE Channel!Init
    OBVIOUS
  <2>1. \A n \in Node : rx[n].delivered = <<>> /\ rx[n].rcv_buf = <<>>
    BY Zenon DEF Init
  <2>2. \A n \in Node : TakenBy(rx[n]) = <<>>
    BY <2>1 DEF TakenBy
  <2>. QED
    BY <2>2 DEF Init, Channel!Init, Taken
<1>2. IndInv /\ [Next]_vars /\ AtMostOnce' /\ OrderedInTurn' /\ TakenSent'
        => [Channel!Next]_(Channel!vars)
  BY ChannelStep
<1>. QED
  BY <1>1, <1>2, InvTakenSent, Invariance, NeverTwice, InOrder, PTL
     DEF Spec, ImplementsChannel, Channel!Spec

==============================================================================
