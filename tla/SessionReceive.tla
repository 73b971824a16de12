--------------------------- MODULE SessionReceive ---------------------------
(* The receive path of Session keeps what it has taken charge of exact:    *)
(* nothing twice, nothing skipped, class 2 in order, buffers in bounds.    *)
EXTENDS SessionLemmas

LEMMA ConcatMessages ==
    \A s, t, u \in Seq(Message) : (s \o t) \o u = s \o (t \o u)
BY ConcatAssociative

(* emit appends to what the application owns. *)
LEMMA EmitProperties ==
    ASSUME NEW r \in RxState, r.app_ready => r.rcv_buf = <<>>, NEW msgs \in Seq(Message)
    PROVE  /\ emit(r, msgs) \in RxState
           /\ TakenBy(emit(r, msgs)) = TakenBy(r) \o msgs
           /\ emit(r, msgs).app_ready => emit(r, msgs).rcv_buf = <<>>
           /\ emit(r, msgs).rcv_next = r.rcv_next
           /\ emit(r, msgs).reasm = r.reasm
           /\ emit(r, msgs).buffered_c2 = r.buffered_c2
           /\ emit(r, msgs).app_ready = r.app_ready
           /\ r.app_ready => Len(emit(r, msgs).rcv_buf) = 0
           /\ ~ r.app_ready => Len(emit(r, msgs).rcv_buf) = Len(r.rcv_buf) + Len(msgs)
<1>1. r.delivered \in Seq(Message) /\ r.rcv_buf \in Seq(Message)
  BY DEF RxState
<1>2. CASE r.app_ready
  <2>1. emit(r, msgs) = [r EXCEPT !.delivered = @ \o msgs]
    BY <1>2 DEF emit
  <2>2. r.delivered \o msgs \in Seq(Message)
    BY <1>1, ConcatProperties
  <2>3. emit(r, msgs) \in RxState
    BY <2>1, <2>2, Zenon DEF RxState
  <2>4. emit(r, msgs).delivered = r.delivered \o msgs /\ emit(r, msgs).rcv_buf = <<>>
    BY <1>2, <2>1 DEF RxState
  <2>5. TakenBy(emit(r, msgs)) = TakenBy(r) \o msgs
    <3>1. TakenBy(r) = r.delivered
      BY <1>1, <1>2, ConcatEmptySeq, Zenon DEF TakenBy
    <3>2. TakenBy(emit(r, msgs)) = r.delivered \o msgs
      BY <2>2, <2>4, ConcatEmptySeq DEF TakenBy
    <3>. QED
      BY <3>1, <3>2
  <2>. QED
    BY <1>2, <2>1, <2>3, <2>4, <2>5, Zenon DEF RxState
<1>3. CASE ~ r.app_ready
  <2>1. emit(r, msgs) = [r EXCEPT !.rcv_buf = @ \o msgs]
    BY <1>3 DEF emit
  <2>2. r.rcv_buf \o msgs \in Seq(Message)
        /\ Len(r.rcv_buf \o msgs) = Len(r.rcv_buf) + Len(msgs)
    BY <1>1, ConcatProperties
  <2>3. emit(r, msgs) \in RxState
    BY <2>1, <2>2, Zenon DEF RxState
  <2>4. emit(r, msgs).delivered = r.delivered /\ emit(r, msgs).rcv_buf = r.rcv_buf \o msgs
    BY <2>1 DEF RxState
  <2>5. TakenBy(emit(r, msgs)) = TakenBy(r) \o msgs
    <3>1. (r.delivered \o r.rcv_buf) \o msgs = r.delivered \o (r.rcv_buf \o msgs)
      BY <1>1, ConcatMessages, Zenon
    <3>. QED
      BY <3>1, <2>4 DEF TakenBy
  <2>. QED
    BY <1>3, <2>1, <2>2, <2>3, <2>4, <2>5, Zenon DEF RxState
<1>. QED
  BY <1>2, <1>3, Zenon DEF RxState

(* One message is held once, trivially in order. *)
LEMMA HoldsOne ==
    ASSUME NEW acc, Source(acc), NEW k \in 0 .. Len(acc) - 1
    PROVE  Holds(<<acc[k + 1]>>, {k}, acc)
BY DEF Holds

(* The entries that flush_reassembled hands over are held once, in order. *)
LEMMA HoldsBatch ==
    ASSUME NEW acc, Source(acc), NEW items \in SUBSET ReasmEntry,
           IsFiniteSet(items), Keyed(items),
           \A e \in items : e.seq < Len(acc) /\ AsMessage(e) = acc[e.seq + 1]
    PROVE  /\ InSeqOrder(items) \in Seq(Message)
           /\ Len(InSeqOrder(items)) = Cardinality(items)
           /\ Holds(InSeqOrder(items), Seqs(items), acc)
<1>. DEFINE q == InSeqOrder(items)
            C == Cardinality(items)
<1>0. Len(acc) \in Nat
  BY DEF Source
<1>1. q \in Seq(Message) /\ Len(q) = C
  BY <1>0, InSeqOrderProperties
<1>2. PICK f \in [1 .. C -> items] :
         /\ Ascends(f, C)
         /\ \A e \in items : \E i \in 1 .. C : f[i] = e
         /\ \A i \in 1 .. C : q[i] = AsMessage(f[i])
  BY <1>0, InSeqOrderProperties
<1>3. C \in Nat
  BY FS_CardinalityType
<1>. HIDE DEF q
<1>4. \A i \in 1 .. C : /\ f[i] \in items /\ f[i].seq \in Nat
                        /\ q[i] = acc[f[i].seq + 1]
                        /\ q[i].data = f[i].seq + 1
  <2>. SUFFICES ASSUME NEW i \in 1 .. C
                PROVE  /\ f[i] \in items /\ f[i].seq \in Nat
                       /\ q[i] = acc[f[i].seq + 1]
                       /\ q[i].data = f[i].seq + 1
    OBVIOUS
  <2>1. f[i] \in items /\ f[i].seq \in Nat /\ f[i].seq < Len(acc)
    BY <1>2 DEF ReasmEntry
  <2>2. q[i] = acc[f[i].seq + 1]
    BY <1>2, <2>1
  <2>3. f[i].seq + 1 \in 1 .. Len(acc)
    BY <1>0, <2>1
  <2>. QED
    BY <2>1, <2>2, <2>3 DEF Source
<1>5. \A k \in Seqs(items) : \E i \in 1 .. Len(q) : q[i] = acc[k + 1]
  BY <1>1, <1>2, <1>4, SMTT(60) DEF Seqs
<1>6. \A i \in 1 .. Len(q) : \E k \in Seqs(items) : q[i] = acc[k + 1]
  BY <1>1, <1>4 DEF Seqs
<1>7. \A i, j \in 1 .. Len(q) : i < j => q[i].data < q[j].data
  BY <1>1, <1>2, <1>4, SMTT(60) DEF Ascends
<1>8. \A i, j \in 1 .. Len(q) : q[i] = q[j] => i = j
  <2>. SUFFICES ASSUME NEW i \in 1 .. Len(q), NEW j \in 1 .. Len(q), i < j
                PROVE  q[i] # q[j]
    BY <1>1, <1>3
  <2>1. q[i].data < q[j].data /\ q[i].data \in Nat
    BY <1>1, <1>4, <1>7
  <2>. QED
    BY <2>1
<1>9. Holds(q, Seqs(items), acc)
  BY <1>5, <1>6, <1>7, <1>8, SMTT(30) DEF Holds
<1>. QED
  BY <1>1, <1>9 DEF q

(* flush_reassembled moves rcv_next to the first gap and hands over exactly *)
(* the class-2 messages it passes.                                          *)
LEMMA FlushProperties ==
    ASSUME NEW n \in Node, NEW r \in RxState, NEW acc, Source(acc),
           NEW lim \in Nat, lim <= Len(acc), RxInOrder(n, r, acc, lim)
    PROVE  /\ flush_reassembled(r) \in RxState
           /\ RxOK(n, flush_reassembled(r), acc, lim)
           /\ flush_reassembled(r).rcv_next >= r.rcv_next
           /\ Got(r) \subseteq Got(flush_reassembled(r))
<1>. DEFINE gap == FirstGap(r)
            run == {e \in r.reasm : e.seq < gap}
            held == {e \in run : e.cls = ReliableOrdered}
            batch == InSeqOrder(held)
            t == emit(r, batch)
            u == flush_reassembled(r)
<1>1. /\ r.rcv_next \in Nat /\ r.reasm \subseteq ReasmEntry
      /\ r.buffered_c2 \in Int /\ r.rcv_buf \in Seq(Message)
      /\ Len(acc) \in Nat /\ Len(r.rcv_buf) \in Nat
  BY DEF RxState, ReasmEntry, Source
<1>2. /\ IsFiniteSet(r.reasm) /\ Keyed(r.reasm)
      /\ \A e \in r.reasm : /\ e.seq \in Nat /\ e.cls \in 1 .. 2
                            /\ r.rcv_next <= e.seq /\ e.seq < lim
                            /\ AsMessage(e) = acc[e.seq + 1]
  BY <1>1 DEF RxInOrder, ReasmEntry
<1>3. /\ gap \in Nat /\ gap >= r.rcv_next
      /\ gap = r.rcv_next \/ \E e \in r.reasm : gap = e.seq + 1
      /\ gap \notin Seqs(r.reasm)
      /\ \A q \in Nat : r.rcv_next <= q /\ q < gap => q \in Seqs(r.reasm)
  BY <1>2, FirstGapProperties
<1>4. gap <= lim
  BY <1>1, <1>2, <1>3 DEF RxInOrder
<1>. HIDE DEF gap
<1>5. /\ held \in SUBSET ReasmEntry /\ IsFiniteSet(held) /\ Keyed(held)
      /\ \A e \in held : e.seq < Len(acc) /\ AsMessage(e) = acc[e.seq + 1]
  <2>1. IsFiniteSet(held)
    BY <1>2, FS_Subset
  <2>. QED
    BY <2>1, <1>1, <1>2, SMTT(30) DEF Keyed
<1>6. batch \in Seq(Message) /\ Len(batch) = Cardinality(held)
      /\ Holds(batch, Seqs(held), acc)
  BY <1>5, HoldsBatch
<1>. HIDE DEF batch
<1>7. /\ t \in RxState /\ TakenBy(t) = TakenBy(r) \o batch
      /\ t.app_ready => t.rcv_buf = <<>>
      /\ t.rcv_next = r.rcv_next /\ t.reasm = r.reasm /\ t.buffered_c2 = r.buffered_c2
      /\ t.app_ready = r.app_ready
      /\ r.app_ready => Len(t.rcv_buf) = 0
      /\ ~ r.app_ready => Len(t.rcv_buf) = Len(r.rcv_buf) + Len(batch)
  <2>1. r.app_ready => r.rcv_buf = <<>>
    BY DEF RxInOrder
  <2>. QED
    BY <2>1, <1>6, EmitProperties, Zenon
<1>8. u = [t EXCEPT !.reasm = @ \ run, !.rcv_next = gap,
                    !.buffered_c2 = @ - Cardinality(held)]
  BY DEF flush_reassembled, gap, batch
<1>9. Cardinality(held) \in Nat
  BY <1>5, FS_CardinalityType
<1>. HIDE DEF t, u
<1>10. u \in RxState
  <2>1. r.reasm \ run \subseteq ReasmEntry /\ r.buffered_c2 - Cardinality(held) \in Int
    BY <1>1, <1>9
  <2>. QED
    BY <2>1, <1>3, <1>7, <1>8, Zenon DEF RxState, ReasmEntry
<1>11. /\ u.rcv_next = gap /\ u.reasm = r.reasm \ run
       /\ u.buffered_c2 = r.buffered_c2 - Cardinality(held)
       /\ u.rcv_buf = t.rcv_buf /\ u.delivered = t.delivered /\ u.app_ready = t.app_ready
  BY <1>7, <1>8 DEF RxState
<1>12. TakenBy(u) = TakenBy(r) \o batch
  BY <1>7, <1>11, Zenon DEF TakenBy
<1>13. \A e \in r.reasm \ run : gap < e.seq
  BY <1>2, <1>3 DEF Seqs
<1>14. Passed(u) = Passed(r) \cup Seqs(held)
  <2>1. ASSUME NEW q \in Passed(u) PROVE q \in Passed(r) \cup Seqs(held)
    <3>1. CASE q \in 0 .. gap - 1 /\ q >= r.rcv_next
      <4>1. PICK e \in r.reasm : e.seq = q
        BY <3>1, <1>3 DEF Seqs
      <4>2. e \in run
        BY <3>1, <4>1, <1>3
      <4>3. e.cls = ReliableOrdered \/ e.cls = ReliableUnordered
        BY <1>2 DEF ReliableOrdered, ReliableUnordered
      <4>. QED
        BY <4>1, <4>2, <4>3 DEF Passed, Seqs
    <3>2. CASE q \in 0 .. gap - 1 /\ q < r.rcv_next
      BY <3>2, <1>1, <1>3 DEF Passed
    <3>3. CASE q \in Seqs({e \in u.reasm : e.cls = ReliableUnordered})
      BY <3>3, <1>11 DEF Passed, Seqs
    <3>. QED
      BY <2>1, <3>1, <3>2, <3>3, <1>1, <1>3, <1>11, SMTT(30) DEF Passed
  <2>2. ASSUME NEW q \in Passed(r) PROVE q \in Passed(u)
    <3>1. CASE q \in 0 .. r.rcv_next - 1
      BY <3>1, <1>1, <1>3, <1>11 DEF Passed
    <3>2. ASSUME NEW e \in r.reasm, e.cls = ReliableUnordered, q = e.seq PROVE q \in Passed(u)
      <4>1. CASE e \in run
        BY <3>2, <4>1, <1>2, <1>3, <1>11 DEF Passed
      <4>2. CASE e \notin run
        BY <3>2, <4>2, <1>11 DEF Passed, Seqs
      <4>. QED
        BY <4>1, <4>2
    <3>. QED
      BY <2>2, <3>1, <3>2 DEF Passed, Seqs
  <2>3. ASSUME NEW q \in Seqs(held) PROVE q \in Passed(u)
    BY <2>3, <1>2, <1>3, <1>11 DEF Passed, Seqs
  <2>. QED
    BY <2>1, <2>2, <2>3
<1>15. Holds(TakenBy(u), Passed(u), acc)
  <2>1. Passed(r) \in SUBSET (0 .. Len(acc) - 1)
    BY <1>1, <1>2 DEF Passed, Seqs, RxInOrder
  <2>2. Seqs(held) \in SUBSET (0 .. Len(acc) - 1)
    BY <1>1, <1>2 DEF Seqs
  <2>3. \A m \in Seqs(held) : \E e \in held : m = e.seq
    BY DEF Seqs
  <2>4. \A k \in Passed(r) : k \in 0 .. r.rcv_next - 1
           \/ \E d \in r.reasm : d.cls = ReliableUnordered /\ k = d.seq
    BY DEF Passed, Seqs
  <2>5. ASSUME NEW k \in Passed(r), NEW m \in Seqs(held)
        PROVE  /\ k # m
               /\ acc[k + 1].cls = ReliableOrdered => k < m
    <3>1. PICK e \in held : m = e.seq
      BY <2>3
    <3>2. CASE k \in 0 .. r.rcv_next - 1
      BY <3>1, <3>2, <1>1, <1>2
    <3>3. ASSUME NEW d \in r.reasm, d.cls = ReliableUnordered, k = d.seq
          PROVE  k # m /\ acc[k + 1].cls # ReliableOrdered
      <4>1. d # e
        BY <3>3 DEF ReliableOrdered, ReliableUnordered
      <4>2. d.seq # e.seq
        BY <4>1, <1>2 DEF Keyed
      <4>3. acc[k + 1] = AsMessage(d)
        BY <3>3, <1>2
      <4>. QED
        BY <3>1, <3>3, <4>2, <4>3 DEF AsMessage, ReliableOrdered, ReliableUnordered
    <3>. QED
      BY <2>4, <3>2, <3>3
  <2>6. Passed(r) \cap Seqs(held) = {}
    BY <2>5
  <2>7. TakenBy(r) \in Seq(Message) /\ Holds(TakenBy(r), Passed(r), acc)
    BY <1>1, ConcatProperties DEF TakenBy, RxInOrder, RxState
  <2>8. Holds(TakenBy(r) \o batch, Passed(r) \cup Seqs(held), acc)
    BY <2>1, <2>2, <2>5, <2>6, <2>7, <1>6, HoldsExtend, Zenon
  <2>. QED
    BY <2>8, <1>12, <1>14
<1>16. u.buffered_c2 = Cardinality(Ordered(u.reasm))
  <2>1. Ordered(u.reasm) = Ordered(r.reasm) \ held
    BY <1>11 DEF Ordered
  <2>2. held \subseteq Ordered(r.reasm) /\ IsFiniteSet(Ordered(r.reasm))
    BY <1>2, FS_Subset DEF Ordered
  <2>3. Ordered(r.reasm) \cap held = held
    BY <2>2
  <2>4. Cardinality(Ordered(r.reasm) \ held) = Cardinality(Ordered(r.reasm)) - Cardinality(held)
    BY <2>2, <2>3, FS_Difference, ZenonT(60)
  <2>. QED
    BY <2>1, <2>4, <1>11, SMTT(30) DEF RxInOrder
<1>17. rcv_occupancy(u) <= Window[n]
  <2>1. Window[n] \in Nat /\ Len(r.rcv_buf) + r.buffered_c2 <= Window[n]
    BY WindowAssumption DEF RxInOrder, rcv_occupancy
  <2>2. r.app_ready \in BOOLEAN
    BY DEF RxState
  <2>. QED
    BY <2>1, <2>2, <1>1, <1>6, <1>7, <1>9, <1>11, SMTT(30) DEF rcv_occupancy
<1>18. /\ u.app_ready => u.rcv_buf = <<>>
       /\ u.rcv_next <= lim /\ IsFiniteSet(u.reasm) /\ Keyed(u.reasm)
       /\ \A e \in u.reasm : /\ u.rcv_next <= e.seq /\ e.seq < lim
                             /\ AsMessage(e) = acc[e.seq + 1]
       /\ u.rcv_next \notin Seqs(u.reasm)
  <2>1. IsFiniteSet(u.reasm)
    BY <1>2, <1>11, FS_Subset, SMTT(30)
  <2>. QED
    BY <2>1, <1>2, <1>3, <1>4, <1>7, <1>11, <1>13, SMTT(30) DEF Keyed, Seqs
<1>19. Got(r) \subseteq Got(u)
  BY <1>1, <1>2, <1>3, <1>11, SMTT(30) DEF Got, Seqs
<1>. QED
  BY <1>3, <1>10, <1>11, <1>15, <1>16, <1>17, <1>18, <1>19, SMTT(30) DEF RxOK, RxInOrder, u

(* handle_reliable takes charge of a message at most once and keeps the    *)
(* buffer within its capacity.                                             *)
LEMMA HandleReliableProperties ==
    ASSUME NEW n \in Node, NEW r \in RxState, NEW acc, Source(acc),
           NEW lim \in Nat, lim <= Len(acc), RxOK(n, r, acc, lim),
           NEW p \in Packet, p.cls \in 1 .. 2, p.seq < lim, AsMessage(p) = acc[p.seq + 1]
    PROVE  /\ handle_reliable(n, r, p) \in RxState
           /\ RxOK(n, handle_reliable(n, r, p), acc, lim)
           /\ handle_reliable(n, r, p).rcv_next >= r.rcv_next
           /\ Got(r) \subseteq Got(handle_reliable(n, r, p))
<1>. DEFINE m == AsMessage(p)
            t == emit(r, <<m>>)
            u == handle_reliable(n, r, p)
<1>1. /\ r.rcv_next \in Nat /\ r.reasm \subseteq ReasmEntry
      /\ r.buffered_c2 \in Int /\ r.rcv_buf \in Seq(Message)
      /\ Len(acc) \in Nat /\ Len(r.rcv_buf) \in Nat /\ Window[n] \in Nat
      /\ p.seq \in Nat /\ p.cls \in 1 .. 2 /\ p.data \in Nat /\ r.app_ready \in BOOLEAN
  <2>1. /\ r.rcv_next \in Nat /\ r.reasm \subseteq ReasmEntry
        /\ r.buffered_c2 \in Int /\ r.rcv_buf \in Seq(Message) /\ r.app_ready \in BOOLEAN
    BY DEF RxState, ReasmEntry
  <2>2. p.seq \in Nat /\ p.data \in Nat
    BY DEF Packet
  <2>3. Len(acc) \in Nat /\ Window[n] \in Nat
    BY WindowAssumption DEF Source
  <2>. QED
    BY <2>1, <2>2, <2>3
<1>2. /\ IsFiniteSet(r.reasm) /\ Keyed(r.reasm)
      /\ \A e \in r.reasm : /\ e.seq \in Nat /\ e.cls \in 1 .. 2
                            /\ r.rcv_next <= e.seq /\ e.seq < lim
                            /\ AsMessage(e) = acc[e.seq + 1]
      /\ r.rcv_next <= lim /\ r.rcv_next \notin Seqs(r.reasm)
      /\ r.app_ready => r.rcv_buf = <<>>
      /\ r.buffered_c2 = Cardinality(Ordered(r.reasm))
      /\ rcv_occupancy(r) <= Window[n]
      /\ Holds(TakenBy(r), Passed(r), acc)
  BY <1>1, SMTT(30) DEF RxOK, RxInOrder, ReasmEntry
<1>3. m \in Message /\ <<m>> \in Seq(Message) /\ Len(<<m>>) = 1 /\ m = acc[p.seq + 1]
  BY <1>1 DEF AsMessage, Message
<1>. HIDE DEF m
<1>4. /\ t \in RxState /\ TakenBy(t) = TakenBy(r) \o <<m>>
      /\ t.app_ready => t.rcv_buf = <<>>
      /\ t.rcv_next = r.rcv_next /\ t.reasm = r.reasm /\ t.buffered_c2 = r.buffered_c2
      /\ t.app_ready = r.app_ready
      /\ r.app_ready => Len(t.rcv_buf) = 0
      /\ ~ r.app_ready => Len(t.rcv_buf) = Len(r.rcv_buf) + 1
  BY <1>2, <1>3, EmitProperties, Zenon
<1>5. Passed(r) \in SUBSET (0 .. Len(acc) - 1) /\ p.seq \in 0 .. Len(acc) - 1
      /\ TakenBy(r) \in Seq(Message)
  <2>1. TakenBy(r) \in Seq(Message)
    BY ConcatProperties DEF TakenBy, RxState
  <2>. QED
    BY <2>1, <1>1, <1>2, SMTT(30) DEF Passed, Seqs
<1>6. \A k \in Passed(r) : \/ k \in 0 .. r.rcv_next - 1
                           \/ \E d \in r.reasm : d.cls = ReliableUnordered /\ k = d.seq
  BY DEF Passed, Seqs
<1>7. \A d \in r.reasm : d.cls = ReliableUnordered => acc[d.seq + 1].cls # ReliableOrdered
  <2>. SUFFICES ASSUME NEW d \in r.reasm, d.cls = ReliableUnordered
                PROVE  acc[d.seq + 1].cls # ReliableOrdered
    OBVIOUS
  <2>1. acc[d.seq + 1] = AsMessage(d)
    BY <1>2
  <2>. QED
    BY <2>1 DEF AsMessage, ReliableOrdered, ReliableUnordered
<1>8. ASSUME p.seq \notin Passed(r),
             m.cls = ReliableOrdered => p.seq = r.rcv_next
      PROVE  Holds(TakenBy(t), Passed(r) \cup {p.seq}, acc)
  <2>1. Holds(<<m>>, {p.seq}, acc)
    BY <1>3, <1>5, HoldsOne
  <2>2. \A k \in Passed(r), j \in {p.seq} :
           acc[k + 1].cls = ReliableOrdered /\ acc[j + 1].cls = ReliableOrdered => k < j
    BY <1>1, <1>3, <1>6, <1>7, <1>8, SMTT(60)
  <2>3. Passed(r) \cap {p.seq} = {} /\ {p.seq} \in SUBSET (0 .. Len(acc) - 1)
    BY <1>5, <1>8
  <2>. QED
    BY <1>2, <1>3, <1>4, <1>5, <2>1, <2>2, <2>3, HoldsExtend, ZenonT(60)
<1>. HIDE DEF t
<1>9. CASE p.seq = r.rcv_next /\ (r.app_ready \/ has_buffer_space(n, r))
  <2>. DEFINE v == [t EXCEPT !.rcv_next = @ + 1]
  <2>1. u = flush_reassembled(v)
    BY <1>9 DEF handle_reliable, t, m
  <2>2. v \in RxState
    <3>1. t.rcv_next + 1 \in Nat
      BY <1>1, <1>4
    <3>. QED
      BY <3>1, <1>4, Zenon DEF RxState
  <2>3. /\ v.rcv_next = r.rcv_next + 1 /\ v.reasm = r.reasm
        /\ v.buffered_c2 = r.buffered_c2 /\ v.rcv_buf = t.rcv_buf
        /\ v.delivered = t.delivered /\ v.app_ready = t.app_ready
    BY <1>4 DEF RxState
  <2>. HIDE DEF v
  <2>4. Passed(v) = Passed(r) \cup {p.seq}
    BY <1>1, <1>9, <2>3, SMTT(30) DEF Passed
  <2>5. p.seq \notin Passed(r)
    BY <1>1, <1>2, <1>6, <1>9, SMTT(30) DEF Seqs
  <2>6. Holds(TakenBy(v), Passed(v), acc)
    BY <1>8, <1>9, <2>3, <2>4, <2>5, SMTT(30) DEF TakenBy
  <2>7. rcv_occupancy(v) <= Window[n]
    BY <1>1, <1>2, <1>4, <1>9, <2>3, SMTT(120) DEF rcv_occupancy, has_buffer_space
  <2>8. \A e \in r.reasm : r.rcv_next + 1 <= e.seq
    BY <1>1, <1>2, SMTT(60) DEF Seqs
  <2>9. RxInOrder(n, v, acc, lim)
    BY <1>1, <1>2, <1>4, <1>9, <2>3, <2>6, <2>7, <2>8, SMTT(120) DEF RxInOrder
  <2>10. /\ flush_reassembled(v) \in RxState
         /\ RxOK(n, flush_reassembled(v), acc, lim)
         /\ flush_reassembled(v).rcv_next >= v.rcv_next
         /\ Got(v) \subseteq Got(flush_reassembled(v))
    BY <2>2, <2>9, FlushProperties
  <2>11. Got(r) \subseteq Got(v)
    BY <1>1, <2>3, SMTT(30) DEF Got
  <2>12. flush_reassembled(v).rcv_next \in Nat
    BY <2>10 DEF RxState
  <2>. QED
    BY <1>1, <2>1, <2>3, <2>10, <2>11, <2>12, SMTT(30)
<1>10. CASE p.seq > r.rcv_next /\ p.seq \notin Seqs(r.reasm) /\ has_buffer_space(n, r)
  <2>. DEFINE items == r.reasm \cup {Entry(p)}
  <2>1. /\ Entry(p) \in ReasmEntry /\ Entry(p).seq = p.seq /\ Entry(p).cls = p.cls
        /\ AsMessage(Entry(p)) = m
    BY <1>1, SMTT(30) DEF Entry, ReasmEntry, AsMessage, m
  <2>2. /\ items \subseteq ReasmEntry /\ IsFiniteSet(items) /\ Keyed(items)
        /\ \A e \in items : /\ r.rcv_next <= e.seq /\ e.seq < lim
                            /\ AsMessage(e) = acc[e.seq + 1]
        /\ r.rcv_next \notin Seqs(items)
    <3>1. IsFiniteSet(items)
      BY <1>2, FS_AddElement, SMTT(30)
    <3>2. \A e \in r.reasm : e.seq # p.seq
      BY <1>10 DEF Seqs
    <3>. QED
      BY <1>1, <1>2, <1>3, <1>10, <2>1, <3>1, <3>2, SMTT(120) DEF Keyed, Seqs
  <2>3. Entry(p) \notin r.reasm
    BY <1>10, <2>1, SMTT(30) DEF Seqs
  <2>4. CASE p.cls = ReliableUnordered
    <3>1. u = [t EXCEPT !.reasm = @ \cup {Entry(p)}]
      BY <1>1, <1>10, <2>4 DEF handle_reliable, t, m
    <3>2. u \in RxState
      BY <1>4, <2>2, <3>1, Zenon DEF RxState, ReasmEntry
    <3>3. /\ u.rcv_next = r.rcv_next /\ u.reasm = items
          /\ u.buffered_c2 = r.buffered_c2 /\ u.rcv_buf = t.rcv_buf
          /\ u.delivered = t.delivered /\ u.app_ready = t.app_ready
      BY <1>4, <3>1 DEF RxState
    <3>. HIDE DEF u, items
    <3>4. Passed(u) = Passed(r) \cup {p.seq}
      BY <2>1, <2>4, <3>3 DEF Passed, Seqs, items
    <3>5. p.seq \notin Passed(r)
      BY <1>1, <1>6, <1>10, SMTT(30) DEF Seqs
    <3>6. m.cls # ReliableOrdered
      BY <2>4 DEF m, AsMessage, ReliableOrdered, ReliableUnordered
    <3>7. Holds(TakenBy(u), Passed(u), acc)
      BY <1>8, <3>3, <3>4, <3>5, <3>6, SMTT(30) DEF TakenBy
    <3>8. Ordered(items) = Ordered(r.reasm)
      BY <2>1, <2>4, SMTT(30) DEF Ordered, items, ReliableOrdered, ReliableUnordered
    <3>9. rcv_occupancy(u) <= Window[n]
      BY <1>1, <1>2, <1>4, <1>10, <3>3, SMTT(120) DEF rcv_occupancy, has_buffer_space
    <3>10. RxOK(n, u, acc, lim)
      BY <1>2, <1>4, <2>2, <3>3, <3>7, <3>8, <3>9, SMTT(120) DEF RxOK, RxInOrder
    <3>11. Got(r) \subseteq Got(u)
      BY <3>3 DEF Got, Seqs, items
    <3>. QED
      BY <1>1, <3>2, <3>3, <3>10, <3>11, SMTT(30) DEF u
  <2>5. CASE p.cls # ReliableUnordered
    <3>1. u = [r EXCEPT !.reasm = @ \cup {Entry(p)}, !.buffered_c2 = @ + 1]
      BY <1>1, <1>10, <2>5 DEF handle_reliable
    <3>2. u \in RxState
      <4>1. r.buffered_c2 + 1 \in Int
        BY <1>1
      <4>. QED
        BY <4>1, <2>2, <3>1, ZenonT(60) DEF RxState, ReasmEntry
    <3>3. /\ u.rcv_next = r.rcv_next /\ u.reasm = items
          /\ u.buffered_c2 = r.buffered_c2 + 1 /\ u.rcv_buf = r.rcv_buf
          /\ u.delivered = r.delivered /\ u.app_ready = r.app_ready
      BY <3>1 DEF RxState
    <3>. HIDE DEF u, items
    <3>4. Passed(u) = Passed(r)
      BY <2>1, <2>5, <3>3, SMTT(30) DEF Passed, Seqs, items
    <3>5. Holds(TakenBy(u), Passed(u), acc)
      BY <1>2, <3>3, <3>4 DEF TakenBy
    <3>6. Cardinality(Ordered(items)) = r.buffered_c2 + 1
      <4>1. Ordered(items) = Ordered(r.reasm) \cup {Entry(p)} /\ Entry(p) \notin Ordered(r.reasm)
        BY <1>1, <2>1, <2>3, <2>5, SMTT(30) DEF Ordered, items, ReliableOrdered, ReliableUnordered
      <4>2. IsFiniteSet(Ordered(r.reasm))
        BY <1>2, FS_Subset DEF Ordered
      <4>. QED
        BY <1>2, <4>1, <4>2, FS_AddElement, ZenonT(60)
    <3>7. rcv_occupancy(u) <= Window[n]
      BY <1>1, <1>10, <3>3, SMTT(30) DEF rcv_occupancy, has_buffer_space
    <3>8. RxOK(n, u, acc, lim)
      BY <1>2, <2>2, <3>3, <3>5, <3>6, <3>7, SMTT(30) DEF RxOK, RxInOrder
    <3>9. Got(r) \subseteq Got(u)
      BY <3>3, SMTT(30) DEF Got, Seqs, items
    <3>. QED
      BY <1>1, <3>2, <3>3, <3>8, <3>9 DEF u
  <2>. QED
    BY <2>4, <2>5
<1>11. CASE /\ ~ (p.seq = r.rcv_next /\ (r.app_ready \/ has_buffer_space(n, r)))
            /\ ~ (p.seq > r.rcv_next /\ p.seq \notin Seqs(r.reasm) /\ has_buffer_space(n, r))
  <2>1. u = r
    BY <1>11 DEF handle_reliable
  <2>. QED
    BY <2>1, <1>1
<1>. QED
  BY <1>9, <1>10, <1>11

=============================================================================
