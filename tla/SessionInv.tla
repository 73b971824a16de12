----------------------------- MODULE SessionInv -----------------------------
(***************************************************************************)
(* The inductive invariant of Session.  Its parts are predicates on one    *)
(* session's record and on what it relies on at the other end, so that     *)
(* each function of session.cc can be shown to keep them on its own.       *)
(***************************************************************************)
EXTENDS Session

ReasmEntry == [seq : Nat, cls : 1 .. 2, data : Nat]

(* Entries of a std::map: one per key. *)
Keyed(items) == \A d, e \in items : d.seq = e.seq => d = e

(* acc is what an application sent: message k is the k-th, of a reliable class. *)
Source(acc) == /\ acc \in Seq(Message)
               /\ \A k \in 1 .. Len(acc) : acc[k].data = k /\ acc[k].cls \in 1 .. 2

(* q holds, once each, the messages of acc with sequence numbers in P, the *)
(* class-2 ones in order.                                                  *)
Holds(q, P, acc) ==
    /\ \A k \in P : \E i \in 1 .. Len(q) : q[i] = acc[k + 1]
    /\ \A i \in 1 .. Len(q) : \E k \in P : q[i] = acc[k + 1]
    /\ \A i, j \in 1 .. Len(q) : q[i] = q[j] => i = j
    /\ \A i, j \in 1 .. Len(q) :
         q[i].cls = ReliableOrdered /\ q[j].cls = ReliableOrdered /\ i < j
             => q[i].data < q[j].data

-----------------------------------------------------------------------------
(* The receive side.                                                       *)

Ordered(items) == {e \in items : e.cls = ReliableOrdered}

(* The peer's sequence numbers whose message the application owns: below   *)
(* the cumulative ACK, or class 1 received above it.                       *)
Passed(r) == (0 .. r.rcv_next - 1) \cup Seqs({e \in r.reasm : e.cls = ReliableUnordered})

(* Every number a receiver has, passed on or in reasm. *)
Got(r) == (0 .. r.rcv_next - 1) \cup Seqs(r.reasm)

(* The receive side of n when its peer has accepted acc and has sent the   *)
(* first lim messages of it.                                               *)
RxInOrder(n, r, acc, lim) ==
    /\ r.app_ready => r.rcv_buf = <<>>
    /\ r.rcv_next <= lim
    /\ IsFiniteSet(r.reasm)
    /\ Keyed(r.reasm)
    /\ \A e \in r.reasm : /\ r.rcv_next <= e.seq /\ e.seq < lim
                          /\ AsMessage(e) = acc[e.seq + 1]
    /\ Holds(TakenBy(r), Passed(r), acc)
    /\ r.buffered_c2 = Cardinality(Ordered(r.reasm))
    /\ rcv_occupancy(r) <= Window[n]

(* Between calls rcv_next is moreover a gap. *)
RxOK(n, r, acc, lim) == RxInOrder(n, r, acc, lim) /\ r.rcv_next \notin Seqs(r.reasm)

(* What was heard of class 0 is below the window or marked in it. *)
DedupOK(r) ==
    /\ r.ur_seen \subseteq 0 .. DedupBits - 1
    /\ ~ r.ur_init => r.heard = <<>>
    /\ \A i \in 1 .. Len(r.heard) : \/ r.heard[i].data - 1 < r.ur_base
                                    \/ r.heard[i].data - 1 - r.ur_base \in r.ur_seen
    /\ NoRepeat(r.heard)

-----------------------------------------------------------------------------
(* The datagrams of n in a network N.                                      *)

Acks(N, n) == {p.cum_ack : p \in {d \in N : d.src = n}}

Bits(N, n) == UNION {{p.cum_ack + 1 + i : i \in p.sack} : p \in {d \in N : d.src = n}}

(* However old, a cumulative ACK of n covers only what n has, and a bitmap *)
(* bit is a number n has, which rcv_next at n therefore never stops at.    *)
AcksOK(N, n, r) ==
    /\ \A c \in Acks(N, n) : c <= r.rcv_next
    /\ Bits(N, n) \subseteq Got(r)
    /\ Acks(N, n) \cap Bits(N, n) = {}

(* A Data packet carries the message its sequence number stands for. *)
DataOK(N, n, acc, lim) ==
    \A p \in N : p.src = n /\ p.type = "Data" =>
        IF p.cls = Unreliable THEN p.data = p.seq + 1
                              ELSE p.seq < lim /\ AsMessage(p) = acc[p.seq + 1]

-----------------------------------------------------------------------------
(* The send side of n when its application had acc accepted.  The ring is  *)
(* exactly the span from the last cumulative ACK to next_seq; what is      *)
(* SACKed in it was marked by a datagram of the peer, and the rest is      *)
(* timed.                                                                  *)
TxOK(n, s, acc, N) ==
    /\ Source(acc)
    /\ Len(acc) = s.next_seq + Len(s.pending)
    /\ \A i \in 1 .. Len(s.pending) : s.pending[i] = acc[s.next_seq + i]
    /\ s.ring \subseteq N
    /\ \A d \in s.ring : d.src = n /\ d.type = "Data" /\ d.cls \in 1 .. 2
    /\ Keyed(s.ring)
    /\ Seqs(s.ring) = s.last_ack .. (s.next_seq - 1)
    /\ s.last_ack <= s.next_seq
    /\ s.next_seq - s.last_ack <= Window[n]
    /\ s.last_ack \in Acks(N, Peer(n)) \cup {0}
    /\ s.sacked \subseteq Bits(N, Peer(n)) \cap Seqs(s.ring)
    /\ s.armed = Seqs(s.ring) \ s.sacked

(* A queue that the window keeps back has its probe armed. *)
ProbeOK(s) == ~ Paced /\ s.pending # <<>> /\ s.ring = {} => s.persist_active

(* The inductive invariant: every fact above, for both sessions. *)
IndInv ==
    /\ TypeOK
    /\ \A n \in Node : /\ TxOK(n, tx[n], accepted[n], net)
                       /\ DataOK(net, n, accepted[n], tx[n].next_seq)
                       /\ RxOK(n, rx[n], accepted[Peer(n)], tx[Peer(n)].next_seq)
                       /\ AcksOK(net, n, rx[n])
                       /\ DedupOK(rx[n])
                       /\ n \notin polling => ProbeOK(tx[n])

=============================================================================
