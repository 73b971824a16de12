---------------------------- MODULE FileTransfer ----------------------------
(***************************************************************************)
(* demo/send_file and demo/recv_file: a file as a header with its length   *)
(* and chunks of at most Chunk bytes, sent over one session.  The sender   *)
(* ends when everything is acknowledged; the receiver, which cannot know   *)
(* that its last acknowledgement arrived, stays for a while.               *)
(***************************************************************************)
EXTENDS Pipe, Sequences

CONSTANTS
    Sizes,      \* the lengths of the file
    Chunk,      \* kChunk
    Linger,     \* linger_ms
    Timeout,    \* timeout_ms of both
    MaxLosses,  \* bound: datagrams lost
    Tolerated   \* losses that Linger makes up for

VARIABLES
    size,          \* data.size()
    link, clock, losses,
    sender,        \* "run", "done", or "timeout": exit status 3
    receiver,      \* "run", "linger", "done" or "timeout"
    body,          \* the bytes received
    linger_until

fileVars == <<size, link, clock, losses, sender, receiver, body, linger_until>>

(* Message 0 is the header; the others are the bytes of one chunk. *)
Total == 1 + (size + Chunk - 1) \div Chunk

Bytes(k) == [i \in 1 .. Earlier(Chunk, size - (k - 1) * Chunk) |-> (k - 1) * Chunk + i]

Init == /\ size \in Sizes
        /\ link = NewLink /\ clock = 0 /\ losses = MaxLosses
        /\ sender = "run" /\ receiver = "run" /\ body = <<>> /\ linger_until = 0

-----------------------------------------------------------------------------
(* send_file.                                                              *)

(* Fault: what is still in the ring does not count. *)
AllSent_unacked(l) == l.accepted = Total

(* header_sent && off == data.size() && in_flight() == 0 *)
AllSent(l) == l.accepted = Total /\ in_flight(l) = 0

(* feed(), poll() and tick(), and the two ways out of the loop. *)
SenderLoop ==
    /\ sender = "run"
    /\ \E fed \in {SendAll(link, Total, clock)} : \E polled \in {PollAcks(fed, clock)} :
         link' = Tick(polled, clock)
    /\ sender' = IF AllSent(link') THEN "done"
                 ELSE IF clock > Timeout THEN "timeout" ELSE "run"
    /\ UNCHANGED <<size, clock, losses, receiver, body, linger_until>>

-----------------------------------------------------------------------------
(* recv_file.                                                              *)

complete(got, bytes) == got > 0 /\ Len(bytes) >= size

(* The messages that become deliverable reach the handler in turn: the     *)
(* header sets the length, the others are appended.                        *)
Appended(from, to) ==
    LET bytes[k \in from .. to] ==
            IF k = from THEN body ELSE IF k = 1 THEN bytes[k - 1] ELSE bytes[k - 1] \o Bytes(k - 1)
    IN  bytes[to]

(* Fault: the process ends as soon as it has the file. *)
LingerUntil_now == clock

LingerUntil == clock + Linger

(* One datagram of a poll(), and the checks of the loop around it. *)
ReceiverLoop ==
    /\ receiver = "linger" => clock < linger_until
    /\ receiver \in {"run", "linger"}
    /\ \E k \in link.data :
         /\ link' = TakeData(link, k)
         /\ body' = Appended(Delivered(link), Delivered(link'))
    /\ IF receiver = "run" /\ complete(Delivered(link'), body')
       THEN receiver' = "linger" /\ linger_until' = LingerUntil
       ELSE UNCHANGED <<receiver, linger_until>>
    /\ UNCHANGED <<size, clock, losses, sender>>

resize(bytes, n) == [i \in 1 .. n |-> IF i <= Len(bytes) THEN bytes[i] ELSE 0]

(* body.resize(expected), and the file is written. *)
Write == /\ receiver = "linger" /\ clock >= linger_until
         /\ receiver' = "done"
         /\ body' = resize(body, size)
         /\ UNCHANGED <<size, link, clock, losses, sender, linger_until>>

GiveUp == /\ receiver = "run" /\ clock > Timeout
          /\ receiver' = "timeout"
          /\ UNCHANGED <<size, link, clock, losses, sender, body, linger_until>>

-----------------------------------------------------------------------------
Lose == /\ losses > 0
        /\ losses' = losses - 1
        /\ link' \in Lossy(link)
        /\ UNCHANGED <<size, clock, sender, receiver, body, linger_until>>

(* Nobody reads the socket of a process that has ended. *)
Vanish == /\ \/ receiver \in {"done", "timeout"} /\ link.data # {} /\ link' = [link EXCEPT !.data = {}]
             \/ sender # "run" /\ link.acks # {} /\ link' = [link EXCEPT !.acks = {}]
          /\ UNCHANGED <<size, clock, losses, sender, receiver, body, linger_until>>

(* Both processes wait: the clock moves to the next moment something is due. *)
Wait ==
    /\ ~ InTransit(link)
    /\ sender = "run" => Idle(link, Total, clock)
    /\ "run" \in {sender, receiver} => clock <= Timeout
    /\ receiver = "linger" => clock < linger_until
    /\ LET moments == (IF sender = "run" THEN TimerDues(link) \cup {Timeout + 1} ELSE {})
                      \cup CASE receiver = "run" -> {Timeout + 1}
                             [] receiver = "linger" -> {linger_until}
                             [] OTHER -> {}
       IN  {m \in moments : m > clock} # {} /\ clock' = Min({m \in moments : m > clock})
    /\ UNCHANGED <<size, link, losses, sender, receiver, body, linger_until>>

Step == SenderLoop \/ ReceiverLoop \/ Write \/ GiveUp \/ Vanish \/ Wait

Next == Step \/ Lose

Spec == Init /\ [][Next]_fileVars /\ WF_fileVars(Step)

-----------------------------------------------------------------------------
(* Properties.                                                             *)

(* "every message is acknowledged (in_flight() == 0), which - with         *)
(* cumulative acks - means the receiver has delivered the whole file in    *)
(* order": when either program ends well, recv_file has the file, all of   *)
(* it, in order, nothing twice and nothing beyond its end, although        *)
(* in_flight() does not count what waits behind the window.                *)
DoneMeansDelivered == "done" \in {sender, receiver} => body = [i \in 1 .. size |-> i]

(* "so that a dropped final ack ... is re-acked": the time recv_file       *)
(* lingers makes up for Tolerated lost datagrams, whichever they are.  Both*)
(* programs then end well, although retransmissions come ever more rarely. *)
TransferCompletes ==
    <>(\/ sender = "done" /\ receiver = "done"
       \/ MaxLosses - losses > Tolerated)

=============================================================================
