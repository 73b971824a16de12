----------------------------- MODULE MCLibrary ------------------------------
(***************************************************************************)
(* The parts of the library below the session on small instances: one of   *)
(* them, the subject, moves while the others rest in an initial state.     *)
(***************************************************************************)
EXTENDS Congestion, Sequences

CONSTANT Subjects

VARIABLES
    subject,
    heap, cancelled, next_id, result,
    n_jitter, n_now, n_seqctr, n_box, n_posted, n_lost, n_log,
    packet, datagram, intact,
    o_live, o_order, o_index, o_target, o_waited

Heap == INSTANCE TimerHeap WITH Time <- 1 .. 3, MaxTimers <- 5

Net == INSTANCE SimNet WITH
    Width <- 3, Delay <- 1, Jitters <- {0, 3}, MaxSent <- 2, MaxNow <- 4,
    jitter <- n_jitter, now <- n_now, seqctr <- n_seqctr, box <- n_box, posted <- n_posted,
    lost <- n_lost, log <- n_log

(* Bytes are sets of bits.  Packets with and without SACK and payload, one *)
(* with a flag that has no meaning, and one whose payload has the length of*)
(* the SACK field. *)
Base == [type |-> {0}, flags |-> {}, cls |-> {1}, seq |-> {0, 9, 31}, cum_ack |-> {8, 30},
         adv_window |-> {6}, sack |-> {0, 13, 63}, payload |-> <<>>]

SamplePackets ==
    {Base, [Base EXCEPT !.flags = {0}], [Base EXCEPT !.flags = {1}],
     [Base EXCEPT !.payload = <<{}, 0 .. 7, {4}>>],
     [Base EXCEPT !.payload = [i \in 1 .. 8 |-> {}]],
     [Base EXCEPT !.flags = {0}, !.type = {1}, !.payload = <<{0}>>]}

Wire == INSTANCE Codec WITH Packets <- SamplePackets, Bursts <- {1, 2, 5, 32}

Order == INSTANCE ProbeOrder WITH
    Member <- 1 .. 4, live <- o_live, probe_order <- o_order, probe_index <- o_index,
    target <- o_target, waited <- o_waited

FastAndSlow == {0, 2}

hVars == <<heap, cancelled, next_id, result>>
nVars == <<n_jitter, n_now, n_seqctr, n_box, n_posted, n_lost, n_log>>
wVars == <<packet, datagram, intact>>
oVars == <<o_live, o_order, o_index, o_target, o_waited>>
libraryVars == <<subject, vars, hVars, nVars, wVars, oVars>>

LibraryInit ==
    /\ subject \in Subjects
    /\ Init /\ (subject # "congestion" => cc.maximum = 1)
    /\ Heap!Init
    /\ Net!Init /\ (subject # "simnet" => n_jitter = 0)
    /\ IF subject = "codec" THEN Wire!Init ELSE packet = Base /\ datagram = <<>> /\ intact = TRUE
    /\ Order!Init /\ (subject # "order" => o_live = {})

RestBut(s) == /\ s # "congestion" => UNCHANGED vars
              /\ s # "timers" => UNCHANGED hVars
              /\ s # "simnet" => UNCHANGED nVars
              /\ s # "codec" => UNCHANGED wVars
              /\ s # "order" => UNCHANGED oVars
              /\ UNCHANGED subject

LibraryNext ==
    \/ subject = "congestion" /\ Next /\ RestBut("congestion")
    \/ subject = "timers" /\ Heap!Next /\ RestBut("timers")
    \/ subject = "simnet" /\ Net!Next /\ RestBut("simnet")
    \/ subject = "codec" /\ Wire!Next /\ RestBut("codec")
    \/ subject = "order" /\ Order!Next /\ RestBut("order")

LibrarySpec == LibraryInit /\ [][LibraryNext]_libraryVars

-----------------------------------------------------------------------------
(* The properties of the subjects, which their modules explain; those of   *)
(* Congestion are there under their own names.                             *)

(* TimerHeap: schedule, cancel, pop_due and next_deadline do what they     *)
(* would on a plain set of timers.                                         *)
ImplementsTimerSet == Heap!ImplementsTimerSet

(* TimerHeap: an entry that leaves the heap leaves cancelled_ too. *)
EntriesReleased == Heap!EntriesReleased

(* SimNet: receive returns what was enqueued, in order without jitter. *)
InboxHonest == Net!InboxHonest

(* codec: decode returns what encode was given, and rejects damage. *)
NeverMisparsed == subject = "codec" => Wire!NeverMisparsed

(* crc32c: the table computes the remainder of the polynomial division. *)
CrcIsRemainder == subject = "codec" => Wire!CrcIsRemainder

(* Swim::pick_target: every member's turn comes within two walks. *)
TurnComes == Order!TurnComes

=============================================================================
