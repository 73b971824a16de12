----------------------------- MODULE TcpStream ------------------------------
(***************************************************************************)
(* The open-loop half of bench/tcp_baseline: frames of a length and a body *)
(* over one TCP connection.  TCP hands the bytes over in order, in pieces  *)
(* of any size and with pauses; every read() of run_receiver gives up      *)
(* after SO_RCVTIMEO, 200 ms.                                              *)
(***************************************************************************)
EXTENDS Integers, FiniteSetsExt

CONSTANTS
    Hdr,        \* the length's bytes (4 in the code)
    Body,       \* msg_size
    Offered,    \* bound: messages of the schedule
    MaxPauses   \* bound: pauses longer than SO_RCVTIMEO, shorter than idle_ms

Frame == Hdr + Body

VARIABLES
    sender,     \* "run", "end" (END is written), "closed" or "died"
    sent,       \* messages written
    written,    \* bytes
    arrived,    \* of these, in the receiver's socket buffer or read
    pos,        \* read
    part, got, need, \* what read_full is at: "len" or "body", bytes it has and wants
    received,   \* messages counted
    receiver,   \* "run", "end" (saw END), "broken" (left the loop) or "idle"
    pauses, midframe  \* one of the pauses fell into a frame

tcpVars == <<sender, sent, written, arrived, pos, part, got, need, received, receiver, pauses, midframe>>

Init == /\ sender = "run" /\ sent = 0 /\ written = 0 /\ arrived = 0 /\ pos = 0
        /\ part = "len" /\ got = 0 /\ need = Hdr
        /\ received = 0 /\ receiver = "run" /\ pauses = MaxPauses /\ midframe = FALSE

-----------------------------------------------------------------------------
(* run_sender: the messages of the schedule, as many as the duration or    *)
(* the wall cap lets through, then END, each by a write_full; that fails   *)
(* when the receiver is gone.  The process may be killed before END.       *)
Write == /\ sender = "run" /\ sent < Offered
         /\ IF receiver = "run"
            THEN written' = written + Frame /\ sent' = sent + 1 /\ UNCHANGED sender
            ELSE sender' = "end" /\ UNCHANGED <<written, sent>>
         /\ UNCHANGED <<arrived, pos, part, got, need, received, receiver, pauses, midframe>>

WriteEnd == /\ sender = "run"
            /\ sender' = "end"
            /\ written' = IF receiver = "run" THEN written + Frame ELSE written
            /\ UNCHANGED <<sent, arrived, pos, part, got, need, received, receiver, pauses, midframe>>

Close == /\ \/ sender = "end" /\ sender' = "closed"
            \/ sender = "run" /\ sender' = "died"
         /\ UNCHANGED <<sent, written, arrived, pos, part, got, need, received, receiver, pauses, midframe>>

(* TCP brings some more. *)
Arrive == /\ \E n \in 1 .. written - arrived : arrived' = arrived + n
          /\ UNCHANGED <<sender, sent, written, pos, part, got, need, received, receiver, pauses, midframe>>

-----------------------------------------------------------------------------
(* run_receiver.                                                           *)

Next_len == part' = "len" /\ got' = 0 /\ need' = Hdr

(* The length at the reader's position, or, out of phase, any number. *)
Lengths(p) == IF p % Frame = Hdr THEN {Body} ELSE 0 .. Body + 1

(* The message whose body ends here: END, one of the schedule, or neither. *)
IsEnd(p) == need = Body /\ sender # "run" /\ p = (sent + 1) * Frame


(* read_full goes on until it has all. *)
Filled(n) == got + n = need

(* A read() returns n bytes; the rest is what follows a read_full. *)
Read ==
    /\ receiver = "run"
    /\ \E n \in 1 .. Min({arrived - pos, need - got}) :
         /\ pos' = pos + n
         /\ \/ ~ Filled(n) /\ got' = got + n /\ UNCHANGED <<part, need, received, receiver>>
            \/ /\ Filled(n) /\ part = "len"
               /\ \E len \in Lengths(pos') :
                    IF len = 0 \/ len > Body
                    THEN receiver' = "broken" /\ UNCHANGED <<part, got, need, received>>
                    ELSE part' = "body" /\ got' = 0 /\ need' = len /\ UNCHANGED <<received, receiver>>
            \/ /\ Filled(n) /\ part = "body" /\ Next_len
               /\ IF IsEnd(pos') THEN receiver' = "end" /\ UNCHANGED received
                                 ELSE received' = received + 1 /\ UNCHANGED receiver
    /\ UNCHANGED <<sender, sent, written, arrived, pauses, midframe>>

(* SO_RCVTIMEO expires.  What read_full had is forgotten: with a length    *)
(* the loop goes on, with a body it is left.                               *)
Expire ==
    /\ receiver = "run" /\ pos = arrived
    /\ pauses > 0 /\ pauses' = pauses - 1
    /\ midframe' = (midframe \/ part = "body" \/ got > 0)
    /\ IF part = "len" THEN Next_len /\ UNCHANGED receiver
                       ELSE receiver' = "broken" /\ UNCHANGED <<part, got, need>>
    /\ UNCHANGED <<sender, sent, written, arrived, pos, received>>

(* What ends the wait for a length: idle_ms since the last message, if     *)
(* there was one, and the hard cap.                                        *)
Limits == {"idle_ms", "hard_cap"}

(* There is nothing left to come: reads fail at once.  That ends a body,   *)
(* and a length when the limit is reached.                                 *)
GiveUp ==
    /\ receiver = "run" /\ pos = arrived /\ arrived = written /\ sender \in {"closed", "died"}
    /\ receiver' = IF part = "body" THEN "broken" ELSE "idle"
    /\ part = "len" => \E limit \in Limits : limit = "idle_ms" => received > 0
    /\ UNCHANGED <<sender, sent, written, arrived, pos, part, got, need, received, pauses, midframe>>

Step == Write \/ WriteEnd \/ Close \/ Arrive \/ Read \/ GiveUp

Next == Step \/ Expire

Spec == Init /\ [][Next]_tcpVars /\ WF_tcpVars(Step)

-----------------------------------------------------------------------------
(* Properties.                                                             *)


=============================================================================
