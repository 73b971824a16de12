--------------------------- MODULE LatencyStream ----------------------------
(***************************************************************************)
(* The open-loop half of bench/latency_bench: run_sender offers messages   *)
(* at the instants of a schedule fixed beforehand, drains its ring, sends  *)
(* an END message, drains again and ends; run_receiver counts what comes   *)
(* and ends some time after END, or when nothing has come for long.        *)
(***************************************************************************)
EXTENDS Pipe, Sequences, FiniteSets

CONSTANTS
    Classes,     \* of the messages: 1, reliable, or 2, reliable and ordered
    Schedule,    \* the offsets of PoissonSchedule within the duration
    WallCap,     \* duration + 15 s
    AfterEnd,    \* how long the receiver stays when it has END
    IdleTime,    \* idle_ms
    HardCap,     \* duration + 60 s
    Extra,       \* how long the sender stays when END is acknowledged
    MaxLosses,   \* bound: datagrams lost
    Tolerated    \* losses that AfterEnd makes up for

VARIABLES
    cls,
    link, clock, losses,
    sender,         \* where run_sender is
    extra,          \* end of its last loop
    receiver,       \* "run" or "done"
    last_activity   \* when a message was last delivered to run_receiver

streamVars == <<cls, link, clock, losses, sender, extra, receiver, last_activity>>

Init == /\ cls \in Classes
        /\ link = NewLink /\ clock = 0 /\ losses = MaxLosses
        /\ sender = "next" /\ extra = 0
        /\ receiver = "run" /\ last_activity = 0

(* The messages of the schedule that send() took; END is message number    *)
(* sent of the session.                                                    *)
sent == IF sender \in {"drain_end", "extra", "done"} THEN link.accepted - 1 ELSE link.accepted

(* What the handler has seen: class 1 is delivered as it arrives. *)
Seen(l) == IF cls = 1 THEN l.arrived ELSE 0 .. Delivered(l) - 1

received == Cardinality(Seen(link) \ {sent})
got_end  == sender \in {"drain_end", "extra", "done"} /\ sent \in Seen(link)

-----------------------------------------------------------------------------
(* run_sender.                                                             *)

pump == /\ sender # "done"
        /\ \E polled \in {PollAcks(link, clock)} : link' = Tick(polled, clock)
        /\ link' # link
        /\ UNCHANGED <<cls, clock, losses, sender, extra, receiver, last_activity>>

(* The head of the loop: the schedule or the wall clock ends the offering. *)
NextOffer == /\ sender = "next"
             /\ sender' = IF link.accepted = Len(Schedule) \/ clock > WallCap THEN "drain" ELSE "wait"
             /\ UNCHANGED <<cls, link, clock, losses, extra, receiver, last_activity>>

(* The intended instant has come and send() takes the message. *)
Offer == /\ sender = "wait" /\ clock >= Schedule[link.accepted + 1]
         /\ Accepts(link)
         /\ link' = Send(link, clock) /\ sender' = "next"
         /\ UNCHANGED <<cls, clock, losses, extra, receiver, last_activity>>

(* Fault: END follows the last message at once. *)
Drained_first == sender = "drain" \/ in_flight(link) = 0

Drained == in_flight(link) = 0

(* drain_ring() returns, before END and after it. *)
drain_ring == /\ sender \in {"drain", "drain_end"} /\ Drained
              /\ IF sender = "drain" THEN sender' = "end" /\ UNCHANGED extra
                                     ELSE sender' = "extra" /\ extra' = clock + Extra
              /\ UNCHANGED <<cls, link, clock, losses, receiver, last_activity>>

SendEnd == /\ sender = "end" /\ Accepts(link)
           /\ link' = Send(link, clock) /\ sender' = "drain_end"
           /\ UNCHANGED <<cls, clock, losses, extra, receiver, last_activity>>

Return == /\ sender = "extra" /\ clock >= extra
          /\ sender' = "done"
          /\ UNCHANGED <<cls, link, clock, losses, extra, receiver, last_activity>>

-----------------------------------------------------------------------------
(* run_receiver.                                                           *)

(* One datagram of a poll().  A duplicate is acknowledged again, but it is *)
(* not activity.                                                           *)
Receive == /\ receiver = "run"
           /\ \E k \in link.data : link' = TakeData(link, k)
           /\ last_activity' = IF Seen(link') # Seen(link) THEN clock ELSE last_activity
           /\ UNCHANGED <<cls, clock, losses, sender, extra, receiver>>

(* Fault: END is the end. *)
ExitTimes_end == IF got_end THEN {clock} ELSE {last_activity + IdleTime + 1, HardCap + 1}

(* The moments from which on the loop is left. *)
ExitTimes == (IF got_end THEN {last_activity + AfterEnd + 1} ELSE {})
             \cup (IF received > 0 THEN {last_activity + IdleTime + 1} ELSE {})
             \cup {HardCap + 1}

Exit == /\ receiver = "run"
        /\ \E t \in ExitTimes : clock >= t
        /\ receiver' = "done"
        /\ UNCHANGED <<cls, link, clock, losses, sender, extra, last_activity>>

-----------------------------------------------------------------------------
Lose == /\ losses > 0
        /\ losses' = losses - 1
        /\ link' \in Lossy(link)
        /\ UNCHANGED <<cls, clock, sender, extra, receiver, last_activity>>

(* Nobody reads the socket of a process that has ended. *)
Vanish == /\ receiver = "done" /\ link.data # {}
          /\ link' = [link EXCEPT !.data = {}]
          /\ UNCHANGED <<cls, clock, losses, sender, extra, receiver, last_activity>>

(* Both processes wait. *)
Wait ==
    /\ ~ InTransit(link) /\ sender \notin {"next", "end"}
    /\ sender # "done" => \A t \in TimerDues(link) : t > clock
    /\ sender = "wait" => clock < Schedule[link.accepted + 1] \/ ~ Accepts(link)
    /\ sender \in {"drain", "drain_end"} => in_flight(link) > 0
    /\ sender = "extra" => clock < extra
    /\ receiver = "run" => \A t \in ExitTimes : clock < t
    /\ LET moments == (IF receiver = "run" THEN ExitTimes ELSE {})
                      \cup (IF sender = "done" THEN {} ELSE TimerDues(link))
                      \cup (IF sender = "wait" THEN {Schedule[link.accepted + 1]} ELSE {})
                      \cup (IF sender = "extra" THEN {extra} ELSE {})
           later   == {t \in moments : t > clock}
       IN  later # {} /\ clock < HardCap + 1 /\ clock' = Min(later)
    /\ UNCHANGED <<cls, link, losses, sender, extra, receiver, last_activity>>

SenderStep   == pump \/ NextOffer \/ Offer \/ drain_ring \/ SendEnd \/ Return
ReceiverStep == Receive \/ Exit

Step == SenderStep \/ ReceiverStep \/ Vanish \/ Wait

Next == Step \/ Lose

Spec == Init /\ [][Next]_streamVars /\ WF_streamVars(Step)

-----------------------------------------------------------------------------
(* Properties.                                                             *)

(* When run_receiver has END it has every message that was offered, for    *)
(* both reliable classes: class 1 may overtake, and only the drain before  *)
(* END keeps END last.  A received count below the offered one is then the *)
(* unoffered tail and nothing else.                                        *)
EndIsLast == got_end => received = sent

(* With at most Tolerated losses run_sender returns: the receiver stays    *)
(* long enough after END to repeat its acknowledgement.                    *)
SenderReturns == <>(sender = "done" \/ MaxLosses - losses > Tolerated)

=============================================================================
