---------------------------- MODULE SessionLive ----------------------------
(***************************************************************************)
(* Session over a network that delivers each datagram once or loses it,    *)
(* and the promises that need time: a message that was accepted reaches    *)
(* the peer's application.  faults bounds what goes wrong: lost datagrams, *)
(* timers that fire although something is still on its way, and            *)
(* applications that stop receiving.                                       *)
(***************************************************************************)
EXTENDS Session

CONSTANT MaxFaults
ASSUME FaultAssumption == MaxFaults \in Nat

VARIABLE faults

allVars == <<vars, faults>>

Fault == faults > 0 /\ faults' = faults - 1

Deliver(n) == \E p \in net : Receive(n, p, net \ {p}) /\ UNCHANGED faults

Lose == /\ Fault
        /\ \E p \in net : net' = net \ {p}
        /\ UNCHANGED <<tx, rx, polling, accepted>>

EndPoll(n) == n \in polling /\ PollEnd(n) /\ UNCHANGED faults

Timeout(n) == \E due \in SUBSET tx[n].armed, probe \in BOOLEAN :
                  (due # {} \/ probe) /\ Tick(n, due, probe)

EarlyTimeout(n) == Fault /\ Timeout(n)

(* Nothing is on its way and the peer's application listens: the only      *)
(* event left is the expiry of a timer.                                    *)
DueTimeout(n) == /\ net = {} /\ polling = {} /\ rx[Peer(n)].app_ready
                 /\ Timeout(n)
                 /\ UNCHANGED faults

Stop(n) == Fault /\ rx[n].app_ready /\ SetReceiving(n, FALSE)

Resume(n) == ~ rx[n].app_ready /\ SetReceiving(n, TRUE) /\ UNCHANGED faults

LiveInit == Init /\ faults = MaxFaults

LiveNext ==
    \/ Lose
    \/ \E n \in Node :
         \/ \E cls \in ReliableClasses : Send(n, cls) /\ UNCHANGED faults
         \/ Deliver(n) \/ EndPoll(n) \/ EarlyTimeout(n) \/ DueTimeout(n)
         \/ Stop(n) \/ Resume(n)

Progress == \E n \in Node : Deliver(n) \/ EndPoll(n) \/ DueTimeout(n) \/ Resume(n)

(* The event loop keeps polling and ticking the sessions, the network      *)
(* moves, and a stopped application resumes: one of them is enough, since  *)
(* faults is finite.  Nothing obliges an application to send.              *)
LiveSpec == LiveInit /\ [][LiveNext]_allVars /\ WF_allVars(Progress)

(* Every reliable message that send() accepted is handed to the peer's     *)
(* application, despite losses, early timeouts and a window that was shut  *)
(* and whose reopening ACK may be lost (the persist probe recovers it).    *)
EveryMessageDelivered ==
    []<>(\A n \in Node : Elements(accepted[n]) \subseteq Elements(rx[Peer(n)].delivered))

(* The sender learns of it: its queue and its ring empty out.              *)
SenderDrains == []<>(\A n \in Node : tx[n].ring = {} /\ tx[n].pending = <<>>)

=============================================================================
