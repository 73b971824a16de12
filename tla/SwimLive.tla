------------------------------ MODULE SwimLive ------------------------------
(***************************************************************************)
(* Swim over a network that delivers each datagram once or loses it, and   *)
(* what it promises in the long run: crashes are found out, verdicts on    *)
(* live members are taken back, join exchanges end.  faults bounds the     *)
(* disturbances: lost datagrams, deadlines that pass while something is    *)
(* still on its way, crashes, and partitions as demo/mesh_node makes them. *)
(* A crashed process may be restarted, and joins.                          *)
(***************************************************************************)
EXTENDS Swim

CONSTANTS
    FaultKinds,  \* the kinds of disturbance that occur
    MaxFaults    \* bound: disturbances

ASSUME FaultAssumption == /\ FaultKinds \subseteq {"lose", "early", "crash", "cut"}
                          /\ MaxFaults \in Nat

VARIABLES
    faults,  \* disturbances still to come
    cut,     \* the nodes on the far side of a partition
    due      \* the processes whose next deadline comes before those of the others

allVars == <<vars, faults, cut, due>>

Fault(kind) == kind \in FaultKinds /\ faults > 0 /\ faults' = faults - 1

Believes(n, s, state) == s \in InState(swim[n], state)

(* mesh_node: the LinkFilters of both ends swallow a datagram. *)
Blocked(p) == (p.from \in cut) # (p.to \in cut)

Deliver(n) == /\ \E p \in net : ~ Blocked(p) /\ Receive(n, p, net \ {p})
              /\ UNCHANGED <<faults, cut, due>>

(* Nobody reads the socket of a process that has crashed. *)
Vanish == /\ \E p \in net : (p.to \notin up \/ Blocked(p)) /\ net' = net \ {p}
          /\ UNCHANGED <<swim, up, minted, ponged, faults, cut, due>>

LoseOne == Fault("lose") /\ Lose /\ UNCHANGED <<cut, due>>

all_alive == \A n, s \in up : n # s => Believes(n, s, Alive)

victim == CHOOSE n \in Node : \A m \in Node : m <= n

(* mesh_node cuts its last node off from the others, on a network that     *)
(* disturbs nothing else.                                                  *)
Cut == /\ "cut" \in FaultKinds /\ faults = MaxFaults /\ faults' = 0
       /\ cut = {} /\ up = Node /\ all_alive
       /\ cut' = {victim}
       /\ UNCHANGED <<vars, due>>

anyone_sees_victim(state) == \E n \in up : Believes(n, victim, state)

(* The partition heals when the node is suspected; at the latest after 200 *)
(* turns of the loop, which may be at any moment here.                     *)
Heal == /\ cut # {} /\ \A p \in net : ~ Blocked(p)
        /\ cut' = {}
        /\ UNCHANGED <<vars, faults, due>>

(* Nothing is on its way: the next event is a deadline.  The direct ping's *)
(* comes before the period's, and with one period for all processes no     *)
(* deadline of one comes twice before that of another.                     *)
Waiting(n) == swim[n].probing /\ ~ swim[n].indirect_sent /\ ~ swim[n].probe_acked

DueTick(n, expired) == /\ net = {} /\ (cut # {} => ~ anyone_sees_victim(Suspect))
                       /\ n \in due
                       /\ Tick(n, expired, {}, TRUE, ~ Waiting(n))
                       /\ due' = IF due \cap up = {n} THEN Node ELSE due \ {n}
                       /\ UNCHANGED <<faults, cut>>

DuePeriod(n) == \E expired \in SUBSET InState(swim[n], Suspect) : DueTick(n, expired)

DueExpiry(n, s) == s \in InState(swim[n], Suspect) /\ DueTick(n, {s})

(* A period in which n probes s. *)
DueProbe(n, s) == /\ DuePeriod(n)
                  /\ ~ Waiting(n)
                  /\ swim'[n].probing
                  /\ swim'[n].probe_target = s

EarlyTick(n) ==
    /\ Fault("early") /\ net # {}
    /\ \E expired \in SUBSET InState(swim[n], Suspect), ping_due, period_due \in BOOLEAN :
         Tick(n, expired, {}, ping_due, period_due)
    /\ UNCHANGED <<cut, due>>

(* A restarted process joins until it knows someone. *)
Rejoin(n, introducer) == /\ swim[n].members = [s \in {} |-> At(Alive, 0)]
                         /\ net = {}
                         /\ introducer \in up
                         /\ Join(n, introducer)
                         /\ UNCHANGED <<faults, cut, due>>

LiveInit == Init /\ faults = MaxFaults /\ cut = {} /\ due = Node

LiveNext ==
    \/ LoseOne \/ Vanish \/ Cut \/ Heal
    \/ \E n \in Node :
         \/ Deliver(n) \/ DuePeriod(n) \/ EarlyTick(n)
         \/ Fault("crash") /\ cut = {} /\ Crash(n) /\ due' = Node /\ UNCHANGED cut
         \/ \E peer \in Node : Rejoin(n, peer)
         \/ Restart(n) /\ UNCHANGED <<faults, cut, due>>

(* The network moves and every process keeps ticking: what is on its way   *)
(* arrives, and then a deadline passes.  A suspicion runs out, and the     *)
(* round robin of pick_target comes to every member that is not Dead,      *)
(* although other deadlines pass in between.  A partition heals.           *)
LiveSpec ==
    /\ LiveInit /\ [][LiveNext]_allVars
    /\ SF_allVars(Heal)
    /\ WF_allVars(Vanish \/ \E n \in Node : Deliver(n) \/ DuePeriod(n))
    /\ \A n \in Node :
         /\ SF_allVars(\E peer \in Node : Rejoin(n, peer))
         /\ \A s \in Node \ {n} : SF_allVars(DueExpiry(n, s)) /\ SF_allVars(DueProbe(n, s))

(* After the disturbances every process believes every other one Alive:    *)
(* suspicions and verdicts on live members are taken back.                 *)
Reconverges == <>[]all_alive

(* A process that has crashed for good ends up Dead in every table.        *)
CrashDetected == <>[](\A n \in up : \A s \in Node \ up : Believes(n, s, Dead))

(* A join exchange ends: JOIN packets do not answer each other for ever.   *)
JoinTerminates == []<>(\A p \in net : p.type # "Join")

=============================================================================
