-------------------------------- MODULE Swim --------------------------------
(***************************************************************************)
(* taut::Swim at every node of a cluster, over a datagram network: the     *)
(* membership table, its rumors, the failure detector and JOIN.            *)
(*                                                                         *)
(* swim[n] holds the fields of include/taut/swim.h under their names.      *)
(* members and rumors are the maps, as functions on the subjects present.  *)
(* Receive is one datagram of poll(), Tick is tick(), and Restart replaces *)
(* the object by a fresh one under the same endpoint.                      *)
(*                                                                         *)
(* Time is abstract: a deadline may pass at any later tick().  pick_target *)
(* may return any member that is not Dead (ProbeOrder models its order).   *)
(***************************************************************************)
EXTENDS Integers, Sequences, FiniteSets

CONSTANTS
    Node,           \* the endpoints, as numbers: key() orders them
    Seeds,          \* the members each node is given before it first runs
    Budget,         \* gossip_budget() for each cluster size
    MaxGossip,      \* kMaxGossipEntries: 16 in the code
    MaxFit,         \* kMaxFitEntries: 106 in the code
    K,              \* SwimConfig::k, the indirect-probe fan-out
    ProbeIds,       \* number of probe ids: 2^32 in the code
    Ticking,        \* the nodes whose application calls tick()
    Joiners,        \* the nodes whose application calls join()
    Mortal,         \* the nodes that may crash
    Returning,      \* the nodes that are restarted after a crash
    MaxNet,         \* bound: datagrams in the network
    MaxProbeId,     \* bound: the probe id after which a process starts no probe
    MaxIncarnation  \* bound: the incarnation at which no member is suspected

ASSUME NodeAssumption == Node \subseteq Nat \ {0} /\ IsFiniteSet(Node)
ASSUME SeedAssumption == Seeds \in [Node -> SUBSET Node]
ASSUME RoleAssumption == UNION {Ticking, Joiners, Mortal, Returning} \subseteq Node
ASSUME BudgetAssumption == Budget \in [1 .. Cardinality(Node) -> Nat \ {0}]
ASSUME LimitAssumption == /\ MaxGossip \in Nat \ {0} /\ MaxFit \in Nat \ {0}
                          /\ K \in Nat /\ ProbeIds \in Nat \ {0}
                          /\ MaxNet \in Nat /\ MaxProbeId \in Nat /\ MaxIncarnation \in Nat

VARIABLES
    swim,    \* the Swim object of each node
    up,      \* the nodes that run
    minted,  \* history: the highest incarnation each node ever announced
    ponged,  \* history: the nodes that have answered a Ping
    net      \* the datagrams the network may still deliver

vars == <<swim, up, minted, ponged, net>>

Alive == 0
Suspect == 1
Dead == 2

(* A belief about a member: its state at an incarnation. *)
Belief == [state : Alive .. Dead, incarnation : Nat]

At(state, inc) == [state |-> state, incarnation |-> inc]

Put(f, x, v) == [y \in DOMAIN f \cup {x} |-> IF y = x THEN v ELSE f[y]]

Without(f, S) == [x \in DOMAIN f \ S |-> f[x]]

(* Endpoint{}, which is_none recognises. *)
None == 0

OrNone(S) == IF S = {} THEN {None} ELSE S

MinOf(a, b) == IF a <= b THEN a ELSE b

-----------------------------------------------------------------------------
(* Merging beliefs.                                                        *)

(* Fault: at one incarnation the later news wins, whatever it says. *)
overrides_latest(cur, in) ==
    IF in.incarnation # cur.incarnation THEN in.incarnation > cur.incarnation
                                        ELSE in.state # cur.state

overrides(cur, in) ==
    IF in.incarnation # cur.incarnation THEN in.incarnation > cur.incarnation
                                        ELSE in.state > cur.state

NewRumor(belief) ==
    [state |-> belief.state, incarnation |-> belief.incarnation, tx_count |-> 0]

queue_rumor(w, subject, belief) ==
    [w EXCEPT !.rumors = Put(@, subject, NewRumor(belief))]

(* Fault: only an accusation at a higher incarnation is refuted. *)
Accused_strict(n, w, heard) == /\ n \in DOMAIN heard
                               /\ heard[n].state # Alive
                               /\ heard[n].incarnation > w.my_incarnation

(* n hears that it is Suspect or Dead at an incarnation it has not left behind. *)
Accused(n, w, heard) == /\ n \in DOMAIN heard
                        /\ heard[n].state # Alive
                        /\ heard[n].incarnation >= w.my_incarnation

(* apply_rumor at n for every subject of heard, which maps each subject to *)
(* one belief: no two of these calls touch the same entry.  The subject n  *)
(* itself is refuted.                                                      *)
apply_rumor(n, w, heard) ==
    LET adopted == {s \in DOMAIN heard \ {n} :
                      s \in DOMAIN w.members => overrides(w.members[s], heard[s])}
        refuted == IF Accused(n, w, heard) THEN {n} ELSE {}
        inc == IF Accused(n, w, heard) THEN heard[n].incarnation + 1 ELSE w.my_incarnation
    IN  [w EXCEPT
           !.my_incarnation = inc,
           !.members = [s \in DOMAIN @ \cup adopted |->
                          IF s \in adopted THEN heard[s] ELSE w.members[s]],
           !.rumors = [s \in DOMAIN @ \cup adopted \cup refuted |->
                          IF s \in adopted THEN NewRumor(heard[s])
                          ELSE IF s \in refuted THEN NewRumor(At(Alive, inc))
                          ELSE w.rumors[s]]]

-----------------------------------------------------------------------------
(* The wire path.                                                          *)

gossip_budget(w) == Budget[Cardinality(DOMAIN w.members) + 1]

(* The rumors a packet piggybacks: least transmitted first, then by key. *)
Picked(w) ==
    LET live == {s \in DOMAIN w.rumors : w.rumors[s].tx_count < gossip_budget(w)}
        Ahead(s) == {t \in live : \/ w.rumors[t].tx_count < w.rumors[s].tx_count
                                  \/ w.rumors[t].tx_count = w.rumors[s].tx_count /\ t < s}
    IN  {s \in live : Cardinality(Ahead(s)) < MaxGossip}

(* The sender after a packet: budgets charged, exhausted rumors dropped. *)
Charged(w) ==
    LET spent == {s \in Picked(w) : w.rumors[s].tx_count + 1 >= gossip_budget(w)}
    IN  [w EXCEPT !.rumors = [s \in DOMAIN @ \ spent |->
                                IF s \in Picked(w)
                                THEN [w.rumors[s] EXCEPT !.tx_count = @ + 1]
                                ELSE w.rumors[s]]]

Header(type, from, to, probe_id, subject, heard) ==
    [type |-> type, from |-> from, to |-> to, probe_id |-> probe_id,
     subject |-> subject, gossip |-> heard]

SwimPacket(n, w, type, to, probe_id, subject) ==
    Header(type, n, to, probe_id, subject,
           [s \in Picked(w) |-> At(w.rumors[s].state, w.rumors[s].incarnation)])

(* A call in progress is a record: w is the object as the call has left it *)
(* so far and sent the datagrams it has sent.                              *)
Call(w) == [w |-> w, sent |-> {}]

send_swim(n, c, type, to, probe_id, subject) ==
    [w |-> Charged(c.w),
     sent |-> c.sent \cup {SwimPacket(n, c.w, type, to, probe_id, subject)}]

(* The members a full snapshot has room for, after the sender itself. *)
Rosters(w) ==
    {S \in SUBSET DOMAIN w.members :
        Cardinality(S) = MinOf(Cardinality(DOMAIN w.members), MaxFit - 1)}

(* send_swim with a full snapshot: no rumor is charged. *)
SendSnapshot(n, c, to, roster) ==
    LET heard == [s \in roster \cup {n} |-> IF s = n THEN At(Alive, c.w.my_incarnation)
                                                     ELSE c.w.members[s]]
    IN  [c EXCEPT !.sent = @ \cup {Header("Join", n, to, c.w.my_incarnation, to, heard)}]

NextProbeId(id) == (id + 1) % ProbeIds

(* A packet from a member believed Dead puts its accusation back on the way. *)
Accuse(w, from) ==
    IF /\ from \in DOMAIN w.members
       /\ w.members[from].state = Dead
       /\ from \notin DOMAIN w.rumors
    THEN queue_rumor(w, from, w.members[from])
    ELSE w

handle_ping(n, c, p) == send_swim(n, c, "Pong", p.from, p.probe_id, n)

handle_ping_req(n, c, p) ==
    LET id == c.w.next_probe_id
        relay == [requester |-> p.from, req_probe |-> p.probe_id, target |-> p.subject]
    IN  IF p.subject = n THEN c
        ELSE send_swim(n, [c EXCEPT !.w.relays = Put(@, id, relay),
                                    !.w.next_probe_id = NextProbeId(id)],
                       "Ping", p.subject, id, p.subject)

(* Fault: a Pong completes whatever relay is outstanding. *)
handle_pong_any(n, c, p) ==
    IF DOMAIN c.w.relays # {}
    THEN LET id == CHOOSE i \in DOMAIN c.w.relays : TRUE
             relay == c.w.relays[id]
         IN  send_swim(n, [c EXCEPT !.w.relays = Without(@, {id})],
                       "Pong", relay.requester, relay.req_probe, relay.target)
    ELSE c

handle_pong(n, c, p) ==
    IF p.probe_id \in DOMAIN c.w.relays
    THEN LET relay == c.w.relays[p.probe_id]
         IN  send_swim(n, [c EXCEPT !.w.relays = Without(@, {p.probe_id})],
                       "Pong", relay.requester, relay.req_probe, relay.target)
    ELSE IF c.w.probing /\ p.subject = c.w.probe_target
    THEN [c EXCEPT !.w.probe_acked = TRUE]
    ELSE c

(* Fault, that of v0.1.0: the joiner is announced Alive whatever the table says. *)
JoinMerged_announced(n, w, p) ==
    queue_rumor(apply_rumor(n, w, [s \in {p.from} |-> At(Alive, p.probe_id)]),
                p.from, At(Alive, p.probe_id))

(* A JOIN is first-hand news of its sender.  Only a request, which names   *)
(* its sender, is answered.                                                *)
JoinMerged(n, w, p) == apply_rumor(n, w, [s \in {p.from} |-> At(Alive, p.probe_id)])

(* Fault, that of v0.1.0: replies are answered too. *)
handle_join_always(n, c, p) ==
    LET v == [c EXCEPT !.w = JoinMerged(n, @, p)]
    IN  {SendSnapshot(n, v, p.from, roster) : roster \in Rosters(v.w)}

handle_join(n, c, p) ==
    LET v == [c EXCEPT !.w = JoinMerged(n, @, p)]
    IN  IF p.subject = p.from
        THEN {SendSnapshot(n, v, p.from, roster) : roster \in Rosters(v.w)}
        ELSE {v}

-----------------------------------------------------------------------------
(* The failure detector.                                                   *)

InState(w, state) == {s \in DOMAIN w.members : w.members[s].state = state}

expire_suspects(n, w, expired) ==
    apply_rumor(n, w, [s \in expired |-> At(Dead, w.members[s].incarnation)])

(* The choices of pick_k_others: distinct Alive members other than the target. *)
Fanouts(w) ==
    LET pool == InState(w, Alive) \ {w.probe_target}
        size == MinOf(K, Cardinality(pool))
    IN  {f \in [1 .. size -> pool] : \A i, j \in 1 .. size : f[i] = f[j] => i = j}

send_indirect_probes(n, c, fanout) ==
    LET after[i \in 0 .. Len(fanout)] ==
            IF i = 0 THEN c
            ELSE send_swim(n, after[i - 1], "PingReq", fanout[i],
                           c.w.probe_id, c.w.probe_target)
    IN  [after[Len(fanout)] EXCEPT !.w.indirect_sent = TRUE]

(* The probe target, if it is to be suspected when the period ends. *)
Unanswered(w) ==
    {s \in InState(w, Alive) : ~ w.probe_acked /\ s = w.probe_target}

(* Fault: the accuser takes the next incarnation. *)
conclude_period_minting(n, w) ==
    [apply_rumor(n, w, [s \in Unanswered(w) |-> At(Suspect, w.members[s].incarnation + 1)])
        EXCEPT !.probing = FALSE]

conclude_period(n, w) ==
    [apply_rumor(n, w, [s \in Unanswered(w) |-> At(Suspect, w.members[s].incarnation)])
        EXCEPT !.probing = FALSE]

reinject_suspicions(w) ==
    [w EXCEPT !.rumors = [s \in DOMAIN @ \cup InState(w, Suspect) |->
                            IF s \in InState(w, Suspect) THEN NewRumor(w.members[s])
                                                         ELSE w.rumors[s]]]

probe_one_dead(n, c, dead) ==
    LET id == c.w.next_probe_id
        v == IF dead \in DOMAIN c.w.rumors THEN c.w
             ELSE queue_rumor(c.w, dead, c.w.members[dead])
    IN  send_swim(n, [c EXCEPT !.w = [v EXCEPT !.next_probe_id = NextProbeId(id)]],
                  "Ping", dead, id, dead)

(* Fault: the answer to the last probe is not forgotten. *)
PingTarget_acked(n, c, target) ==
    LET id == c.w.next_probe_id
    IN  send_swim(n, [c EXCEPT !.w.probing = TRUE, !.w.indirect_sent = FALSE,
                               !.w.probe_target = target,
                               !.w.probe_id = id, !.w.next_probe_id = NextProbeId(id)],
                  "Ping", target, id, target)

PingTarget(n, c, target) ==
    LET id == c.w.next_probe_id
    IN  send_swim(n, [c EXCEPT !.w.probing = TRUE, !.w.indirect_sent = FALSE,
                               !.w.probe_acked = FALSE, !.w.probe_target = target,
                               !.w.probe_id = id, !.w.next_probe_id = NextProbeId(id)],
                  "Ping", target, id, target)

(* start_period; dead and target are None when there is no such member. *)
start_period(n, c, dead, target) ==
    LET c1 == [c EXCEPT !.w = reinject_suspicions(@)]
        c2 == IF dead = None THEN c1 ELSE probe_one_dead(n, c1, dead)
    IN  IF target = None THEN c2 ELSE PingTarget(n, c2, target)

-----------------------------------------------------------------------------
(* The public calls.                                                       *)

Fresh(n, peers) ==
    [my_incarnation |-> 0, members |-> [s \in peers \ {n} |-> At(Alive, 0)],
     rumors |-> [s \in {n} |-> NewRumor(At(Alive, 0))], relays |-> [i \in {} |-> 0],
     probing |-> FALSE, indirect_sent |-> FALSE, probe_acked |-> FALSE,
     probe_target |-> None, probe_id |-> 0, next_probe_id |-> 1 % ProbeIds]

Init ==
    /\ swim = [n \in Node |-> Fresh(n, Seeds[n])]
    /\ up = Node
    /\ minted = [n \in Node |-> 0]
    /\ ponged = {}
    /\ net = {}

(* The call c of node n returns; left is what was in the network before. *)
Return(n, c, left) ==
    /\ c.w.next_probe_id <= MaxProbeId
    /\ Cardinality(left \cup c.sent) <= MaxNet
    /\ swim' = [swim EXCEPT ![n] = c.w]
    /\ minted' = [minted EXCEPT ![n] = IF c.w.my_incarnation > @ THEN c.w.my_incarnation
                                                                ELSE @]
    /\ ponged' = ponged \cup {p.subject : p \in {q \in c.sent : q.type = "Pong" /\ q.subject = n}}
    /\ net' = left \cup c.sent
    /\ UNCHANGED up

AddMember(n, peer) ==
    /\ n \in up
    /\ peer \notin DOMAIN swim[n].members \cup {n}
    /\ Return(n, Call([swim[n] EXCEPT !.members = Put(@, peer, At(Alive, 0))]), net)

Join(n, introducer) ==
    /\ n \in up \cap Joiners
    /\ introducer # n
    /\ Return(n, send_swim(n, Call(swim[n]), "Join", introducer,
                           swim[n].my_incarnation, n), net)

(* One datagram of poll(): gossip first, then the handler of its type.     *)
(* The value is the set of calls that may have been made.                  *)
poll(n, w, p) ==
    LET c == Call(apply_rumor(n, Accuse(w, p.from), p.gossip))
    IN  CASE p.type = "Ping" -> {handle_ping(n, c, p)}
          [] p.type = "PingReq" -> {handle_ping_req(n, c, p)}
          [] p.type = "Pong" -> {handle_pong(n, c, p)}
          [] p.type = "Join" -> handle_join(n, c, p)

Receive(n, p, left) == /\ n \in up
                       /\ p.to = n
                       /\ \E c \in poll(n, swim[n], p) : Return(n, c, left)

(* tick() when the suspicions of expired, the relays of stale, the direct  *)
(* ping and the period, as the flags say, are past their deadlines.        *)
tick(n, w, expired, stale, ping_due, period_due) ==
    LET w1 == expire_suspects(n, w, expired)
        c1 == Call([w1 EXCEPT !.relays = Without(@, stale)])
        indirect == w1.probing /\ ~ w1.indirect_sent /\ ~ w1.probe_acked /\ ping_due
        Probed == IF indirect THEN {send_indirect_probes(n, c1, f) : f \in Fanouts(w1)}
                              ELSE {c1}
        Concluded == {IF c.w.probing /\ period_due
                      THEN [c EXCEPT !.w = conclude_period(n, @)] ELSE c : c \in Probed}
        Started(c) == {start_period(n, c, dead, target) :
                         dead \in OrNone(InState(c.w, Dead)),
                         target \in OrNone(DOMAIN c.w.members \ InState(c.w, Dead))}
    IN  UNION {IF c.w.probing \/ ~ period_due THEN {c} ELSE Started(c) : c \in Concluded}

Tick(n, expired, stale, ping_due, period_due) ==
    /\ n \in up \cap Ticking
    /\ expired \subseteq InState(swim[n], Suspect)
    /\ stale \subseteq DOMAIN swim[n].relays
    /\ swim[n].probing /\ period_due =>
          \A s \in Unanswered(swim[n]) : swim[n].members[s].incarnation < MaxIncarnation
    /\ \E c \in tick(n, swim[n], expired, stale, ping_due, period_due) : Return(n, c, net)

Crash(n) == n \in up \cap Mortal /\ up' = up \ {n} /\ UNCHANGED <<swim, minted, ponged, net>>

(* A new process under the endpoint of one that crashed. *)
Restart(n) ==
    /\ n \in Returning \ up
    /\ up' = up \cup {n}
    /\ swim' = [swim EXCEPT ![n] = Fresh(n, {})]
    /\ UNCHANGED <<minted, ponged, net>>

Lose == /\ \E p \in net : net' = net \ {p}
        /\ UNCHANGED <<swim, up, minted, ponged>>

(* A datagram that is delivered may stay in the network and come again. *)
Next ==
    \/ Lose
    \/ \E n \in Node :
         \/ \E peer \in Node : AddMember(n, peer) \/ Join(n, peer)
         \/ \E p \in net : Receive(n, p, net) \/ Receive(n, p, net \ {p})
         \/ \E expired \in SUBSET InState(swim[n], Suspect),
               stale \in SUBSET DOMAIN swim[n].relays, ping_due, period_due \in BOOLEAN :
                 Tick(n, expired, stale, ping_due, period_due)
         \/ Crash(n) \/ Restart(n)

Spec == Init /\ [][Next]_vars

-----------------------------------------------------------------------------
(* Properties.                                                             *)

(* What a node passes on is what it believes: a rumor agrees with the      *)
(* table, and of itself a node says only that it is alive at its own       *)
(* incarnation.  queue_rumor is called from seven places and the table is  *)
(* written from three.                                                     *)
RumorsAgree ==
    \A n \in Node : \A s \in DOMAIN swim[n].rumors :
        At(swim[n].rumors[s].state, swim[n].rumors[s].incarnation) =
            IF s = n THEN At(Alive, swim[n].my_incarnation) ELSE swim[n].members[s]

(* Only the subject mints incarnations: no table and no datagram, however  *)
(* old, speaks of one above what the subject has announced, although       *)
(* accusations and refutations cross and processes restart at zero.        *)
OnlySubjectMints ==
    \A s \in Node :
        /\ swim[s].my_incarnation <= minted[s]
        /\ \A n \in Node : s \in DOMAIN swim[n].members =>
                             swim[n].members[s].incarnation <= minted[s]
        /\ \A p \in net : s \in DOMAIN p.gossip => p.gossip[s].incarnation <= minted[s]

(* A process that believes a member Dead takes it back only for news of an *)
(* incarnation that the member announced above the one of the verdict.     *)
ResurrectedByItself ==
    [][\A n \in up \cap up' : \A s \in InState(swim[n], Dead) :
          swim'[n].members[s].state # Dead =>
              minted'[s] > swim[n].members[s].incarnation]_vars

(* A Pong that names a member, forwarded or not, goes back to a Ping that  *)
(* this member answered: the relay of an indirect probe makes nothing up.  *)
Testimony ==
    \A p \in net : p.type = "Pong" => p.subject \in ponged

=============================================================================
