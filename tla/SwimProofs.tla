----------------------------- MODULE SwimProofs -----------------------------
(* Proofs about Swim for clusters of any size: what tables, rumors and     *)
(* datagrams say of a member is bounded by what the member announced, and  *)
(* what a node passes on is what it believes.                              *)
EXTENDS Swim, FiniteSetTheorems, SequenceTheorems, NaturalsInduction, WellFoundedInduction, TLAPS

-----------------------------------------------------------------------------
(* The inductive invariant.                                                *)

Beliefs == UNION {[S -> Belief] : S \in SUBSET Node}
Rumor == [state : Alive .. Dead, incarnation : Nat, tx_count : Nat]
Rumors == UNION {[S -> Rumor] : S \in SUBSET Node}
Relay == [requester : Node, req_probe : Nat, target : Nat]
Relays == UNION {[S -> Relay] : S \in SUBSET Nat}

SwimState ==
    [my_incarnation : Nat, members : Beliefs, rumors : Rumors, relays : Relays,
     probing : BOOLEAN, indirect_sent : BOOLEAN, probe_acked : BOOLEAN,
     probe_target : Nat, probe_id : Nat, next_probe_id : Nat]

Packet == [type : {"Ping", "PingReq", "Pong", "Join"}, from : Node, to : Nat,
           probe_id : Nat, subject : Nat, gossip : Beliefs]

CallState == [w : SwimState, sent : SUBSET Packet]

(* No belief is about an incarnation above what mu says of its subject. *)
Bounded(f, mu) == \A s \in DOMAIN f : f[s].incarnation <= mu[s]

Agrees(rumor, state, inc) == rumor.state = state /\ rumor.incarnation = inc

RumorsOK(n, inc, members, rumors) ==
    \A s \in DOMAIN rumors :
        IF s = n THEN Agrees(rumors[s], Alive, inc)
        ELSE s \in DOMAIN members /\ Agrees(rumors[s], members[s].state, members[s].incarnation)

(* The object w of node n, when mu holds the incarnations announced. *)
ObjectOK(n, w, mu) ==
    /\ w \in SwimState
    /\ w.my_incarnation <= mu[n]
    /\ n \notin DOMAIN w.members
    /\ Bounded(w.members, mu)
    /\ RumorsOK(n, w.my_incarnation, w.members, w.rumors)

PacketOK(p, mu) ==
    /\ p \in Packet
    /\ Bounded(p.gossip, mu)
    /\ p.type = "Join" => p.probe_id <= mu[p.from]

(* The invariant: objects and datagrams speak only of incarnations that    *)
(* were announced, and rumors repeat the table.                            *)
SwimInv ==
    /\ swim \in [Node -> SwimState]
    /\ minted \in [Node -> Nat]
    /\ \A n \in Node : ObjectOK(n, swim[n], minted)
    /\ \A p \in net : PacketOK(p, minted)
    /\ up \subseteq Node

(* A table entry is replaced only by news that overrides it. *)
Supersedes(old, new) ==
    \/ new.incarnation > old.incarnation
    \/ new.incarnation = old.incarnation /\ new.state >= old.state

Later(old, new) ==
    \A s \in DOMAIN old : s \in DOMAIN new /\ Supersedes(old[s], new[s])

(* A call that started from the object v and announces no incarnation. *)
CallOK(n, c, v, mu) ==
    /\ c \in CallState
    /\ ObjectOK(n, c.w, mu)
    /\ \A p \in c.sent : PacketOK(p, mu)
    /\ c.w.my_incarnation = v.my_incarnation
    /\ Later(v.members, c.w.members)

-----------------------------------------------------------------------------
(* Facts about the sets and records.                                       *)

LEMMA BeliefsType ==
    /\ \A f \in Beliefs : /\ DOMAIN f \subseteq Node /\ f \in [DOMAIN f -> Belief]
                          /\ \A s \in DOMAIN f : f[s] \in Belief /\ f[s].state \in Alive .. Dead
                                                 /\ f[s].incarnation \in Nat
    /\ \A S \in SUBSET Node : [S -> Belief] \subseteq Beliefs
<1>1. \A b \in Belief : b.state \in Alive .. Dead /\ b.incarnation \in Nat
  BY DEF Belief
<1>. QED
  BY <1>1, Zenon DEF Beliefs

LEMMA RumorsType ==
    /\ \A f \in Rumors : /\ DOMAIN f \subseteq Node /\ f \in [DOMAIN f -> Rumor]
                         /\ \A s \in DOMAIN f : f[s] \in Rumor /\ f[s].state \in Alive .. Dead
                                                /\ f[s].incarnation \in Nat /\ f[s].tx_count \in Nat
    /\ \A S \in SUBSET Node : [S -> Rumor] \subseteq Rumors
<1>1. \A b \in Rumor : b.state \in Alive .. Dead /\ b.incarnation \in Nat /\ b.tx_count \in Nat
  BY DEF Rumor
<1>. QED
  BY <1>1, Zenon DEF Rumors

LEMMA RelaysType ==
    /\ \A f \in Relays : /\ DOMAIN f \subseteq Nat /\ f \in [DOMAIN f -> Relay]
                         /\ \A i \in DOMAIN f : /\ f[i].requester \in Node
                                                /\ f[i].req_probe \in Nat /\ f[i].target \in Nat
    /\ \A S \in SUBSET Nat : [S -> Relay] \subseteq Relays
<1>1. \A b \in Relay : b.requester \in Node /\ b.req_probe \in Nat /\ b.target \in Nat
  BY DEF Relay
<1>. QED
  BY <1>1, Zenon DEF Relays

LEMMA AtType ==
    ASSUME NEW state \in Alive .. Dead, NEW inc \in Nat
    PROVE  /\ At(state, inc) \in Belief /\ At(state, inc).state = state
           /\ At(state, inc).incarnation = inc
BY DEF At, Belief

LEMMA NewRumorType ==
    ASSUME NEW b \in Belief
    PROVE  NewRumor(b) \in Rumor /\ Agrees(NewRumor(b), b.state, b.incarnation)
BY DEF NewRumor, Belief, Rumor, Agrees

LEMMA FieldTypes ==
    ASSUME NEW w \in SwimState
    PROVE  /\ w.my_incarnation \in Nat /\ w.members \in Beliefs /\ w.rumors \in Rumors
           /\ w.relays \in Relays /\ w.probing \in BOOLEAN /\ w.indirect_sent \in BOOLEAN
           /\ w.probe_acked \in BOOLEAN
           /\ w.probe_target \in Nat /\ w.probe_id \in Nat /\ w.next_probe_id \in Nat
BY Zenon DEF SwimState

LEMMA SetRumors ==
    ASSUME NEW w \in SwimState, NEW f \in Rumors
    PROVE  LET v == [w EXCEPT !.rumors = f]
           IN  /\ v \in SwimState /\ v.rumors = f /\ v.my_incarnation = w.my_incarnation
               /\ v.members = w.members
BY Zenon DEF SwimState

LEMMA CallParts ==
    ASSUME NEW c \in CallState
    PROVE  c.w \in SwimState /\ c.sent \in SUBSET Packet
BY Zenon DEF CallState

LEMMA CallFields ==
    ASSUME NEW c \in CallState, NEW w \in SwimState
    PROVE  /\ [c EXCEPT !.w = w] \in CallState
           /\ [c EXCEPT !.w = w].w = w /\ [c EXCEPT !.w = w].sent = c.sent
BY Zenon DEF CallState

LEMMA LaterReflexive ==
    ASSUME NEW f \in Beliefs
    PROVE  Later(f, f)
BY BeliefsType DEF Later, Supersedes, Alive, Dead

LEMMA LaterTransitive ==
    ASSUME NEW f \in Beliefs, NEW g \in Beliefs, NEW h \in Beliefs, Later(f, g), Later(g, h)
    PROVE  Later(f, h)
BY BeliefsType DEF Later, Supersedes, Alive, Dead

-----------------------------------------------------------------------------
(* Merging beliefs.                                                        *)

(* What apply_rumor announces raises the bound of n itself. *)
Raised(mu, n, inc) == [mu EXCEPT ![n] = IF inc > @ THEN inc ELSE @]

LEMMA RaisedType ==
    ASSUME NEW mu \in [Node -> Nat], NEW n \in Node, NEW inc \in Nat
    PROVE  /\ Raised(mu, n, inc) \in [Node -> Nat]
           /\ inc <= Raised(mu, n, inc)[n]
           /\ \A s \in Node : mu[s] <= Raised(mu, n, inc)[s]
           /\ inc <= mu[n] => Raised(mu, n, inc) = mu
BY DEF Raised

LEMMA BoundedMonotone ==
    ASSUME NEW mu \in [Node -> Nat], NEW nu \in [Node -> Nat], \A s \in Node : mu[s] <= nu[s],
           NEW f \in Beliefs, Bounded(f, mu)
    PROVE  Bounded(f, nu)
<1>. SUFFICES ASSUME NEW s \in DOMAIN f PROVE f[s].incarnation <= nu[s]
  BY DEF Bounded
<1>1. s \in Node /\ f[s].incarnation \in Nat
  BY BeliefsType
<1>2. f[s].incarnation <= mu[s] /\ mu[s] <= nu[s] /\ mu[s] \in Nat /\ nu[s] \in Nat
  BY <1>1 DEF Bounded
<1>. QED
  BY <1>1, <1>2

(* apply_rumor keeps the object sound, once what n announces is counted. *)
LEMMA ApplyOK ==
    ASSUME NEW n \in Node, NEW mu \in [Node -> Nat], NEW w, ObjectOK(n, w, mu),
           NEW heard \in Beliefs, Bounded(heard, mu)
    PROVE  LET v == apply_rumor(n, w, heard)
           IN  /\ v.my_incarnation \in Nat
               /\ ObjectOK(n, v, Raised(mu, n, v.my_incarnation))
               /\ Later(w.members, v.members)
               /\ ~ Accused(n, w, heard) => v.my_incarnation = w.my_incarnation
<1>. DEFINE adopted == {s \in DOMAIN heard \ {n} :
                          s \in DOMAIN w.members => overrides(w.members[s], heard[s])}
            refuted == IF Accused(n, w, heard) THEN {n} ELSE {}
            inc == IF Accused(n, w, heard) THEN heard[n].incarnation + 1 ELSE w.my_incarnation
            members == [s \in DOMAIN w.members \cup adopted |->
                          IF s \in adopted THEN heard[s] ELSE w.members[s]]
            rumors == [s \in DOMAIN w.rumors \cup adopted \cup refuted |->
                          IF s \in adopted THEN NewRumor(heard[s])
                          ELSE IF s \in refuted THEN NewRumor(At(Alive, inc))
                          ELSE w.rumors[s]]
            v == apply_rumor(n, w, heard)
            nu == Raised(mu, n, inc)
<1>1. w \in SwimState /\ w.members \in Beliefs /\ w.rumors \in Rumors /\ w.my_incarnation \in Nat
  BY FieldTypes DEF ObjectOK
<1>2. inc \in Nat /\ w.my_incarnation <= inc /\ (~ Accused(n, w, heard) => inc = w.my_incarnation)
  <2>1. CASE Accused(n, w, heard)
    <3>1. n \in DOMAIN heard /\ heard[n].incarnation >= w.my_incarnation
      BY <2>1 DEF Accused
    <3>2. heard[n].incarnation \in Nat
      BY <3>1, BeliefsType
    <3>. QED
      BY <1>1, <2>1, <3>1, <3>2
  <2>2. CASE ~ Accused(n, w, heard)
    BY <1>1, <2>2
  <2>. QED
    BY <2>1, <2>2
<1>3. v = [w EXCEPT !.my_incarnation = inc, !.members = members, !.rumors = rumors]
  BY <1>1, Zenon DEF apply_rumor, SwimState
<1>4. /\ adopted \subseteq DOMAIN heard /\ n \notin adopted /\ adopted \subseteq Node
      /\ refuted \subseteq {n}
      /\ \A s \in adopted : s \in DOMAIN w.members => overrides(w.members[s], heard[s])
      /\ \A s \in adopted : heard[s] \in Belief
  BY BeliefsType
<1>. HIDE DEF adopted, inc
<1>5. members \in Beliefs
  <2>1. members \in [DOMAIN w.members \cup adopted -> Belief]
    BY <1>1, <1>4, BeliefsType
  <2>2. DOMAIN w.members \cup adopted \in SUBSET Node
    BY <1>1, <1>4, BeliefsType
  <2>. QED
    BY <2>1, <2>2, BeliefsType, Zenon
<1>6. At(Alive, inc) \in Belief /\ At(Alive, inc).state = Alive /\ At(Alive, inc).incarnation = inc
  BY <1>2, AtType DEF Alive, Dead
<1>7. rumors \in Rumors
  <2>1. \A s \in adopted : NewRumor(heard[s]) \in Rumor
    BY <1>4, NewRumorType
  <2>2. NewRumor(At(Alive, inc)) \in Rumor
    BY <1>6, NewRumorType
  <2>3. \A s \in DOMAIN w.rumors : w.rumors[s] \in Rumor
    BY <1>1, RumorsType
  <2>4. rumors \in [DOMAIN w.rumors \cup adopted \cup refuted -> Rumor]
    BY <2>1, <2>2, <2>3, Zenon
  <2>5. DOMAIN w.rumors \cup adopted \cup refuted \in SUBSET Node
    BY <1>1, <1>4, RumorsType
  <2>. QED
    BY <2>4, <2>5, RumorsType, Zenon
<1>8. /\ v \in SwimState /\ v.my_incarnation = inc /\ v.members = members /\ v.rumors = rumors
  <2>. HIDE DEF members, rumors, v
  <2>. QED
    BY <1>1, <1>2, <1>3, <1>5, <1>7, Zenon DEF SwimState
<1>9. nu \in [Node -> Nat] /\ inc <= nu[n] /\ \A s \in Node : mu[s] <= nu[s]
  BY <1>2, RaisedType
<1>10. Bounded(members, nu)
  <2>1. Bounded(w.members, nu) /\ Bounded(heard, nu)
    BY <1>1, <1>9, BoundedMonotone DEF ObjectOK
  <2>. QED
    BY <1>4, <2>1, Zenon DEF Bounded
<1>11. n \notin DOMAIN members
  BY <1>4, SMTT(30) DEF ObjectOK
<1>12. RumorsOK(n, inc, members, rumors)
  <2>. SUFFICES ASSUME NEW s \in DOMAIN rumors
                PROVE  IF s = n THEN Agrees(rumors[s], Alive, inc)
                       ELSE /\ s \in DOMAIN members
                            /\ Agrees(rumors[s], members[s].state, members[s].incarnation)
    BY Zenon DEF RumorsOK
  <2>1. CASE s \in adopted
    <3>1. s # n /\ s \in DOMAIN members /\ members[s] = heard[s] /\ rumors[s] = NewRumor(heard[s])
      BY <1>4, <2>1
    <3>. QED
      BY <1>4, <2>1, <3>1, NewRumorType, Zenon
  <2>2. CASE s \in refuted
    <3>1. s = n /\ rumors[s] = NewRumor(At(Alive, inc))
      BY <1>4, <2>2
    <3>2. Agrees(NewRumor(At(Alive, inc)), Alive, inc)
      BY <1>6, NewRumorType, SMTT(30)
    <3>. QED
      BY <3>1, <3>2, Zenon
  <2>3. CASE s \notin adopted /\ s \notin refuted
    <3>1. s \in DOMAIN w.rumors /\ rumors[s] = w.rumors[s]
      BY <2>3
    <3>2. RumorsOK(n, w.my_incarnation, w.members, w.rumors)
      BY DEF ObjectOK
    <3>3. CASE s = n
      <4>1. ~ Accused(n, w, heard)
        BY <2>3, <3>3
      <4>. QED
        BY <1>2, <3>1, <3>2, <3>3, <4>1, Zenon DEF RumorsOK
    <3>4. CASE s # n
      <4>1. /\ s \in DOMAIN w.members
            /\ Agrees(w.rumors[s], w.members[s].state, w.members[s].incarnation)
        BY <3>1, <3>2, <3>4, Zenon DEF RumorsOK
      <4>2. s \in DOMAIN members /\ members[s] = w.members[s]
        BY <2>3, <4>1
      <4>. QED
        BY <3>1, <3>4, <4>1, <4>2, Zenon
    <3>. QED
      BY <3>3, <3>4
  <2>. QED
    BY <2>1, <2>2, <2>3
<1>13. Later(w.members, members)
  <2>. SUFFICES ASSUME NEW s \in DOMAIN w.members PROVE Supersedes(w.members[s], members[s])
    BY SMTT(30) DEF Later
  <2>1. w.members[s].state \in Nat /\ w.members[s].incarnation \in Nat
    BY <1>1, BeliefsType DEF Alive, Dead
  <2>2. CASE s \in adopted
    <3>1. members[s] = heard[s] /\ overrides(w.members[s], heard[s])
      BY <1>4, <2>2
    <3>2. heard[s].state \in Nat /\ heard[s].incarnation \in Nat
      BY <1>4, <2>2, BeliefsType DEF Alive, Dead
    <3>. HIDE DEF members
    <3>. QED
      BY <2>1, <3>1, <3>2 DEF overrides, Supersedes
  <2>3. CASE s \notin adopted
    <3>1. members[s] = w.members[s]
      BY <2>3
    <3>. HIDE DEF members
    <3>. QED
      BY <2>1, <3>1 DEF Supersedes
  <2>. QED
    BY <2>2, <2>3
<1>. HIDE DEF members, rumors, v, refuted
<1>14. ObjectOK(n, v, nu)
  BY <1>8, <1>9, <1>10, <1>11, <1>12, Zenon DEF ObjectOK
<1>. QED
  BY <1>2, <1>8, <1>13, <1>14, Zenon DEF v, nu

(* News that does not accuse n announces nothing. *)
LEMMA ApplyQuiet ==
    ASSUME NEW n \in Node, NEW mu \in [Node -> Nat], NEW w, ObjectOK(n, w, mu),
           NEW heard \in Beliefs, Bounded(heard, mu),
           n \in DOMAIN heard => heard[n].state = Alive
    PROVE  LET v == apply_rumor(n, w, heard)
           IN  /\ ObjectOK(n, v, mu) /\ v.my_incarnation = w.my_incarnation
               /\ Later(w.members, v.members)
<1>. DEFINE v == apply_rumor(n, w, heard)
<1>1. ~ Accused(n, w, heard)
  BY DEF Accused
<1>2. v.my_incarnation = w.my_incarnation /\ v.my_incarnation \in Nat
      /\ ObjectOK(n, v, Raised(mu, n, v.my_incarnation)) /\ Later(w.members, v.members)
  BY <1>1, ApplyOK
<1>3. Raised(mu, n, w.my_incarnation) = mu
  BY <1>2, RaisedType DEF ObjectOK
<1>. HIDE DEF v
<1>4. ObjectOK(n, v, mu)
  BY <1>2, <1>3, Zenon
<1>. QED
  BY <1>2, <1>4 DEF v

(* Queueing what the table says keeps the object sound. *)
LEMMA QueueOK ==
    ASSUME NEW n \in Node, NEW mu, NEW w, ObjectOK(n, w, mu), NEW s \in DOMAIN w.members
    PROVE  LET v == queue_rumor(w, s, w.members[s])
           IN  /\ ObjectOK(n, v, mu) /\ v.my_incarnation = w.my_incarnation
               /\ v.members = w.members
<1>. DEFINE f == Put(w.rumors, s, NewRumor(w.members[s]))
            v == queue_rumor(w, s, w.members[s])
<1>1. w \in SwimState /\ w.members \in Beliefs /\ w.rumors \in Rumors
  BY FieldTypes DEF ObjectOK
<1>2. /\ w.members[s] \in Belief /\ s \in Node /\ s # n
      /\ NewRumor(w.members[s]) \in Rumor
      /\ Agrees(NewRumor(w.members[s]), w.members[s].state, w.members[s].incarnation)
  BY <1>1, BeliefsType, NewRumorType DEF ObjectOK
<1>3. f \in Rumors
  <2>1. f \in [DOMAIN w.rumors \cup {s} -> Rumor]
    BY <1>1, <1>2, RumorsType DEF Put
  <2>2. DOMAIN w.rumors \cup {s} \in SUBSET Node
    BY <1>1, <1>2, RumorsType
  <2>. QED
    BY <2>1, <2>2, RumorsType, Zenon
<1>4. RumorsOK(n, w.my_incarnation, w.members, f)
  BY <1>2, Zenon DEF RumorsOK, Put, ObjectOK
<1>5. v = [w EXCEPT !.rumors = f]
  BY <1>1, Zenon DEF queue_rumor, SwimState
<1>. HIDE DEF f, v
<1>6. v \in SwimState /\ v.rumors = f /\ v.my_incarnation = w.my_incarnation
      /\ v.members = w.members
  BY <1>1, <1>3, <1>5, SetRumors
<1>7. ObjectOK(n, v, mu)
  BY <1>4, <1>6, Zenon DEF ObjectOK
<1>. QED
  BY <1>6, <1>7 DEF v

LEMMA AccuseOK ==
    ASSUME NEW n \in Node, NEW mu, NEW w, ObjectOK(n, w, mu), NEW from
    PROVE  /\ ObjectOK(n, Accuse(w, from), mu)
           /\ Accuse(w, from).my_incarnation = w.my_incarnation
           /\ Accuse(w, from).members = w.members
BY QueueOK, Zenon DEF Accuse

LEMMA ReinjectOK ==
    ASSUME NEW n \in Node, NEW mu, NEW w, ObjectOK(n, w, mu)
    PROVE  LET v == reinject_suspicions(w)
           IN  /\ ObjectOK(n, v, mu) /\ v.my_incarnation = w.my_incarnation
               /\ v.members = w.members
<1>. DEFINE sus == InState(w, Suspect)
            f == [s \in DOMAIN w.rumors \cup sus |->
                    IF s \in sus THEN NewRumor(w.members[s]) ELSE w.rumors[s]]
            v == reinject_suspicions(w)
<1>1. w \in SwimState /\ w.members \in Beliefs /\ w.rumors \in Rumors
  BY FieldTypes DEF ObjectOK
<1>2. sus \subseteq DOMAIN w.members
  BY DEF InState
<1>3. v = [w EXCEPT !.rumors = f]
  BY <1>1, Zenon DEF reinject_suspicions, SwimState
<1>. HIDE DEF sus
<1>4. \A s \in sus : /\ s \in DOMAIN w.members /\ s \in Node /\ s # n
                     /\ NewRumor(w.members[s]) \in Rumor
                     /\ Agrees(NewRumor(w.members[s]), w.members[s].state, w.members[s].incarnation)
  BY <1>1, <1>2, BeliefsType, NewRumorType DEF ObjectOK
<1>5. f \in Rumors
  <2>1. f \in [DOMAIN w.rumors \cup sus -> Rumor]
    BY <1>1, <1>4, RumorsType
  <2>2. DOMAIN w.rumors \cup sus \in SUBSET Node
    BY <1>1, <1>4, RumorsType
  <2>. QED
    BY <2>1, <2>2, RumorsType, Zenon
<1>6. RumorsOK(n, w.my_incarnation, w.members, f)
  BY <1>4, Zenon DEF RumorsOK, ObjectOK
<1>. HIDE DEF f, v
<1>7. v \in SwimState /\ v.rumors = f /\ v.my_incarnation = w.my_incarnation
      /\ v.members = w.members
  BY <1>1, <1>3, <1>5, SetRumors
<1>8. ObjectOK(n, v, mu)
  BY <1>6, <1>7, Zenon DEF ObjectOK
<1>. QED
  BY <1>7, <1>8 DEF v

-----------------------------------------------------------------------------
(* The wire path.                                                          *)

(* Charging the budgets drops rumors and changes none. *)
LEMMA ChargedOK ==
    ASSUME NEW n \in Node, NEW mu, NEW w, ObjectOK(n, w, mu)
    PROVE  /\ ObjectOK(n, Charged(w), mu) /\ Charged(w).my_incarnation = w.my_incarnation
           /\ Charged(w).members = w.members
<1>. DEFINE spent == {s \in Picked(w) : w.rumors[s].tx_count + 1 >= gossip_budget(w)}
            One(s) == [w.rumors[s] EXCEPT !.tx_count = @ + 1]
            f == [s \in DOMAIN w.rumors \ spent |->
                    IF s \in Picked(w) THEN One(s) ELSE w.rumors[s]]
            v == Charged(w)
<1>1. w \in SwimState /\ w.rumors \in Rumors
  BY FieldTypes DEF ObjectOK
<1>2. v = [w EXCEPT !.rumors = f]
  BY <1>1, Zenon DEF Charged, SwimState
<1>3. \A s \in DOMAIN w.rumors : /\ One(s) \in Rumor /\ One(s).state = w.rumors[s].state
                                 /\ One(s).incarnation = w.rumors[s].incarnation
  <2>. SUFFICES ASSUME NEW s \in DOMAIN w.rumors
                PROVE  /\ One(s) \in Rumor /\ One(s).state = w.rumors[s].state
                       /\ One(s).incarnation = w.rumors[s].incarnation
    OBVIOUS
  <2>1. w.rumors[s] \in Rumor /\ w.rumors[s].tx_count + 1 \in Nat
    BY <1>1, RumorsType
  <2>. QED
    BY <2>1, Zenon DEF Rumor
<1>. HIDE DEF spent, One
<1>4. f \in Rumors
  <2>1. f \in [DOMAIN w.rumors \ spent -> Rumor]
    BY <1>1, <1>3, RumorsType, Zenon
  <2>2. DOMAIN w.rumors \ spent \in SUBSET Node
    BY <1>1, RumorsType
  <2>. QED
    BY <2>1, <2>2, RumorsType, Zenon
<1>5. RumorsOK(n, w.my_incarnation, w.members, f)
  <2>. SUFFICES ASSUME NEW s \in DOMAIN f
                PROVE  IF s = n THEN Agrees(f[s], Alive, w.my_incarnation)
                       ELSE /\ s \in DOMAIN w.members
                            /\ Agrees(f[s], w.members[s].state, w.members[s].incarnation)
    BY Zenon DEF RumorsOK
  <2>1. /\ s \in DOMAIN w.rumors /\ f[s].state = w.rumors[s].state
        /\ f[s].incarnation = w.rumors[s].incarnation
    BY <1>3
  <2>. QED
    BY <2>1, Zenon DEF ObjectOK, RumorsOK, Agrees
<1>. HIDE DEF f, v
<1>6. v \in SwimState /\ v.rumors = f /\ v.my_incarnation = w.my_incarnation
      /\ v.members = w.members
  BY <1>1, <1>2, <1>4, SetRumors
<1>7. ObjectOK(n, v, mu)
  BY <1>5, <1>6, Zenon DEF ObjectOK
<1>. QED
  BY <1>6, <1>7 DEF v

(* What a packet piggybacks is bounded like the table. *)
LEMMA GossipOK ==
    ASSUME NEW n \in Node, NEW mu \in [Node -> Nat], NEW w, ObjectOK(n, w, mu)
    PROVE  LET g == [s \in Picked(w) |-> At(w.rumors[s].state, w.rumors[s].incarnation)]
           IN  g \in Beliefs /\ Bounded(g, mu)
<1>. DEFINE g == [s \in Picked(w) |-> At(w.rumors[s].state, w.rumors[s].incarnation)]
<1>1. w \in SwimState /\ w.rumors \in Rumors /\ w.members \in Beliefs /\ w.my_incarnation \in Nat
  BY FieldTypes DEF ObjectOK
<1>2. Picked(w) \subseteq DOMAIN w.rumors /\ DOMAIN w.rumors \subseteq Node
  BY <1>1, RumorsType DEF Picked
<1>3. \A s \in Picked(w) : /\ At(w.rumors[s].state, w.rumors[s].incarnation) \in Belief
                           /\ At(w.rumors[s].state, w.rumors[s].incarnation).incarnation
                                = w.rumors[s].incarnation
  BY <1>1, <1>2, RumorsType, AtType
<1>4. \A s \in Picked(w) : w.rumors[s].incarnation <= mu[s]
  <2>. SUFFICES ASSUME NEW s \in Picked(w) PROVE w.rumors[s].incarnation <= mu[s]
    OBVIOUS
  <2>1. CASE s = n
    BY <1>2, <2>1 DEF ObjectOK, RumorsOK, Agrees
  <2>2. CASE s # n
    BY <1>2, <2>2 DEF ObjectOK, RumorsOK, Agrees, Bounded
  <2>. QED
    BY <2>1, <2>2
<1>5. g \in [Picked(w) -> Belief] /\ Picked(w) \in SUBSET Node
  BY <1>2, <1>3, Zenon
<1>6. g \in Beliefs
  BY <1>5, BeliefsType, Zenon
<1>7. Bounded(g, mu)
  BY <1>3, <1>4, Zenon DEF Bounded
<1>. QED
  BY <1>6, <1>7

LEMMA HeaderOK ==
    ASSUME NEW mu, NEW type \in {"Ping", "PingReq", "Pong", "Join"}, NEW from \in Node,
           NEW to \in Nat, NEW probe_id \in Nat, NEW subject \in Nat,
           NEW heard \in Beliefs, Bounded(heard, mu), type = "Join" => probe_id <= mu[from]
    PROVE  PacketOK(Header(type, from, to, probe_id, subject, heard), mu)
BY Zenon DEF PacketOK, Header, Packet

LEMMA SendOK ==
    ASSUME NEW n \in Node, NEW mu \in [Node -> Nat], NEW v, NEW c, CallOK(n, c, v, mu),
           NEW type \in {"Ping", "PingReq", "Pong", "Join"}, NEW to \in Nat,
           NEW probe_id \in Nat, NEW subject \in Nat, type = "Join" => probe_id <= mu[n]
    PROVE  CallOK(n, send_swim(n, c, type, to, probe_id, subject), v, mu)
<1>. DEFINE p == SwimPacket(n, c.w, type, to, probe_id, subject)
            d == send_swim(n, c, type, to, probe_id, subject)
<1>1. ObjectOK(n, c.w, mu)
  BY DEF CallOK
<1>2. PacketOK(p, mu)
  <2>. DEFINE g == [s \in Picked(c.w) |-> At(c.w.rumors[s].state, c.w.rumors[s].incarnation)]
  <2>1. g \in Beliefs /\ Bounded(g, mu)
    BY <1>1, GossipOK, Zenon
  <2>2. p = Header(type, n, to, probe_id, subject, g)
    BY DEF SwimPacket
  <2>. HIDE DEF g, p
  <2>3. PacketOK(Header(type, n, to, probe_id, subject, g), mu)
    BY <2>1, HeaderOK
  <2>. QED
    BY <2>2, <2>3
<1>3. d.w = Charged(c.w) /\ d.sent = c.sent \cup {p} /\ d = [w |-> d.w, sent |-> d.sent]
  BY DEF send_swim
<1>4. /\ ObjectOK(n, d.w, mu) /\ d.w.my_incarnation = c.w.my_incarnation
      /\ d.w.members = c.w.members
  <2>1. /\ ObjectOK(n, Charged(c.w), mu) /\ Charged(c.w).members = c.w.members
        /\ Charged(c.w).my_incarnation = c.w.my_incarnation
    BY <1>1, ChargedOK
  <2>. HIDE DEF d
  <2>. QED
    BY <1>3, <2>1
<1>. HIDE DEF p, d
<1>5. c.sent \in SUBSET Packet
  BY DEF CallOK, CallState
<1>6. d.sent \in SUBSET Packet
  BY <1>2, <1>3, <1>5, Zenon DEF PacketOK
<1>7. d \in CallState
  BY <1>3, <1>4, <1>6, Zenon DEF CallState, ObjectOK
<1>. QED
  BY <1>2, <1>3, <1>4, <1>7, Zenon DEF CallOK, d

(* Nothing is asked of the probe id of the other types. *)
LEMMA SendProbeOK ==
    ASSUME NEW n \in Node, NEW mu \in [Node -> Nat], NEW v, NEW c, CallOK(n, c, v, mu),
           NEW to \in Nat, NEW probe_id \in Nat, NEW subject \in Nat
    PROVE  /\ CallOK(n, send_swim(n, c, "Ping", to, probe_id, subject), v, mu)
           /\ CallOK(n, send_swim(n, c, "PingReq", to, probe_id, subject), v, mu)
           /\ CallOK(n, send_swim(n, c, "Pong", to, probe_id, subject), v, mu)
<1>1. /\ "Ping" \in {"Ping", "PingReq", "Pong", "Join"} /\ "Ping" # "Join"
      /\ "PingReq" \in {"Ping", "PingReq", "Pong", "Join"} /\ "PingReq" # "Join"
      /\ "Pong" \in {"Ping", "PingReq", "Pong", "Join"} /\ "Pong" # "Join"
  OBVIOUS
<1>. QED
  BY <1>1, SendOK, Zenon

(* A change of the object that the invariant does not see, or that only    *)
(* brings the table forward, keeps the call sound.                         *)
LEMMA CallStep ==
    ASSUME NEW n \in Node, NEW mu, NEW v \in SwimState, NEW c, CallOK(n, c, v, mu),
           NEW x, ObjectOK(n, x, mu), x.my_incarnation = c.w.my_incarnation,
           Later(c.w.members, x.members), NEW d \in CallState, d.w = x, d.sent = c.sent
    PROVE  CallOK(n, d, v, mu)
<1>1. c.w \in SwimState /\ x \in SwimState /\ c.sent \in SUBSET Packet
  BY CallParts DEF CallOK, ObjectOK
<1>2. v.members \in Beliefs /\ c.w.members \in Beliefs /\ x.members \in Beliefs
  BY <1>1, FieldTypes
<1>3. Later(v.members, x.members)
  BY <1>2, LaterTransitive DEF CallOK
<1>. QED
  BY <1>3, Zenon DEF CallOK

LEMMA CallFrame ==
    ASSUME NEW n \in Node, NEW mu, NEW v \in SwimState, NEW c, CallOK(n, c, v, mu),
           NEW x \in SwimState, x.my_incarnation = c.w.my_incarnation,
           x.members = c.w.members, x.rumors = c.w.rumors,
           NEW d \in CallState, d.w = x, d.sent = c.sent
    PROVE  CallOK(n, d, v, mu)
<1>1. ObjectOK(n, x, mu)
  BY Zenon DEF ObjectOK, CallOK
<1>2. Later(c.w.members, x.members)
  BY FieldTypes, LaterReflexive
<1>. QED
  BY <1>1, <1>2, CallStep

LEMMA NextProbeIdType == \A id \in Nat : NextProbeId(id) \in Nat
BY LimitAssumption DEF NextProbeId

LEMMA NodeNat == \A n \in Node : n \in Nat
BY NodeAssumption

LEMMA PacketFields ==
    ASSUME NEW p \in Packet
    PROVE  /\ p.type \in {"Ping", "PingReq", "Pong", "Join"} /\ p.from \in Node /\ p.to \in Nat
           /\ p.probe_id \in Nat /\ p.subject \in Nat /\ p.gossip \in Beliefs
BY Zenon DEF Packet

LEMMA PingOK ==
    ASSUME NEW n \in Node, NEW mu \in [Node -> Nat], NEW v \in SwimState,
           NEW c, CallOK(n, c, v, mu), NEW p \in Packet
    PROVE  CallOK(n, handle_ping(n, c, p), v, mu)
<1>1. n \in Nat /\ p.from \in Nat /\ p.probe_id \in Nat
  BY PacketFields, NodeNat
<1>. QED
  BY <1>1, SendProbeOK, Zenon DEF handle_ping

LEMMA PingReqOK ==
    ASSUME NEW n \in Node, NEW mu \in [Node -> Nat], NEW v \in SwimState,
           NEW c, CallOK(n, c, v, mu), NEW p \in Packet
    PROVE  CallOK(n, handle_ping_req(n, c, p), v, mu)
<1>. DEFINE id == c.w.next_probe_id
            relay == [requester |-> p.from, req_probe |-> p.probe_id, target |-> p.subject]
            relays == Put(c.w.relays, id, relay)
            x == [c.w EXCEPT !.relays = relays, !.next_probe_id = NextProbeId(id)]
            d == [c EXCEPT !.w.relays = Put(@, id, relay), !.w.next_probe_id = NextProbeId(id)]
<1>1. c \in CallState /\ c.w \in SwimState
  BY CallParts DEF CallOK
<1>2. id \in Nat /\ c.w.relays \in Relays /\ NextProbeId(id) \in Nat
  BY <1>1, FieldTypes, NextProbeIdType
<1>3. relay \in Relay
  BY PacketFields DEF Relay
<1>4. relays \in Relays
  <2>. HIDE DEF relay, id
  <2>1. relays \in [DOMAIN c.w.relays \cup {id} -> Relay]
    BY <1>2, <1>3, RelaysType DEF Put
  <2>2. DOMAIN c.w.relays \cup {id} \in SUBSET Nat
    BY <1>2, RelaysType
  <2>. QED
    BY <2>1, <2>2, RelaysType, Zenon
<1>5. d \in CallState /\ d.w = x /\ d.sent = c.sent
  <2>. DEFINE y == [c.w EXCEPT !.relays = relays]
              e == [c EXCEPT !.w = y]
              z == [y EXCEPT !.next_probe_id = NextProbeId(id)]
  <2>1. d = [e EXCEPT !.w = [e.w EXCEPT !.next_probe_id = NextProbeId(id)]] /\ x = z
    OBVIOUS
  <2>. HIDE DEF relays, id
  <2>2. y \in SwimState /\ z \in SwimState
    BY <1>1, <1>2, <1>4, Zenon DEF SwimState
  <2>. HIDE DEF y
  <2>3. e \in CallState /\ e.w = y /\ e.sent = c.sent
    BY <1>1, <2>2, CallFields
  <2>. HIDE DEF e, d, x
  <2>4. d = [e EXCEPT !.w = z]
    BY <2>1, <2>3
  <2>. HIDE DEF z
  <2>5. d \in CallState /\ d.w = z /\ d.sent = e.sent
    BY <2>2, <2>3, <2>4, CallFields
  <2>. QED
    BY <2>1, <2>3, <2>5
<1>6. /\ x \in SwimState /\ x.my_incarnation = c.w.my_incarnation
      /\ x.members = c.w.members /\ x.rumors = c.w.rumors
  <2>. HIDE DEF relays, id
  <2>. QED
    BY <1>1, <1>2, <1>4, Zenon DEF SwimState
<1>7. CallOK(n, d, v, mu)
  <2>. HIDE DEF x, d
  <2>. QED
    BY <1>5, <1>6, CallFrame
<1>8. CallOK(n, send_swim(n, d, "Ping", p.subject, id, p.subject), v, mu)
  <2>. HIDE DEF d, id
  <2>. QED
    BY <1>2, <1>7, SendProbeOK, PacketFields, Zenon
<1>. QED
  BY <1>8, Zenon DEF handle_ping_req

LEMMA PongOK ==
    ASSUME NEW n \in Node, NEW mu \in [Node -> Nat], NEW v \in SwimState,
           NEW c, CallOK(n, c, v, mu), NEW p \in Packet
    PROVE  CallOK(n, handle_pong(n, c, p), v, mu)
<1>1. c \in CallState /\ c.w \in SwimState /\ c.w.relays \in Relays
  BY CallParts, FieldTypes DEF CallOK
<1>2. CASE p.probe_id \in DOMAIN c.w.relays
  <2>. DEFINE relay == c.w.relays[p.probe_id]
              rest == Without(c.w.relays, {p.probe_id})
              x == [c.w EXCEPT !.relays = rest]
              d == [c EXCEPT !.w.relays = Without(@, {p.probe_id})]
  <2>1. relay.requester \in Nat /\ relay.req_probe \in Nat /\ relay.target \in Nat
    BY <1>1, <1>2, RelaysType, NodeNat
  <2>2. rest \in Relays
    <3>1. rest \in [DOMAIN c.w.relays \ {p.probe_id} -> Relay]
      BY <1>1, RelaysType DEF Without
    <3>2. DOMAIN c.w.relays \ {p.probe_id} \in SUBSET Nat
      BY <1>1, RelaysType
    <3>. QED
      BY <3>1, <3>2, RelaysType, Zenon
  <2>3. d = [c EXCEPT !.w = x]
    OBVIOUS
  <2>. HIDE DEF rest, relay
  <2>4. /\ x \in SwimState /\ x.my_incarnation = c.w.my_incarnation
        /\ x.members = c.w.members /\ x.rumors = c.w.rumors
    BY <1>1, <2>2, Zenon DEF SwimState
  <2>. HIDE DEF x, d
  <2>5. CallOK(n, d, v, mu)
    <3>1. d \in CallState /\ d.w = x /\ d.sent = c.sent
      BY <1>1, <2>3, <2>4, CallFields
    <3>. QED
      BY <2>4, <3>1, CallFrame
  <2>6. CallOK(n, send_swim(n, d, "Pong", relay.requester, relay.req_probe, relay.target), v, mu)
    BY <2>1, <2>5, SendProbeOK, Zenon
  <2>. QED
    BY <1>2, <2>6, Zenon DEF handle_pong, d, relay
<1>3. CallOK(n, [c EXCEPT !.w.probe_acked = TRUE], v, mu)
  <2>. DEFINE x == [c.w EXCEPT !.probe_acked = TRUE]
              d == [c EXCEPT !.w.probe_acked = TRUE]
  <2>1. d = [c EXCEPT !.w = x]
    OBVIOUS
  <2>2. /\ x \in SwimState /\ x.my_incarnation = c.w.my_incarnation
        /\ x.members = c.w.members /\ x.rumors = c.w.rumors
    BY <1>1, Zenon DEF SwimState
  <2>. HIDE DEF x, d
  <2>3. CallOK(n, d, v, mu)
    <3>1. d \in CallState /\ d.w = x /\ d.sent = c.sent
      BY <1>1, <2>1, <2>2, CallFields
    <3>. QED
      BY <2>2, <3>1, CallFrame
  <2>. QED
    BY <2>3 DEF d
<1>. QED
  BY <1>2, <1>3, Zenon DEF handle_pong

(* A full snapshot speaks of the table and of the sender itself. *)
LEMMA SnapshotOK ==
    ASSUME NEW n \in Node, NEW mu \in [Node -> Nat], NEW v \in SwimState,
           NEW c, CallOK(n, c, v, mu), NEW to \in Nat, NEW roster \in SUBSET DOMAIN c.w.members
    PROVE  CallOK(n, SendSnapshot(n, c, to, roster), v, mu)
<1>. DEFINE inc == c.w.my_incarnation
            heard == [s \in roster \cup {n} |-> IF s = n THEN At(Alive, inc) ELSE c.w.members[s]]
            p == Header("Join", n, to, inc, to, heard)
            d == SendSnapshot(n, c, to, roster)
<1>1. /\ c \in CallState /\ c.w \in SwimState /\ c.w.members \in Beliefs /\ inc \in Nat
      /\ ObjectOK(n, c.w, mu)
  BY CallParts, FieldTypes DEF CallOK
<1>2. d = [c EXCEPT !.sent = c.sent \cup {p}]
  BY DEF SendSnapshot
<1>3. inc <= mu[n] /\ Bounded(c.w.members, mu)
  BY <1>1 DEF ObjectOK
<1>. HIDE DEF inc
<1>4. At(Alive, inc) \in Belief /\ At(Alive, inc).incarnation = inc
  BY <1>1, AtType DEF Alive, Dead
<1>5. heard \in Beliefs
  <2>1. heard \in [roster \cup {n} -> Belief]
    BY <1>1, <1>4, BeliefsType
  <2>2. roster \cup {n} \in SUBSET Node
    BY <1>1, BeliefsType
  <2>. QED
    BY <2>1, <2>2, BeliefsType, Zenon
<1>6. Bounded(heard, mu)
  BY <1>3, <1>4 DEF Bounded
<1>. HIDE DEF heard
<1>7. PacketOK(p, mu)
  BY <1>1, <1>3, <1>5, <1>6, HeaderOK
<1>. HIDE DEF p, d
<1>8. c.sent \cup {p} \in SUBSET Packet
  BY <1>1, <1>7, CallParts DEF PacketOK
<1>9. d \in CallState /\ d.w = c.w /\ d.sent = c.sent \cup {p}
  BY <1>1, <1>2, <1>8, Zenon DEF CallState
<1>. QED
  BY <1>7, <1>9, Zenon DEF CallOK, d

LEMMA JoinOK ==
    ASSUME NEW n \in Node, NEW mu \in [Node -> Nat], NEW v \in SwimState,
           NEW c, CallOK(n, c, v, mu), NEW p \in Packet, PacketOK(p, mu), p.type = "Join",
           NEW r \in handle_join(n, c, p)
    PROVE  CallOK(n, r, v, mu)
<1>. DEFINE heard == [s \in {p.from} |-> At(Alive, p.probe_id)]
            x == JoinMerged(n, c.w, p)
            d == [c EXCEPT !.w = JoinMerged(n, @, p)]
<1>1. c \in CallState /\ c.w \in SwimState /\ ObjectOK(n, c.w, mu)
  BY CallParts DEF CallOK
<1>2. p.from \in Node /\ p.probe_id \in Nat /\ p.probe_id <= mu[p.from] /\ p.from \in Nat
  BY PacketFields, NodeNat DEF PacketOK
<1>3. /\ At(Alive, p.probe_id) \in Belief /\ At(Alive, p.probe_id).state = Alive
      /\ At(Alive, p.probe_id).incarnation = p.probe_id
  BY <1>2, AtType DEF Alive, Dead
<1>4. heard \in Beliefs
  <2>1. heard \in [{p.from} -> Belief] /\ {p.from} \in SUBSET Node
    BY <1>2, <1>3
  <2>. QED
    BY <2>1, BeliefsType, Zenon
<1>5. Bounded(heard, mu) /\ (n \in DOMAIN heard => heard[n].state = Alive)
  BY <1>2, <1>3 DEF Bounded
<1>6. x = apply_rumor(n, c.w, heard)
  BY DEF JoinMerged
<1>. HIDE DEF heard, x
<1>7. /\ ObjectOK(n, x, mu) /\ x.my_incarnation = c.w.my_incarnation
      /\ Later(c.w.members, x.members)
  BY <1>1, <1>4, <1>5, <1>6, ApplyQuiet
<1>8. d = [c EXCEPT !.w = x]
  BY DEF x
<1>. HIDE DEF d
<1>9. CallOK(n, d, v, mu)
  <2>1. x \in SwimState
    BY <1>7 DEF ObjectOK
  <2>2. d \in CallState /\ d.w = x /\ d.sent = c.sent
    BY <1>1, <1>8, <2>1, CallFields
  <2>. QED
    BY <1>7, <2>2, CallStep
<1>10. CASE r = d
  BY <1>9, <1>10
<1>11. ASSUME NEW roster \in Rosters(d.w), r = SendSnapshot(n, d, p.from, roster)
       PROVE  CallOK(n, r, v, mu)
  <2>1. roster \in SUBSET DOMAIN d.w.members
    BY <1>11 DEF Rosters
  <2>. QED
    BY <1>2, <1>9, <1>11, <2>1, SnapshotOK
<1>. QED
  BY <1>10, <1>11, Zenon DEF handle_join, d

-----------------------------------------------------------------------------
(* The failure detector.                                                   *)

(* A verdict on members repeats their incarnation. *)
LEMMA VerdictOK ==
    ASSUME NEW n \in Node, NEW mu \in [Node -> Nat], NEW w, ObjectOK(n, w, mu),
           NEW S \in SUBSET DOMAIN w.members, NEW state \in Alive .. Dead
    PROVE  LET v == apply_rumor(n, w, [s \in S |-> At(state, w.members[s].incarnation)])
           IN  /\ ObjectOK(n, v, mu) /\ v.my_incarnation = w.my_incarnation
               /\ Later(w.members, v.members)
<1>. DEFINE heard == [s \in S |-> At(state, w.members[s].incarnation)]
<1>1. w.members \in Beliefs /\ n \notin S
  BY FieldTypes DEF ObjectOK
<1>2. \A s \in S : /\ At(state, w.members[s].incarnation) \in Belief
                   /\ At(state, w.members[s].incarnation).incarnation = w.members[s].incarnation
  BY <1>1, BeliefsType, AtType
<1>3. heard \in Beliefs
  <2>1. heard \in [S -> Belief] /\ S \in SUBSET Node
    BY <1>1, <1>2, BeliefsType
  <2>. QED
    BY <2>1, BeliefsType, Zenon
<1>4. Bounded(heard, mu) /\ n \notin DOMAIN heard
  BY <1>1, <1>2 DEF Bounded, ObjectOK
<1>. HIDE DEF heard
<1>5. LET v == apply_rumor(n, w, heard)
      IN  /\ ObjectOK(n, v, mu) /\ v.my_incarnation = w.my_incarnation
          /\ Later(w.members, v.members)
  BY <1>3, <1>4, ApplyQuiet
<1>. QED
  BY <1>5, Zenon DEF heard

LEMMA ExpireOK ==
    ASSUME NEW n \in Node, NEW mu \in [Node -> Nat], NEW w, ObjectOK(n, w, mu),
           NEW expired \in SUBSET InState(w, Suspect)
    PROVE  LET v == expire_suspects(n, w, expired)
           IN  /\ ObjectOK(n, v, mu) /\ v.my_incarnation = w.my_incarnation
               /\ Later(w.members, v.members)
<1>1. expired \in SUBSET DOMAIN w.members /\ Dead \in Alive .. Dead
  BY DEF InState, Alive, Dead
<1>. QED
  BY <1>1, VerdictOK, Zenon DEF expire_suspects

LEMMA ConcludeOK ==
    ASSUME NEW n \in Node, NEW mu \in [Node -> Nat], NEW w, ObjectOK(n, w, mu)
    PROVE  LET v == conclude_period(n, w)
           IN  /\ ObjectOK(n, v, mu) /\ v.my_incarnation = w.my_incarnation
               /\ Later(w.members, v.members)
<1>. DEFINE u == apply_rumor(n, w, [s \in Unanswered(w) |-> At(Suspect, w.members[s].incarnation)])
            v == [u EXCEPT !.probing = FALSE]
<1>1. Unanswered(w) \in SUBSET DOMAIN w.members /\ Suspect \in Alive .. Dead
  BY DEF Unanswered, InState, Alive, Suspect, Dead
<1>2. /\ ObjectOK(n, u, mu) /\ u.my_incarnation = w.my_incarnation
      /\ Later(w.members, u.members)
  BY <1>1, VerdictOK, Zenon
<1>3. conclude_period(n, w) = v
  BY DEF conclude_period
<1>. HIDE DEF u
<1>4. u \in SwimState
  BY <1>2 DEF ObjectOK
<1>5. /\ v \in SwimState /\ v.my_incarnation = u.my_incarnation /\ v.members = u.members
      /\ v.rumors = u.rumors
  BY <1>4, Zenon DEF SwimState
<1>. HIDE DEF v
<1>6. ObjectOK(n, v, mu)
  BY <1>2, <1>5, Zenon DEF ObjectOK
<1>. QED
  BY <1>2, <1>3, <1>5, <1>6

(* A nonempty set of naturals has a least element. *)
LEMMA LeastOf ==
    ASSUME NEW T \in SUBSET Nat, T # {}
    PROVE  \E x \in T : \A y \in T : x <= y
<1>1. PICK x \in T : \A y \in T : ~ (<<y, x>> \in OpToRel(<, Nat))
  BY WFMin, NatLessThanWellFounded, Zenon
<1>2. ASSUME NEW y \in T PROVE x <= y
  <2>1. <<y, x>> \in OpToRel(<, Nat) <=> y < x
    BY DEF OpToRel
  <2>2. ~ (y < x)
    BY <1>1, <2>1, Zenon
  <2>3. x \in Nat /\ y \in Nat
    OBVIOUS
  <2>. QED
    BY ONLY <2>2, <2>3
<1>. QED
  BY <1>2

(* Induction for one set: it holds 0 and, with k below L, also k + 1. *)
LEMMA UpTo ==
    ASSUME NEW L \in Nat, NEW T, 0 \in T, \A k \in 0 .. L : k \in T /\ k < L => k + 1 \in T
    PROVE  \A k \in 0 .. L : k \in T
<1>. DEFINE bad == {k \in 0 .. L : k \notin T}
<1>. SUFFICES ASSUME bad # {} PROVE FALSE
  OBVIOUS
<1>1. PICK x \in bad : \A y \in bad : x <= y
  <2>1. bad \in SUBSET Nat
    OBVIOUS
  <2>. HIDE DEF bad
  <2>. QED
    BY <2>1, LeastOf, Zenon
<1>2. x \in 0 .. L /\ x \notin T /\ x # 0
  OBVIOUS
<1>3. x - 1 \in 0 .. L /\ x - 1 < L /\ x - 1 + 1 = x
  BY <1>2
<1>4. x - 1 \in T
  <2>. SUFFICES ASSUME x - 1 \notin T PROVE FALSE
    OBVIOUS
  <2>1. x - 1 \in bad
    BY <1>3
  <2>2. x <= x - 1
    BY <1>1, <2>1
  <2>. QED
    BY <1>2, <2>2
<1>. QED
  BY <1>2, <1>3, <1>4

(* The fan-out is a sequence of sends, each of which keeps the call sound. *)
LEMMA IndirectOK ==
    ASSUME NEW n \in Node, NEW mu \in [Node -> Nat], NEW v \in SwimState,
           NEW c, CallOK(n, c, v, mu), NEW fanout, Len(fanout) \in Nat,
           \A i \in 1 .. Len(fanout) : fanout[i] \in Nat
    PROVE  CallOK(n, send_indirect_probes(n, c, fanout), v, mu)
<1>. DEFINE L == Len(fanout)
            Step(x, i) == send_swim(n, x, "PingReq", fanout[i], c.w.probe_id, c.w.probe_target)
            Body(f, i) == IF i = 0 THEN c ELSE Step(f[i - 1], i)
            g == CHOOSE f : f = [i \in 0 .. L |-> Body(f, i)]
            last == g[L]
<1>1. send_indirect_probes(n, c, fanout) = [last EXCEPT !.w.indirect_sent = TRUE]
  BY DEF send_indirect_probes
<1>2. L \in Nat
  OBVIOUS
<1>3. c.w \in SwimState /\ c.w.probe_id \in Nat /\ c.w.probe_target \in Nat
  BY CallParts, FieldTypes DEF CallOK
<1>4. \A x, i : CallOK(n, x, v, mu) /\ i \in 1 .. L => CallOK(n, Step(x, i), v, mu)
  BY <1>3, SendProbeOK, Zenon
<1>. HIDE DEF Step, L
<1>5. /\ \A f : Body(f, 0) = c
      /\ \A f : \A i \in 1 .. L : Body(f, i) = Step(f[i - 1], i)
  BY <1>2
<1>. HIDE DEF Body
<1>6. \E f : f = [i \in 0 .. L |-> Body(f, i)]
  <2>. DEFINE Upto(f, k) == \A i \in 0 .. k : f[i] = Body(f, i)
              T == {k \in 0 .. L : \E f : Upto(f, k)}
  <2>1. 0 \in T
    <3>. DEFINE f == [i \in {0} |-> c]
    <3>1. Upto(f, 0)
      BY <1>5
    <3>. HIDE DEF f, Upto
    <3>2. \E h : Upto(h, 0)
      BY <3>1
    <3>. QED
      BY <1>2, <3>2
  <2>2. ASSUME NEW k \in 0 .. L, k \in T, k < L PROVE k + 1 \in T
    <3>1. PICK f : Upto(f, k)
      <4>. HIDE DEF Upto
      <4>. QED
        BY <2>2
    <3>. DEFINE h == [i \in 0 .. k + 1 |-> IF i = k + 1 THEN Step(f[k], k + 1) ELSE f[i]]
    <3>2. ASSUME NEW i \in 0 .. k + 1 PROVE h[i] = Body(h, i)
      <4>1. CASE i = k + 1
        <5>1. h[i] = Step(f[k], k + 1) /\ h[i - 1] = f[k] /\ i \in 1 .. L
          BY <1>2, <2>2, <4>1
        <5>. HIDE DEF h
        <5>. QED
          BY <1>5, <4>1, <5>1
      <4>2. CASE i # k + 1 /\ i # 0
        <5>1. h[i - 1] = f[i - 1] /\ h[i] = f[i] /\ i \in 0 .. k /\ i \in 1 .. L
          BY <1>2, <2>2, <4>2
        <5>2. f[i] = Step(f[i - 1], i)
          BY <1>5, <3>1, <5>1
        <5>. HIDE DEF h
        <5>. QED
          BY <1>5, <5>1, <5>2
      <4>3. CASE i = 0
        <5>1. h[0] = f[0] /\ 0 \in 0 .. k
          BY <1>2
        <5>2. f[0] = c
          BY <1>5, <3>1, <5>1
        <5>. HIDE DEF h
        <5>. QED
          BY <1>5, <4>3, <5>1, <5>2
      <4>. QED
        BY <4>1, <4>2, <4>3
    <3>. HIDE DEF h
    <3>3. Upto(h, k + 1)
      BY <3>2
    <3>. HIDE DEF Upto
    <3>4. \E e : Upto(e, k + 1)
      BY <3>3
    <3>. QED
      BY <1>2, <2>2, <3>4
  <2>. HIDE DEF T
  <2>3. \A k \in 0 .. L : k \in T /\ k < L => k + 1 \in T
    BY <2>2
  <2>4. \A k \in 0 .. L : k \in T
    BY <1>2, <2>1, <2>3, UpTo, Zenon
  <2>5. L \in T
    BY <1>2, <2>4
  <2>6. PICK f : Upto(f, L)
    <3>. HIDE DEF Upto
    <3>. QED
      BY <2>5 DEF T
  <2>. DEFINE h == [i \in 0 .. L |-> f[i]]
  <2>7. \A i \in 0 .. L : h[i] = Body(h, i)
    <3>. SUFFICES ASSUME NEW i \in 0 .. L PROVE h[i] = Body(h, i)
      OBVIOUS
    <3>1. CASE i = 0
      <4>1. h[i] = c
        BY <1>5, <2>6, <3>1
      <4>. HIDE DEF h
      <4>. QED
        BY <1>5, <3>1, <4>1
    <3>2. CASE i # 0
      <4>1. h[i - 1] = f[i - 1] /\ h[i] = f[i] /\ i \in 1 .. L
        BY <1>2, <3>2
      <4>2. f[i] = Step(f[i - 1], i)
        BY <1>5, <2>6, <4>1
      <4>. HIDE DEF h
      <4>. QED
        BY <1>5, <4>1, <4>2
    <3>. QED
      BY <3>1, <3>2
  <2>8. h = [i \in 0 .. L |-> h[i]]
    BY Zenon
  <2>. HIDE DEF h
  <2>9. h = [i \in 0 .. L |-> Body(h, i)]
    BY <2>7, <2>8, Zenon
  <2>. QED
    BY <2>9, Zenon
<1>7. g = [i \in 0 .. L |-> Body(g, i)]
  BY <1>6, Zenon
<1>. HIDE DEF g
<1>8. CallOK(n, last, v, mu)
  <2>. DEFINE T == {k \in 0 .. L : CallOK(n, g[k], v, mu)}
  <2>1. 0 \in T
    <3>1. 0 \in 0 .. L
      BY <1>2
    <3>2. g[0] = c
      BY <1>5, <1>7, <3>1, Zenon
    <3>. QED
      BY <3>1, <3>2
  <2>2. ASSUME NEW k \in 0 .. L, k \in T, k < L PROVE k + 1 \in T
    <3>1. k + 1 \in 1 .. L /\ k + 1 \in 0 .. L /\ k + 1 - 1 = k
      BY <1>2, <2>2
    <3>2. g[k + 1] = Step(g[k + 1 - 1], k + 1)
      <4>1. g[k + 1] = Body(g, k + 1)
        BY <1>7, <3>1, Zenon
      <4>2. Body(g, k + 1) = Step(g[k + 1 - 1], k + 1)
        BY <1>5, <3>1, SMTT(30)
      <4>. QED
        BY <4>1, <4>2, Zenon
    <3>. QED
      BY <1>4, <2>2, <3>1, <3>2
  <2>. HIDE DEF T
  <2>3. \A k \in 0 .. L : k \in T /\ k < L => k + 1 \in T
    BY <2>2
  <2>4. \A k \in 0 .. L : k \in T
    BY <1>2, <2>1, <2>3, UpTo, Zenon
  <2>5. L \in T
    BY <1>2, <2>4
  <2>. QED
    BY <2>5 DEF T
<1>. HIDE DEF last
<1>. DEFINE x == [last.w EXCEPT !.indirect_sent = TRUE]
            d == [last EXCEPT !.w = x]
<1>9. last \in CallState /\ last.w \in SwimState
  BY <1>8, CallParts DEF CallOK
<1>10. /\ x \in SwimState /\ x.my_incarnation = last.w.my_incarnation
       /\ x.members = last.w.members /\ x.rumors = last.w.rumors
  BY <1>9, Zenon DEF SwimState
<1>11. d = [last EXCEPT !.w.indirect_sent = TRUE]
  OBVIOUS
<1>. HIDE DEF x
<1>12. d \in CallState /\ d.w = x /\ d.sent = last.sent
  BY <1>9, <1>10, CallFields
<1>. HIDE DEF d
<1>13. CallOK(n, d, v, mu)
  BY <1>8, <1>10, <1>12, CallFrame
<1>. QED
  BY <1>1, <1>11, <1>13

(* The fields of the probe in progress are not seen by the invariant. *)
LEMMA SetProbe ==
    ASSUME NEW n \in Node, NEW mu, NEW v \in SwimState, NEW c, CallOK(n, c, v, mu),
           NEW b \in BOOLEAN, NEW k \in Nat
    PROVE  /\ CallOK(n, [c EXCEPT !.w.probing = b], v, mu)
           /\ CallOK(n, [c EXCEPT !.w.indirect_sent = b], v, mu)
           /\ CallOK(n, [c EXCEPT !.w.probe_acked = b], v, mu)
           /\ CallOK(n, [c EXCEPT !.w.probe_target = k], v, mu)
           /\ CallOK(n, [c EXCEPT !.w.probe_id = k], v, mu)
           /\ CallOK(n, [c EXCEPT !.w.next_probe_id = k], v, mu)
<1>1. c \in CallState /\ c.w \in SwimState
  BY CallParts DEF CallOK
<1>2. ASSUME NEW x \in SwimState, x.my_incarnation = c.w.my_incarnation,
             x.members = c.w.members, x.rumors = c.w.rumors
      PROVE  CallOK(n, [c EXCEPT !.w = x], v, mu)
  <2>. DEFINE d == [c EXCEPT !.w = x]
  <2>1. d \in CallState /\ d.w = x /\ d.sent = c.sent
    BY <1>1, CallFields
  <2>. HIDE DEF d
  <2>2. CallOK(n, d, v, mu)
    BY <1>2, <2>1, CallFrame
  <2>. QED
    BY <2>2 DEF d
<1>. DEFINE Frame(x) == /\ x \in SwimState /\ x.my_incarnation = c.w.my_incarnation
                        /\ x.members = c.w.members /\ x.rumors = c.w.rumors
<1>3. Frame([c.w EXCEPT !.probing = b]) /\ Frame([c.w EXCEPT !.indirect_sent = b])
  BY <1>1, Zenon DEF SwimState
<1>4. Frame([c.w EXCEPT !.probe_acked = b]) /\ Frame([c.w EXCEPT !.probe_target = k])
  BY <1>1, Zenon DEF SwimState
<1>5. Frame([c.w EXCEPT !.probe_id = k]) /\ Frame([c.w EXCEPT !.next_probe_id = k])
  BY <1>1, Zenon DEF SwimState
<1>. QED
  BY <1>2, <1>3, <1>4, <1>5, Zenon

LEMMA PingTargetOK ==
    ASSUME NEW n \in Node, NEW mu \in [Node -> Nat], NEW v \in SwimState,
           NEW c, CallOK(n, c, v, mu), NEW target \in Nat
    PROVE  CallOK(n, PingTarget(n, c, target), v, mu)
<1>. DEFINE id == c.w.next_probe_id
            c1 == [c EXCEPT !.w.probing = TRUE]
            c2 == [c1 EXCEPT !.w.indirect_sent = FALSE]
            c3 == [c2 EXCEPT !.w.probe_acked = FALSE]
            c4 == [c3 EXCEPT !.w.probe_target = target]
            c5 == [c4 EXCEPT !.w.probe_id = id]
            c6 == [c5 EXCEPT !.w.next_probe_id = NextProbeId(id)]
<1>1. PingTarget(n, c, target) = send_swim(n, c6, "Ping", target, id, target)
  BY DEF PingTarget
<1>2. id \in Nat /\ NextProbeId(id) \in Nat
  BY CallParts, FieldTypes, NextProbeIdType DEF CallOK
<1>. HIDE DEF id
<1>3. CallOK(n, c1, v, mu)
  BY <1>2, SetProbe, Zenon
<1>. HIDE DEF c1
<1>4. CallOK(n, c2, v, mu)
  BY <1>2, <1>3, SetProbe, Zenon
<1>. HIDE DEF c2
<1>5. CallOK(n, c3, v, mu)
  BY <1>2, <1>4, SetProbe, Zenon
<1>. HIDE DEF c3
<1>6. CallOK(n, c4, v, mu)
  BY <1>5, SetProbe, Zenon
<1>. HIDE DEF c4
<1>7. CallOK(n, c5, v, mu)
  BY <1>2, <1>6, SetProbe, Zenon
<1>. HIDE DEF c5
<1>8. CallOK(n, c6, v, mu)
  BY <1>2, <1>7, SetProbe, Zenon
<1>. HIDE DEF c6
<1>. QED
  BY <1>1, <1>2, <1>8, SendProbeOK, Zenon

LEMMA ProbeDeadOK ==
    ASSUME NEW n \in Node, NEW mu \in [Node -> Nat], NEW v \in SwimState,
           NEW c, CallOK(n, c, v, mu), NEW dead \in DOMAIN c.w.members
    PROVE  CallOK(n, probe_one_dead(n, c, dead), v, mu)
<1>. DEFINE id == c.w.next_probe_id
            x == IF dead \in DOMAIN c.w.rumors THEN c.w
                 ELSE queue_rumor(c.w, dead, c.w.members[dead])
            y == [x EXCEPT !.next_probe_id = NextProbeId(id)]
            d == [c EXCEPT !.w = y]
<1>1. /\ c \in CallState /\ c.w \in SwimState /\ ObjectOK(n, c.w, mu)
      /\ id \in Nat /\ c.w.members \in Beliefs
  BY CallParts, FieldTypes DEF CallOK
<1>2. NextProbeId(id) \in Nat /\ dead \in Nat
  BY <1>1, NextProbeIdType, BeliefsType, NodeNat, SMTT(30)
<1>3. /\ ObjectOK(n, x, mu) /\ x.my_incarnation = c.w.my_incarnation
      /\ x.members = c.w.members
  <2>1. CASE dead \in DOMAIN c.w.rumors
    BY <1>1, <2>1, SMTT(30)
  <2>2. CASE dead \notin DOMAIN c.w.rumors
    <3>1. x = queue_rumor(c.w, dead, c.w.members[dead])
      BY <2>2
    <3>. HIDE DEF x
    <3>. QED
      BY <1>1, <3>1, QueueOK
  <2>. QED
    BY <2>1, <2>2, SMTT(30)
<1>4. probe_one_dead(n, c, dead) = send_swim(n, d, "Ping", dead, id, dead)
  BY DEF probe_one_dead
<1>. HIDE DEF x, id
<1>5. x \in SwimState
  BY <1>3 DEF ObjectOK
<1>6. /\ y \in SwimState /\ y.my_incarnation = x.my_incarnation /\ y.members = x.members
      /\ y.rumors = x.rumors
  BY <1>2, <1>5, Zenon DEF SwimState
<1>. HIDE DEF y
<1>7. ObjectOK(n, y, mu)
  BY <1>3, <1>6, Zenon DEF ObjectOK
<1>8. d \in CallState /\ d.w = y /\ d.sent = c.sent
  BY <1>1, <1>6, CallFields
<1>. HIDE DEF d
<1>9. CallOK(n, d, v, mu)
  <2>1. Later(c.w.members, y.members) /\ y.my_incarnation = c.w.my_incarnation
    BY <1>1, <1>3, <1>6, LaterReflexive, SMTT(30)
  <2>. QED
    BY <1>7, <1>8, <2>1, CallStep
<1>. QED
  BY <1>1, <1>2, <1>4, <1>9, SendProbeOK, Zenon

LEMMA StartOK ==
    ASSUME NEW n \in Node, NEW mu \in [Node -> Nat], NEW v \in SwimState,
           NEW c, CallOK(n, c, v, mu),
           NEW dead \in DOMAIN c.w.members \cup {None},
           NEW target \in DOMAIN c.w.members \cup {None}
    PROVE  CallOK(n, start_period(n, c, dead, target), v, mu)
<1>. DEFINE x == reinject_suspicions(c.w)
            c1 == [c EXCEPT !.w = x]
            c2 == IF dead = None THEN c1 ELSE probe_one_dead(n, c1, dead)
<1>1. c \in CallState /\ ObjectOK(n, c.w, mu) /\ c.w.members \in Beliefs
  BY CallParts, FieldTypes, SMTT(30) DEF CallOK
<1>2. /\ ObjectOK(n, x, mu) /\ x.my_incarnation = c.w.my_incarnation
      /\ x.members = c.w.members /\ x \in SwimState
  <2>1. ObjectOK(n, x, mu) /\ x.my_incarnation = c.w.my_incarnation /\ x.members = c.w.members
    BY <1>1, ReinjectOK
  <2>. QED
    BY <2>1 DEF ObjectOK
<1>3. start_period(n, c, dead, target) = IF target = None THEN c2 ELSE PingTarget(n, c2, target)
  BY DEF start_period
<1>4. target \in Nat
  BY <1>1, BeliefsType, NodeNat DEF None
<1>. HIDE DEF x
<1>5. c1 \in CallState /\ c1.w = x /\ c1.sent = c.sent
  BY <1>1, <1>2, CallFields
<1>. HIDE DEF c1
<1>6. CallOK(n, c1, v, mu)
  <2>1. Later(c.w.members, x.members)
    BY <1>1, <1>2, LaterReflexive
  <2>. QED
    BY <1>2, <1>5, <2>1, CallStep
<1>7. CallOK(n, c2, v, mu)
  <2>1. CASE dead = None
    BY <1>6, <2>1
  <2>2. CASE dead # None
    <3>1. dead \in DOMAIN c1.w.members
      BY <1>2, <1>5, <2>2
    <3>. QED
      BY <1>6, <2>2, <3>1, ProbeDeadOK, SMTT(30)
  <2>. QED
    BY <2>1, <2>2
<1>. HIDE DEF c2
<1>. QED
  BY <1>3, <1>4, <1>7, PingTargetOK, SMTT(30)

-----------------------------------------------------------------------------
(* The public calls.                                                       *)

LEMMA NewCall ==
    ASSUME NEW n, NEW mu, NEW v, ObjectOK(n, v, mu)
    PROVE  CallOK(n, Call(v), v, mu)
<1>1. v \in SwimState /\ v.members \in Beliefs
  BY FieldTypes DEF ObjectOK
<1>2. Call(v) \in CallState /\ Call(v).w = v /\ Call(v).sent = {}
  BY <1>1 DEF Call, CallState
<1>3. Later(v.members, v.members)
  BY <1>1, LaterReflexive
<1>. QED
  BY <1>2, <1>3, Zenon DEF CallOK

LEMMA PollOK ==
    ASSUME NEW n \in Node, NEW mu \in [Node -> Nat], NEW w, ObjectOK(n, w, mu),
           NEW p, PacketOK(p, mu), NEW r \in poll(n, w, p)
    PROVE  \E v \in SwimState : /\ CallOK(n, r, v, Raised(mu, n, v.my_incarnation))
                                /\ Later(w.members, v.members)
<1>. DEFINE u == Accuse(w, p.from)
            v == apply_rumor(n, u, p.gossip)
            nu == Raised(mu, n, v.my_incarnation)
            c == Call(v)
<1>1. p \in Packet /\ p.gossip \in Beliefs /\ Bounded(p.gossip, mu)
  BY PacketFields DEF PacketOK
<1>2. ObjectOK(n, u, mu) /\ u.members = w.members
  BY AccuseOK
<1>. HIDE DEF u
<1>3. ObjectOK(n, v, nu) /\ v.my_incarnation \in Nat /\ Later(u.members, v.members)
  BY <1>1, <1>2, ApplyOK, Zenon
<1>4. \/ p.type = "Ping" /\ r = handle_ping(n, c, p)
      \/ p.type = "PingReq" /\ r = handle_ping_req(n, c, p)
      \/ p.type = "Pong" /\ r = handle_pong(n, c, p)
      \/ p.type = "Join" /\ r \in handle_join(n, c, p)
  <2>1. p.type \in {"Ping", "PingReq", "Pong", "Join"}
    BY <1>1, PacketFields
  <2>2. poll(n, w, p) = CASE p.type = "Ping" -> {handle_ping(n, c, p)}
                          [] p.type = "PingReq" -> {handle_ping_req(n, c, p)}
                          [] p.type = "Pong" -> {handle_pong(n, c, p)}
                          [] p.type = "Join" -> handle_join(n, c, p)
    BY Zenon DEF poll, u
  <2>. HIDE DEF c
  <2>. QED
    BY <2>1, <2>2
<1>. HIDE DEF v
<1>5. v \in SwimState /\ nu \in [Node -> Nat] /\ \A s \in Node : mu[s] <= nu[s]
  BY <1>3, RaisedType, SMTT(30) DEF ObjectOK
<1>. HIDE DEF nu
<1>6. PacketOK(p, nu)
  <2>1. Bounded(p.gossip, nu)
    BY <1>1, <1>5, BoundedMonotone, SMTT(30)
  <2>2. p.type = "Join" => p.probe_id <= nu[p.from]
    BY <1>1, <1>5, PacketFields DEF PacketOK
  <2>. QED
    BY <1>1, <2>1, <2>2 DEF PacketOK
<1>7. CallOK(n, c, v, nu)
  BY <1>3, NewCall
<1>. HIDE DEF c
<1>8. CallOK(n, r, v, nu)
  BY <1>1, <1>4, <1>5, <1>6, <1>7, PingOK, PingReqOK, PongOK, JoinOK, Zenon
<1>. QED
  BY <1>2, <1>3, <1>5, <1>8, Zenon DEF nu

LEMMA TickOK ==
    ASSUME NEW n \in Node, NEW mu \in [Node -> Nat], NEW w, ObjectOK(n, w, mu),
           NEW expired \in SUBSET InState(w, Suspect), NEW stale,
           NEW ping_due \in BOOLEAN, NEW period_due \in BOOLEAN,
           NEW r \in tick(n, w, expired, stale, ping_due, period_due)
    PROVE  CallOK(n, r, w, mu)
<1>. DEFINE w1 == expire_suspects(n, w, expired)
            rest == Without(w1.relays, stale)
            w2 == [w1 EXCEPT !.relays = rest]
            c1 == Call(w2)
            indirect == w1.probing /\ ~ w1.indirect_sent /\ ~ w1.probe_acked /\ ping_due
            Probed == IF indirect THEN {send_indirect_probes(n, c1, f) : f \in Fanouts(w1)}
                                  ELSE {c1}
            Ended(c) == IF c.w.probing /\ period_due
                        THEN [c EXCEPT !.w = conclude_period(n, @)] ELSE c
            Started(c) == {start_period(n, c, dead, target) :
                             dead \in OrNone(InState(c.w, Dead)),
                             target \in OrNone(DOMAIN c.w.members \ InState(c.w, Dead))}
<1>1. /\ ObjectOK(n, w1, mu) /\ w1.my_incarnation = w.my_incarnation
      /\ Later(w.members, w1.members)
  BY ExpireOK
<1>2. PICK c2 \in Probed :
        r \in IF Ended(c2).w.probing \/ ~ period_due THEN {Ended(c2)} ELSE Started(Ended(c2))
  <2>1. tick(n, w, expired, stale, ping_due, period_due)
          = UNION {IF c.w.probing \/ ~ period_due THEN {c} ELSE Started(c) :
                     c \in {Ended(c) : c \in Probed}}
    BY DEF tick
  <2>. HIDE DEF Probed, Ended, Started
  <2>. QED
    BY <2>1
<1>. HIDE DEF w1
<1>3. w \in SwimState /\ w1 \in SwimState /\ w1.relays \in Relays /\ w1.members \in Beliefs
  BY <1>1, FieldTypes DEF ObjectOK
<1>4. rest \in Relays
  <2>1. rest \in [DOMAIN w1.relays \ stale -> Relay] /\ DOMAIN w1.relays \ stale \in SUBSET Nat
    BY <1>3, RelaysType DEF Without
  <2>. QED
    BY <2>1, RelaysType, Zenon
<1>. HIDE DEF rest
<1>5. /\ w2 \in SwimState /\ w2.my_incarnation = w1.my_incarnation
      /\ w2.members = w1.members /\ w2.rumors = w1.rumors
  BY <1>3, <1>4, Zenon DEF SwimState
<1>. HIDE DEF w2
<1>6. CallOK(n, c1, w, mu)
  <2>1. ObjectOK(n, w2, mu)
    BY <1>1, <1>5, Zenon DEF ObjectOK
  <2>2. c1 \in CallState /\ c1.w = w2 /\ c1.sent = {}
    BY <1>5 DEF Call, CallState
  <2>. HIDE DEF c1
  <2>. QED
    BY <1>1, <1>5, <2>1, <2>2, Zenon DEF CallOK
<1>. HIDE DEF c1
<1>7. CallOK(n, c2, w, mu)
  <2>1. CASE c2 = c1
    BY <1>6, <2>1
  <2>2. ASSUME NEW f \in Fanouts(w1), c2 = send_indirect_probes(n, c1, f)
        PROVE  CallOK(n, c2, w, mu)
    <3>. DEFINE pool == InState(w1, Alive) \ {w1.probe_target}
                size == MinOf(K, Cardinality(pool))
    <3>1. pool \subseteq Nat /\ IsFiniteSet(pool)
      <4>1. pool \subseteq Node
        BY <1>3, BeliefsType, SMTT(30) DEF InState
      <4>. HIDE DEF pool
      <4>2. pool \subseteq Nat
        BY <4>1, NodeNat
      <4>3. IsFiniteSet(pool)
        BY <4>1, NodeAssumption, FS_Subset, Zenon
      <4>. QED
        BY <4>2, <4>3
    <3>2. f \in [1 .. size -> pool]
      BY Zenon DEF Fanouts
    <3>. HIDE DEF pool
    <3>3. size \in Nat
      BY <3>1, FS_CardinalityType, LimitAssumption, SMTT(30) DEF MinOf
    <3>. HIDE DEF size
    <3>4. f \in Seq(Nat)
      <4>1. f \in [1 .. size -> Nat]
        BY <3>1, <3>2, Zenon
      <4>. QED
        BY <3>3, <4>1, SeqDef, SMTT(30)
    <3>5. Len(f) \in Nat /\ \A i \in 1 .. Len(f) : f[i] \in Nat
      BY <3>4
    <3>. QED
      BY <1>3, <1>6, <2>2, <3>5, IndirectOK, SMTT(30)
  <2>. QED
    BY <2>1, <2>2, Zenon
<1>. DEFINE c3 == Ended(c2)
<1>8. CallOK(n, c3, w, mu)
  <2>1. CASE c3 = c2
    BY <1>7, <2>1
  <2>2. CASE c3 = [c2 EXCEPT !.w = conclude_period(n, c2.w)]
    <3>. DEFINE x == conclude_period(n, c2.w)
    <3>1. c2 \in CallState /\ ObjectOK(n, c2.w, mu)
      BY <1>7 DEF CallOK
    <3>2. /\ ObjectOK(n, x, mu) /\ x.my_incarnation = c2.w.my_incarnation
          /\ Later(c2.w.members, x.members)
      BY <3>1, ConcludeOK, SMTT(30)
    <3>. HIDE DEF x, c3
    <3>3. x \in SwimState
      BY <3>2 DEF ObjectOK
    <3>4. c3 \in CallState /\ c3.w = x /\ c3.sent = c2.sent
      BY <2>2, <3>1, <3>3, CallFields DEF x
    <3>. QED
      BY <1>3, <1>7, <3>2, <3>4, CallStep, SMTT(30)
  <2>. QED
    BY <2>1, <2>2, Zenon
<1>. HIDE DEF Ended, Probed
<1>9. CASE r = c3
  BY <1>8, <1>9
<1>. HIDE DEF c3
<1>10. ASSUME NEW dead \in OrNone(InState(c3.w, Dead)),
              NEW target \in OrNone(DOMAIN c3.w.members \ InState(c3.w, Dead)),
              r = start_period(n, c3, dead, target)
       PROVE  CallOK(n, r, w, mu)
  <2>1. /\ dead \in DOMAIN c3.w.members \cup {None}
        /\ target \in DOMAIN c3.w.members \cup {None}
    BY <1>10, SMTT(30) DEF OrNone, InState
  <2>. QED
    BY <1>3, <1>8, <1>10, <2>1, StartOK, Zenon
<1>11. CASE r \in Started(c3)
  <2>1. PICK dead \in OrNone(InState(c3.w, Dead)),
             target \in OrNone(DOMAIN c3.w.members \ InState(c3.w, Dead)) :
               r = start_period(n, c3, dead, target)
    BY <1>11, SMTT(30)
  <2>. QED
    BY <1>10, <2>1, SMTT(30)
<1>. HIDE DEF Started
<1>12. r = c3 \/ r \in Started(c3)
  BY <1>2 DEF c3
<1>. QED
  BY <1>9, <1>11, <1>12

(* A step of one node takes effect: the invariant holds again, and the     *)
(* table of that node went forward.                                        *)
Forward == \A m \in up \cap up' : Later(swim[m].members, swim'[m].members)

LEMMA ReturnOK ==
    ASSUME SwimInv, NEW n \in Node, NEW c, NEW left \in SUBSET net,
           Return(n, c, left), NEW v \in SwimState, Later(swim[n].members, v.members),
           CallOK(n, c, v, Raised(minted, n, v.my_incarnation))
    PROVE  SwimInv' /\ Forward
<1>. DEFINE mu == Raised(minted, n, v.my_incarnation)
<1>1. /\ swim' = [swim EXCEPT ![n] = c.w] /\ net' = left \cup c.sent
      /\ minted' = Raised(minted, n, c.w.my_incarnation) /\ up' = up
  BY Zenon DEF Return, Raised
<1>2. /\ c \in CallState /\ c.w.my_incarnation = v.my_incarnation /\ ObjectOK(n, c.w, mu)
      /\ Later(v.members, c.w.members) /\ \A p \in c.sent : PacketOK(p, mu)
  BY SMTT(30) DEF CallOK
<1>3. minted' = mu
  BY <1>1, <1>2
<1>4. /\ swim \in [Node -> SwimState] /\ minted \in [Node -> Nat]
      /\ \A m \in Node : ObjectOK(m, swim[m], minted)
      /\ \A p \in net : PacketOK(p, minted)
      /\ up \subseteq Node
  BY SMTT(30) DEF SwimInv
<1>5. v.my_incarnation \in Nat /\ v.members \in Beliefs /\ c.w.members \in Beliefs
      /\ c.w \in SwimState
  BY <1>2, CallParts, FieldTypes, ZenonT(60)
<1>6. mu \in [Node -> Nat] /\ \A s \in Node : minted[s] <= mu[s]
  BY <1>4, <1>5, RaisedType, SMTT(30)
<1>. HIDE DEF mu
<1>7. /\ swim' \in [Node -> SwimState] /\ swim'[n] = c.w
      /\ \A m \in Node : m # n => swim'[m] = swim[m]
  BY <1>1, <1>4, <1>5, SMTT(30)
<1>8. ASSUME NEW m \in Node PROVE ObjectOK(m, swim'[m], mu)
  <2>1. CASE m = n
    BY <1>2, <1>7, <2>1, Zenon
  <2>2. CASE m # n
    <3>1. ObjectOK(m, swim[m], minted)
      BY <1>4
    <3>2. Bounded(swim[m].members, mu)
      BY <1>4, <1>6, <3>1, BoundedMonotone, FieldTypes, SMTT(30) DEF ObjectOK
    <3>3. swim[m].my_incarnation <= mu[m]
      BY <1>4, <1>6, <3>1, FieldTypes DEF ObjectOK
    <3>4. ObjectOK(m, swim[m], mu)
      BY <3>1, <3>2, <3>3, Zenon DEF ObjectOK
    <3>. QED
      BY <1>7, <2>2, <3>4, Zenon
  <2>. QED
    BY <2>1, <2>2
<1>9. ASSUME NEW p \in net PROVE PacketOK(p, mu)
  <2>1. p \in Packet /\ p.gossip \in Beliefs /\ p.from \in Node /\ PacketOK(p, minted)
        /\ p.probe_id \in Nat
    BY <1>4, PacketFields DEF PacketOK
  <2>2. Bounded(p.gossip, mu)
    BY <1>4, <1>6, <2>1, BoundedMonotone, SMTT(30) DEF PacketOK
  <2>3. p.type = "Join" => p.probe_id <= mu[p.from]
    BY <1>4, <1>6, <2>1, SMTT(30) DEF PacketOK
  <2>. QED
    BY <2>1, <2>2, <2>3, SMTT(30) DEF PacketOK
<1>10. \A p \in net' : PacketOK(p, mu)
  BY <1>1, <1>2, <1>9
<1>11. SwimInv'
  BY <1>1, <1>3, <1>4, <1>6, <1>7, <1>8, <1>10, Zenon DEF SwimInv
<1>12. Later(swim[n].members, swim'[n].members)
  <2>1. swim[n].members \in Beliefs
    BY <1>4, FieldTypes, SMTT(30)
  <2>2. Later(swim[n].members, c.w.members)
    BY <1>2, <1>5, <2>1, LaterTransitive, ZenonT(60)
  <2>. QED
    BY <1>7, <2>2, Zenon
<1>13. ASSUME NEW m \in Node PROVE Later(swim[m].members, swim'[m].members)
  <2>1. CASE m = n
    BY <1>12, <2>1, SMTT(30)
  <2>2. CASE m # n
    <3>1. swim[m].members \in Beliefs /\ swim'[m] = swim[m]
      BY <1>4, <1>7, <2>2, FieldTypes, SMTT(30)
    <3>. QED
      BY <3>1, LaterReflexive, SMTT(30)
  <2>. QED
    BY <2>1, <2>2, SMTT(30)
<1>14. Forward
  <2>. SUFFICES ASSUME NEW m \in up \cap up' PROVE Later(swim[m].members, swim'[m].members)
    BY Zenon DEF Forward
  <2>1. m \in Node
    BY <1>4
  <2>. QED
    BY <1>13, <2>1
<1>. QED
  BY <1>11, <1>14

(* A fresh object knows nothing above incarnation 0. *)
LEMMA FreshOK ==
    ASSUME NEW n \in Node, NEW peers \in SUBSET Node, NEW mu \in [Node -> Nat]
    PROVE  ObjectOK(n, Fresh(n, peers), mu)
<1>. DEFINE w == Fresh(n, peers)
            members == [s \in peers \ {n} |-> At(Alive, 0)]
            rumors == [s \in {n} |-> NewRumor(At(Alive, 0))]
            relays == [i \in {} |-> 0]
<1>1. /\ w.my_incarnation = 0 /\ w.members = members /\ w.rumors = rumors
      /\ w.relays = relays
  BY DEF Fresh
<1>2. At(Alive, 0) \in Belief /\ At(Alive, 0).state = Alive /\ At(Alive, 0).incarnation = 0
  BY AtType DEF Alive, Dead
<1>3. NewRumor(At(Alive, 0)) \in Rumor /\ Agrees(NewRumor(At(Alive, 0)), Alive, 0)
  BY <1>2, NewRumorType
<1>4. members \in Beliefs
  <2>1. members \in [peers \ {n} -> Belief] /\ peers \ {n} \in SUBSET Node
    BY <1>2
  <2>. QED
    BY <2>1, BeliefsType, Zenon
<1>5. rumors \in Rumors
  <2>1. rumors \in [{n} -> Rumor] /\ {n} \in SUBSET Node
    BY <1>3
  <2>. QED
    BY <2>1, RumorsType, Zenon
<1>6. relays \in Relays
  <2>1. relays \in [{} -> Relay] /\ {} \in SUBSET Nat
    OBVIOUS
  <2>. QED
    BY <2>1, RelaysType, Zenon
<1>7. Bounded(members, mu)
  <2>. SUFFICES ASSUME NEW s \in peers \ {n} PROVE members[s].incarnation <= mu[s]
    BY DEF Bounded
  <2>1. members[s].incarnation = 0 /\ mu[s] \in Nat
    BY <1>2
  <2>. QED
    BY <2>1
<1>8. RumorsOK(n, 0, members, rumors)
  BY <1>3 DEF RumorsOK
<1>. HIDE DEF members, rumors, relays
<1>9. w \in SwimState
  <2>1. 1 % ProbeIds \in Nat /\ 0 \in Nat /\ None \in Nat
    BY LimitAssumption, SMTT(30) DEF None
  <2>2. w = [my_incarnation |-> 0, members |-> members, rumors |-> rumors, relays |-> relays,
             probing |-> FALSE, indirect_sent |-> FALSE, probe_acked |-> FALSE,
             probe_target |-> None, probe_id |-> 0, next_probe_id |-> 1 % ProbeIds]
    BY DEF Fresh, members, rumors, relays
  <2>. HIDE DEF w
  <2>. QED
    BY <1>4, <1>5, <1>6, <2>1, <2>2, Zenon DEF SwimState
<1>10. n \notin DOMAIN members /\ 0 <= mu[n]
  BY DEF members
<1>. HIDE DEF w
<1>11. ObjectOK(n, w, mu)
  BY <1>1, <1>7, <1>8, <1>9, <1>10, Zenon DEF ObjectOK
<1>. QED
  BY <1>11, SMTT(30) DEF w

-----------------------------------------------------------------------------
(* Every step keeps the invariant.                                         *)

LEMMA InvFacts ==
    ASSUME SwimInv, NEW n \in Node
    PROVE  /\ swim[n] \in SwimState /\ swim[n].members \in Beliefs
           /\ swim[n].my_incarnation \in Nat /\ swim[n].my_incarnation <= minted[n]
           /\ ObjectOK(n, swim[n], minted) /\ minted \in [Node -> Nat]
           /\ Later(swim[n].members, swim[n].members)
           /\ Raised(minted, n, swim[n].my_incarnation) = minted
<1>1. ObjectOK(n, swim[n], minted) /\ minted \in [Node -> Nat]
  BY DEF SwimInv
<1>2. swim[n] \in SwimState /\ swim[n].my_incarnation <= minted[n]
  BY <1>1 DEF ObjectOK
<1>3. swim[n].members \in Beliefs /\ swim[n].my_incarnation \in Nat
  BY <1>2, FieldTypes
<1>. QED
  BY <1>1, <1>2, <1>3, LaterReflexive, RaisedType

LEMMA AddMemberStep ==
    ASSUME SwimInv, NEW n \in Node, NEW peer \in Node, AddMember(n, peer)
    PROVE  SwimInv' /\ Forward
<1>. DEFINE w == swim[n]
            members == Put(w.members, peer, At(Alive, 0))
            v == [w EXCEPT !.members = members]
<1>1. Return(n, Call(v), net) /\ peer \notin DOMAIN w.members /\ peer # n
  BY DEF AddMember
<1>2. /\ w \in SwimState /\ w.members \in Beliefs /\ ObjectOK(n, w, minted)
      /\ minted \in [Node -> Nat] /\ Raised(minted, n, w.my_incarnation) = minted
  BY InvFacts
<1>. HIDE DEF w
<1>3. At(Alive, 0) \in Belief /\ At(Alive, 0).incarnation = 0
  BY AtType DEF Alive, Dead
<1>4. members \in Beliefs
  <2>1. members \in [DOMAIN w.members \cup {peer} -> Belief]
    BY <1>2, <1>3, BeliefsType DEF Put
  <2>2. DOMAIN w.members \cup {peer} \in SUBSET Node
    BY <1>2, BeliefsType
  <2>. QED
    BY <2>1, <2>2, BeliefsType, Zenon
<1>5. /\ DOMAIN members = DOMAIN w.members \cup {peer} /\ members[peer] = At(Alive, 0)
      /\ \A s \in DOMAIN w.members : members[s] = w.members[s]
  BY <1>1 DEF Put
<1>. HIDE DEF members
<1>6. Bounded(members, minted)
  <2>. SUFFICES ASSUME NEW s \in DOMAIN members PROVE members[s].incarnation <= minted[s]
    BY DEF Bounded
  <2>1. CASE s = peer
    BY <1>2, <1>3, <1>5, <2>1, SMTT(30)
  <2>2. CASE s # peer
    BY <1>2, <1>5, <2>2 DEF ObjectOK, Bounded
  <2>. QED
    BY <2>1, <2>2
<1>7. Later(w.members, members)
  <2>1. Later(w.members, w.members)
    BY <1>2, LaterReflexive
  <2>. QED
    BY <1>5, <2>1, Zenon DEF Later
<1>8. /\ v \in SwimState /\ v.my_incarnation = w.my_incarnation /\ v.members = members
      /\ v.rumors = w.rumors
  BY <1>2, <1>4, Zenon DEF SwimState
<1>. HIDE DEF v
<1>9. RumorsOK(n, w.my_incarnation, members, w.rumors)
  BY <1>2, <1>5, Zenon DEF RumorsOK, ObjectOK
<1>10. ObjectOK(n, v, minted)
  BY <1>1, <1>2, <1>5, <1>6, <1>8, <1>9, Zenon DEF ObjectOK
<1>11. CallOK(n, Call(v), v, Raised(minted, n, v.my_incarnation))
  BY <1>2, <1>8, <1>10, NewCall, Zenon
<1>12. Later(swim[n].members, v.members)
  BY <1>7, <1>8 DEF w
<1>. QED
  BY <1>1, <1>8, <1>11, <1>12, ReturnOK, Zenon

LEMMA JoinStep ==
    ASSUME SwimInv, NEW n \in Node, NEW introducer \in Node, Join(n, introducer)
    PROVE  SwimInv' /\ Forward
<1>. DEFINE w == swim[n]
            c == send_swim(n, Call(w), "Join", introducer, w.my_incarnation, n)
<1>1. Return(n, c, net)
  BY DEF Join
<1>2. /\ w \in SwimState /\ w.my_incarnation \in Nat /\ w.my_incarnation <= minted[n]
      /\ ObjectOK(n, w, minted) /\ minted \in [Node -> Nat]
      /\ Later(w.members, w.members) /\ Raised(minted, n, w.my_incarnation) = minted
  BY InvFacts, SMTT(30)
<1>3. CallOK(n, Call(w), w, minted)
  BY <1>2, NewCall
<1>4. n \in Nat /\ introducer \in Nat /\ "Join" \in {"Ping", "PingReq", "Pong", "Join"}
  BY NodeNat
<1>5. CallOK(n, c, w, minted)
  BY <1>2, <1>3, <1>4, SendOK, Zenon
<1>. HIDE DEF c
<1>6. CallOK(n, c, w, Raised(minted, n, w.my_incarnation))
  BY <1>2, <1>5, Zenon
<1>. QED
  BY <1>1, <1>2, <1>6, ReturnOK, Zenon

LEMMA ReceiveStep ==
    ASSUME SwimInv, NEW n \in Node, NEW p \in net, NEW left \in SUBSET net, Receive(n, p, left)
    PROVE  SwimInv' /\ Forward
<1>1. PICK c \in poll(n, swim[n], p) : Return(n, c, left)
  BY Zenon DEF Receive
<1>2. ObjectOK(n, swim[n], minted) /\ minted \in [Node -> Nat] /\ PacketOK(p, minted)
  BY InvFacts DEF SwimInv
<1>3. PICK v \in SwimState : /\ CallOK(n, c, v, Raised(minted, n, v.my_incarnation))
                             /\ Later(swim[n].members, v.members)
  BY <1>1, <1>2, PollOK, Zenon
<1>. QED
  BY <1>1, <1>3, ReturnOK, Zenon

LEMMA TickStep ==
    ASSUME SwimInv, NEW n \in Node, NEW expired \in SUBSET InState(swim[n], Suspect),
           NEW stale, NEW ping_due \in BOOLEAN, NEW period_due \in BOOLEAN,
           Tick(n, expired, stale, ping_due, period_due)
    PROVE  SwimInv' /\ Forward
<1>. DEFINE w == swim[n]
<1>1. PICK c \in tick(n, w, expired, stale, ping_due, period_due) : Return(n, c, net)
  BY Zenon DEF Tick
<1>2. /\ w \in SwimState /\ ObjectOK(n, w, minted) /\ minted \in [Node -> Nat]
      /\ Later(w.members, w.members) /\ Raised(minted, n, w.my_incarnation) = minted
  BY InvFacts, ZenonT(30)
<1>3. CallOK(n, c, w, minted)
  BY <1>1, <1>2, TickOK, Zenon
<1>4. CallOK(n, c, w, Raised(minted, n, w.my_incarnation))
  BY <1>2, <1>3, Zenon
<1>. QED
  BY <1>1, <1>2, <1>4, ReturnOK, Zenon

(* The network loses, a node crashes, or nothing happens. *)
LEMMA IdleStep ==
    ASSUME SwimInv, swim' = swim, minted' = minted, net' \subseteq net, up' \subseteq Node
    PROVE  SwimInv' /\ Forward
<1>1. SwimInv'
  BY Zenon DEF SwimInv
<1>2. \A m \in Node : Later(swim[m].members, swim[m].members)
  BY InvFacts
<1>. QED
  BY <1>1, <1>2, Zenon DEF Forward

LEMMA RestartStep ==
    ASSUME SwimInv, NEW n \in Node, Restart(n)
    PROVE  SwimInv' /\ Forward
<1>. DEFINE w == Fresh(n, {})
<1>1. /\ n \notin up /\ up' = up \cup {n} /\ swim' = [swim EXCEPT ![n] = w]
      /\ minted' = minted /\ net' = net
  BY Zenon DEF Restart
<1>2. ObjectOK(n, w, minted)
  BY InvFacts, FreshOK
<1>. HIDE DEF w
<1>3. w \in SwimState /\ swim \in [Node -> SwimState] /\ up \subseteq Node
  BY <1>2 DEF ObjectOK, SwimInv
<1>4. /\ swim' \in [Node -> SwimState] /\ swim'[n] = w
      /\ \A m \in Node : m # n => swim'[m] = swim[m]
  BY <1>1, <1>3
<1>5. \A m \in Node : ObjectOK(m, swim'[m], minted)
  BY <1>2, <1>4, InvFacts, Zenon
<1>6. SwimInv'
  BY <1>1, <1>3, <1>4, <1>5, Zenon DEF SwimInv
<1>7. \A m \in up : m # n /\ Later(swim[m].members, swim[m].members)
  BY <1>1, <1>3, InvFacts
<1>8. Forward
  BY <1>3, <1>4, <1>7, Zenon DEF Forward
<1>. QED
  BY <1>6, <1>8

LEMMA NextStep == SwimInv /\ [Next]_vars => SwimInv' /\ Forward
<1>. SUFFICES ASSUME SwimInv, [Next]_vars PROVE SwimInv' /\ Forward
  OBVIOUS
<1>1. up \subseteq Node
  BY DEF SwimInv
<1>2. CASE UNCHANGED vars
  BY <1>1, <1>2, IdleStep DEF vars
<1>3. CASE Lose
  <2>1. net' \subseteq net /\ swim' = swim /\ minted' = minted /\ up' = up
    BY <1>3 DEF Lose
  <2>. QED
    BY <1>1, <2>1, IdleStep
<1>4. ASSUME NEW n \in Node, Crash(n) PROVE SwimInv' /\ Forward
  <2>1. net' = net /\ swim' = swim /\ minted' = minted /\ up' = up \ {n}
    BY <1>4 DEF Crash
  <2>. QED
    BY <1>1, <2>1, IdleStep
<1>5. ASSUME NEW n \in Node, NEW p \in net, Receive(n, p, net) \/ Receive(n, p, net \ {p})
      PROVE  SwimInv' /\ Forward
  <2>1. net \in SUBSET net /\ net \ {p} \in SUBSET net
    OBVIOUS
  <2>. QED
    BY <1>5, <2>1, ReceiveStep, Zenon
<1>6. CASE Next /\ ~Lose
  <2>1. PICK n \in Node :
          \/ \E peer \in Node : AddMember(n, peer) \/ Join(n, peer)
          \/ \E p \in net : Receive(n, p, net) \/ Receive(n, p, net \ {p})
          \/ \E expired \in SUBSET InState(swim[n], Suspect),
                stale \in SUBSET DOMAIN swim[n].relays, ping_due, period_due \in BOOLEAN :
                  Tick(n, expired, stale, ping_due, period_due)
          \/ Crash(n) \/ Restart(n)
    BY <1>6, Zenon DEF Next
  <2>. QED
    BY <1>4, <1>5, <2>1, AddMemberStep, JoinStep, TickStep, RestartStep, Zenon
<1>. QED
  BY <1>2, <1>3, <1>6

(* Whatever the network loses, repeats or reorders, and however processes  *)
(* crash and restart at incarnation 0, the calls of swim.cc keep the       *)
(* invariant, in a cluster of any size.                                    *)
THEOREM SwimInvariance == Spec => []SwimInv
<1>1. Init => SwimInv
  <2>. SUFFICES ASSUME Init PROVE SwimInv
    OBVIOUS
  <2>1. minted \in [Node -> Nat] /\ net = {} /\ up = Node
    BY DEF Init
  <2>2. \A n \in Node : swim[n] = Fresh(n, Seeds[n]) /\ Seeds[n] \in SUBSET Node
    BY SeedAssumption, Zenon DEF Init
  <2>3. \A n \in Node : ObjectOK(n, swim[n], minted)
    BY <2>1, <2>2, FreshOK, Zenon
  <2>4. \A n \in Node : swim[n] \in SwimState
    BY <2>3, Zenon DEF ObjectOK
  <2>5. swim = [n \in Node |-> swim[n]]
    BY Zenon DEF Init
  <2>6. swim \in [Node -> SwimState]
    BY <2>4, <2>5, Zenon
  <2>. QED
    BY <2>1, <2>3, <2>6 DEF SwimInv
<1>. QED
  BY <1>1, NextStep, PTL DEF Spec

(* Only the subject mints incarnations: apply_rumor raises my_incarnation  *)
(* for an accusation of the node itself, and no other call writes an       *)
(* incarnation it has not read.                                            *)
THEOREM MintedBySubject == Spec => []OnlySubjectMints
<1>1. SwimInv => OnlySubjectMints
  <2>. SUFFICES ASSUME SwimInv, NEW s \in Node
                PROVE  /\ swim[s].my_incarnation <= minted[s]
                       /\ \A n \in Node : s \in DOMAIN swim[n].members =>
                                            swim[n].members[s].incarnation <= minted[s]
                       /\ \A p \in net : s \in DOMAIN p.gossip =>
                                            p.gossip[s].incarnation <= minted[s]
    BY SMTT(30) DEF OnlySubjectMints
  <2>. QED
    BY Zenon DEF SwimInv, ObjectOK, PacketOK, Bounded
<1>. QED
  BY <1>1, SwimInvariance, PTL

(* What a node passes on is what it believes, although queue_rumor,        *)
(* apply_rumor, reinject_suspicions and the budgets all write the rumors.  *)
THEOREM RumorsRepeatTable == Spec => []RumorsAgree
<1>1. SwimInv => RumorsAgree
  <2>. SUFFICES ASSUME SwimInv, NEW n \in Node, NEW s \in DOMAIN swim[n].rumors
                PROVE  At(swim[n].rumors[s].state, swim[n].rumors[s].incarnation) =
                         IF s = n THEN At(Alive, swim[n].my_incarnation) ELSE swim[n].members[s]
    BY SMTT(30) DEF RumorsAgree
  <2>1. /\ RumorsOK(n, swim[n].my_incarnation, swim[n].members, swim[n].rumors)
        /\ swim[n].members \in Beliefs
    BY InvFacts DEF ObjectOK
  <2>2. CASE s = n
    BY <2>1, <2>2, Zenon DEF RumorsOK, Agrees
  <2>3. CASE s # n
    <3>. DEFINE b == swim[n].members[s]
    <3>1. /\ s \in DOMAIN swim[n].members /\ swim[n].rumors[s].state = b.state
          /\ swim[n].rumors[s].incarnation = b.incarnation
      BY <2>1, <2>3, Zenon DEF RumorsOK, Agrees
    <3>2. b \in Belief
      BY <2>1, <3>1, BeliefsType
    <3>. HIDE DEF b
    <3>3. At(b.state, b.incarnation) = b
      BY <3>2 DEF At, Belief
    <3>. QED
      BY <2>3, <3>1, <3>3, Zenon DEF b
  <2>. QED
    BY <2>2, <2>3
<1>. QED
  BY <1>1, SwimInvariance, PTL

(* A member believed Dead is taken back only for an incarnation that it    *)
(* announced above the one of the verdict: overrides lets nothing else in, *)
(* and of incarnations only announced ones are about.                      *)
THEOREM TakenBackByItself == Spec => ResurrectedByItself
<1>1. SwimInv /\ SwimInv' /\ Forward =>
        \A n \in up \cap up' : \A s \in InState(swim[n], Dead) :
            swim'[n].members[s].state # Dead => minted'[s] > swim[n].members[s].incarnation
  <2>. SUFFICES ASSUME SwimInv, SwimInv', Forward, NEW n \in up \cap up',
                       NEW s \in InState(swim[n], Dead), swim'[n].members[s].state # Dead
                PROVE  minted'[s] > swim[n].members[s].incarnation
    OBVIOUS
  <2>. DEFINE old == swim[n].members
              new == swim'[n].members
  <2>1. n \in Node /\ s \in DOMAIN old /\ old[s].state = Dead
    BY DEF SwimInv, InState
  <2>2. s \in DOMAIN new /\ Supersedes(old[s], new[s])
    BY <2>1, SMTT(30) DEF Forward, Later
  <2>3. old \in Beliefs
    BY <2>1, InvFacts
  <2>4. /\ swim'[n] \in SwimState /\ Bounded(new, minted') /\ minted' \in [Node -> Nat]
    BY <2>1, Zenon DEF SwimInv, ObjectOK
  <2>5. new \in Beliefs
    BY <2>4, FieldTypes
  <2>. HIDE DEF old, new
  <2>6. /\ old[s].incarnation \in Nat /\ new[s].incarnation \in Nat
        /\ new[s].state \in Alive .. Dead /\ s \in Node
    BY <2>1, <2>2, <2>3, <2>5, BeliefsType, SMTT(30)
  <2>7. new[s].incarnation <= minted'[s] /\ minted'[s] \in Nat
    BY <2>2, <2>4, <2>6, SMTT(30) DEF Bounded
  <2>8. new[s].incarnation > old[s].incarnation
    BY <2>1, <2>2, <2>6 DEF Supersedes, Alive, Dead, new
  <2>. QED
    BY <2>6, <2>7, <2>8 DEF old
<1>. QED
  BY <1>1, NextStep, SwimInvariance, PTL DEF Spec, ResurrectedByItself

=============================================================================
