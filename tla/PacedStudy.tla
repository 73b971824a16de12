----------------------------- MODULE PacedStudy -----------------------------
(***************************************************************************)
(* bench/paced_bench over TCP: a client that offers requests at a fixed    *)
(* cadence, or (bulk) as long as fewer than kLimit are pending, and a      *)
(* server that echoes them.  Both run the same loop around a Tcp channel,  *)
(* which queues at most kLimit frames and moves them through a             *)
(* non-blocking socket piece by piece.  A step is one call on the socket,  *)
(* one turn of a loop, or the passing of a limit of time.                  *)
(***************************************************************************)
EXTENDS Naturals, Sequences, FiniteSets

CONSTANTS
    kLimit,
    U,         \* pieces that a frame can be cut into
    MaxOffers  \* count; in bulk mode a bound on the offers

END == MaxOffers     \* kEndSeq

Side == {"client", "server"}
Peer(x) == IF x = "client" THEN "server" ELSE "client"

VARIABLES
    bulk,       \* a.mode == "bulk"
    phase,      \* now: "window" (before end), "drain" (before cap) or "over"
    output, offset,  \* Tcp::output and offset of each side
    wire,       \* what each side wrote and the other has not read
    input,      \* Tcp::input, its first got pieces
    offered, accepted, completed, pending,   \* of the client
    echoes, server_done,                     \* of the server
    errors,     \* of both: echoes refused, replies that are not pending, frames out of step
    stage       \* of each side: "run", "flush" (the client has sent END) or "done"

pacedVars == <<bulk, phase, output, offset, wire, input, offered, accepted, completed, pending,
               echoes, server_done, errors, stage>>

Init == /\ bulk \in BOOLEAN
        /\ phase = "window" /\ stage = [x \in Side |-> "run"]
        /\ output = [x \in Side |-> <<>>] /\ offset = [x \in Side |-> 0]
        /\ wire = [x \in Side |-> <<>>] /\ input = [x \in Side |-> <<>>]
        /\ offered = 0 /\ accepted = 0 /\ completed = 0 /\ pending = {}
        /\ echoes = <<>> /\ server_done = FALSE /\ errors = 0

-----------------------------------------------------------------------------
(* The channel.                                                            *)

Frame(seq) == [i \in 1 .. U |-> <<seq, i>>]

(* Tcp::send. *)
CanSend(x) == Len(output[x]) < kLimit

Queue(x, seq) == output' = [output EXCEPT ![x] = Append(@, seq)]

(* ::send takes n pieces of the first frame. *)
Write(x) ==
    /\ stage[x] # "done" /\ output[x] # <<>>
    /\ \E n \in 1 .. U - offset[x] :
         /\ wire' = [wire EXCEPT ![x] = @ \o SubSeq(Frame(Head(output[x])), offset[x] + 1, offset[x] + n)]
         /\ offset' = [offset EXCEPT ![x] = (offset[x] + n) % U]
         /\ output' = [output EXCEPT ![x] = IF offset[x] + n = U THEN Tail(@) ELSE @]
    /\ UNCHANGED <<bulk, phase, input, offered, accepted, completed, pending, echoes, server_done, errors, stage>>

(* The callback of the server, for a whole frame. *)
ServerReceives(seq) ==
    /\ IF seq = END THEN server_done' = TRUE /\ UNCHANGED <<echoes, errors>>
       ELSE IF Len(echoes) = kLimit THEN errors' = errors + 1 /\ UNCHANGED <<echoes, server_done>>
       ELSE echoes' = Append(echoes, seq) /\ UNCHANGED <<errors, server_done>>
    /\ UNCHANGED <<completed, pending>>

(* The callback of the client: at the cap the request stays missing. *)
ClientReceives(seq) ==
    /\ IF seq \notin pending THEN errors' = errors + 1 /\ UNCHANGED <<completed, pending>>
       ELSE IF phase = "over" THEN UNCHANGED <<errors, completed, pending>>
       ELSE pending' = pending \ {seq} /\ completed' = completed + 1 /\ UNCHANGED errors
    /\ UNCHANGED <<echoes, server_done>>

(* ::recv returns n pieces; a full input that does not begin with a length *)
(* is an error.                                                            *)
Read(x) ==
    /\ stage[x] # "done"
    /\ \E n \in 1 .. U - Len(input[x]) :
         /\ n <= Len(wire[Peer(x)])
         /\ wire' = [wire EXCEPT ![Peer(x)] = SubSeq(@, n + 1, Len(@))]
         /\ LET in == input[x] \o SubSeq(wire[Peer(x)], 1, n)
            IN  IF Len(in) < U
                THEN /\ input' = [input EXCEPT ![x] = in]
                     /\ UNCHANGED <<completed, pending, echoes, server_done, errors>>
                ELSE /\ input' = [input EXCEPT ![x] = <<>>]
                     /\ IF in # Frame(in[1][1])
                        THEN errors' = errors + 1 /\ UNCHANGED <<completed, pending, echoes, server_done>>
                        ELSE IF x = "client" THEN ClientReceives(in[1][1]) ELSE ServerReceives(in[1][1])
    /\ UNCHANGED <<bulk, phase, output, offset, offered, accepted, stage>>

-----------------------------------------------------------------------------
(* The loops around it.                                                    *)

Echo == /\ stage["server"] = "run" /\ echoes # <<>> /\ CanSend("server")
        /\ Queue("server", Head(echoes)) /\ echoes' = Tail(echoes)
        /\ UNCHANGED <<bulk, phase, offset, wire, input, offered, accepted, completed, pending,
                       server_done, errors, stage>>


Admits == Cardinality(pending) < kLimit

(* A request is offered.  It is rejected when it is overdue, which is left *)
(* to chance, or when the window is over, which only the cadence reaches;  *)
(* in bulk mode offers need a free place to be made at all.                *)
Offer == /\ stage["client"] = "run" /\ offered < MaxOffers
         /\ bulk => phase = "window" /\ Admits
         /\ offered' = offered + 1
         /\ \/ UNCHANGED <<accepted, pending, output>>
            \/ /\ phase = "window" /\ Admits /\ CanSend("client")
               /\ Queue("client", offered)
               /\ pending' = pending \cup {offered} /\ accepted' = accepted + 1
         /\ UNCHANGED <<bulk, phase, offset, wire, input, completed, echoes, server_done, errors, stage>>

(* (bulk || offered == count) && pending.empty() *)
Complete == (bulk \/ offered = MaxOffers) /\ pending = {}

(* The sentinel; from then on the client only polls. *)
Sentinel == /\ stage["client"] = "run" /\ Complete /\ phase # "window" /\ CanSend("client")
            /\ Queue("client", END)
            /\ stage' = [stage EXCEPT !["client"] = "flush"]
            /\ UNCHANGED <<bulk, phase, offset, wire, input, offered, accepted, completed, pending, echoes,
                           server_done, errors>>

(* A side leaves its loop: the client 300 ms after the sentinel, the       *)
(* server when it has the sentinel and has queued what it can, and both    *)
(* when the cap has passed.                                                *)
Leave(x) == /\ \/ stage[x] = "flush"
               \/ stage[x] = "run" /\ phase = "over"
               \/ x = "server" /\ stage[x] = "run" /\ server_done /\ (echoes = <<>> \/ ~ CanSend(x))
            /\ stage' = [stage EXCEPT ![x] = "done"]
            /\ UNCHANGED <<bulk, phase, output, offset, wire, input, offered, accepted, completed, pending,
                           echoes, server_done, errors>>

Clock == /\ \/ phase = "window" /\ phase' = "drain"
            \/ phase = "drain" /\ phase' = "over"
         /\ UNCHANGED <<bulk, output, offset, wire, input, offered, accepted, completed, pending, echoes,
                        server_done, errors, stage>>

Next == \/ \E x \in Side : Write(x) \/ Read(x) \/ Leave(x)
        \/ Echo \/ Offer \/ Sentinel \/ Clock

Spec == Init /\ [][Next]_pacedVars

-----------------------------------------------------------------------------
(* Properties.                                                             *)


=============================================================================
