---------------------------- MODULE RequestReply ----------------------------
(***************************************************************************)
(* The request/reply mode of the three benchmark programs: run_rr_client   *)
(* and run_rr_server of latency_bench, enet_baseline and tcp_baseline.     *)
(* The client has one request outstanding, until the cap on waiting for a  *)
(* reply expires.  The transports are reliable (Session shows it of taut): *)
(* here they are queues, which class 1 of taut does not keep in order.     *)
(* Time is left to chance: a cap may expire whenever its reply is missing, *)
(* and each one that does uses up its share of the run's duration.         *)
(***************************************************************************)
EXTENDS Naturals, SequencesExt

CONSTANTS
    Kinds,        \* among "taut1", "taut2" (the class), "enet" and "tcp"
    MaxRequests,  \* bound: what fits into the duration
    MaxCaps,      \* as many caps as fill the duration
    Room          \* what a taut session takes before send() refuses

END == MaxRequests    \* kEndSeq, the number of no request

VARIABLES
    kind,
    client,     \* "top", "send", "await", "end", "flush" or "done"
    sent,       \* requests; the number of the next one
    got_reply,
    samples,    \* <<expect_seq, seq>> of each reply that was counted
    err_timeout,
    server,     \* "run", "ending" (has END) or "done"
    reqs, reps  \* on their way

rrVars == <<kind, client, sent, got_reply, samples, err_timeout, server, reqs, reps>>

taut == kind \in {"taut1", "taut2"}

(* The positions from which the transport may deliver next. *)
Heads(q) == IF kind = "taut1" THEN DOMAIN q ELSE DOMAIN q \cap {1}

Full(q) == taut /\ Len(q) >= Room

expect_seq == sent - (IF client = "send" THEN 0 ELSE 1)

err_seq_mismatch == Len(SelectSeq(samples, LAMBDA s : s[1] # s[2]))

missing == IF sent > Len(samples) THEN sent - Len(samples) ELSE 0

(* Fault: only what is missing counts. *)
errors_missing == missing

errors == missing + err_seq_mismatch + err_timeout

Init == /\ kind \in Kinds
        /\ client = "top" /\ sent = 0 /\ got_reply = FALSE /\ samples = <<>> /\ err_timeout = 0
        /\ server = "run" /\ reqs = <<>> /\ reps = <<>>

-----------------------------------------------------------------------------
(* The client.                                                             *)

(* The duration is over, or another round begins. *)
Round == /\ client = "top"
         /\ \/ client' = "end" /\ UNCHANGED got_reply
            \/ /\ sent < MaxRequests /\ err_timeout < MaxCaps
               /\ client' = "send" /\ got_reply' = FALSE
         /\ UNCHANGED <<kind, sent, samples, err_timeout, server, reqs, reps>>

(* A write of tcp_baseline fails when the server has closed. *)
Request == /\ client = "send" /\ ~ Full(reqs)
           /\ \/ reqs' = Append(reqs, sent) /\ sent' = sent + 1 /\ client' = "await"
              \/ kind = "tcp" /\ server = "done" /\ client' = "end" /\ UNCHANGED <<reqs, sent>>
           /\ UNCHANGED <<kind, got_reply, samples, err_timeout, server, reps>>

(* Replies are read while the client waits for one (taut: all that one     *)
(* poll() delivers; while send() refuses; and, counted too, at the end).   *)
Reads == \/ client = "await" /\ (taut \/ ~ got_reply)
         \/ client \in {"send", "end"} /\ Full(reqs)
         \/ client = "flush" /\ taut

Reply == /\ Reads
         /\ \E i \in Heads(reps) :
              /\ samples' = Append(samples, <<expect_seq, reps[i]>>)
              /\ reps' = RemoveAt(reps, i)
         /\ got_reply' = TRUE
         /\ UNCHANGED <<kind, client, sent, err_timeout, server, reqs>>

(* ENet's event that the server is gone passes for a reply. *)
Replied == got_reply \/ (kind = "enet" /\ server = "done")

Replies == /\ client = "await" /\ Replied
           /\ client' = "top"
           /\ UNCHANGED <<kind, sent, got_reply, samples, err_timeout, server, reqs, reps>>

(* tcp_baseline leaves its loop when a read fails. *)
AfterCap == IF kind = "tcp" THEN "end" ELSE "top"

(* Fault: only tcp_baseline bounds the wait. *)
HasCap_tcp == kind = "tcp"

HasCap == TRUE

Cap == /\ client = "await" /\ ~ got_reply /\ HasCap
       /\ err_timeout' = err_timeout + 1 /\ client' = AfterCap
       /\ UNCHANGED <<kind, sent, got_reply, samples, server, reqs, reps>>

SendEnd == /\ client = "end" /\ ~ Full(reqs)
           /\ reqs' = Append(reqs, END) /\ client' = "flush"
           /\ UNCHANGED <<kind, sent, got_reply, samples, err_timeout, server, reps>>

Finish == /\ client = "flush"
          /\ client' = "done"
          /\ UNCHANGED <<kind, sent, got_reply, samples, err_timeout, server, reqs, reps>>

-----------------------------------------------------------------------------
(* The server.                                                             *)

(* END ends it at once, or, for taut, a while later; the rest is echoed,   *)
(* for taut by a send() whose answer nobody looks at.                      *)
Serve == /\ server \in {"run", "ending"}
         /\ \E i \in Heads(reqs) :
              /\ reqs' = RemoveAt(reqs, i)
              /\ IF reqs[i] = END
                 THEN server' = (IF taut THEN "ending" ELSE "done") /\ UNCHANGED reps
                 ELSE reps' = (IF Full(reps) THEN reps ELSE Append(reps, reqs[i])) /\ UNCHANGED server
         /\ UNCHANGED <<kind, client, sent, got_reply, samples, err_timeout>>

(* After END, or when no request has come for a long time. *)
Leave == /\ server \in {"run", "ending"}
         /\ server' = "done"
         /\ UNCHANGED <<kind, client, sent, got_reply, samples, err_timeout, reqs, reps>>

ClientStep == Round \/ Request \/ Reply \/ Replies \/ Cap \/ SendEnd \/ Finish

Next == ClientStep \/ Serve \/ Leave

Spec == Init /\ [][Next]_rrVars /\ WF_rrVars(ClientStep) /\ WF_rrVars(Serve)

-----------------------------------------------------------------------------
(* Properties.                                                             *)

(* "the reply to request N must be N ... the sample would be timed from    *)
(* the wrong request": a run of run_rr_client that reports no error has    *)
(* one sample of every request, taken while that request was the current   *)
(* one; and a reply out of step is the late answer to a request that was   *)
(* given up, whatever the order in which class 1 delivers.  tcp_baseline   *)
(* counts no errors: it is in step because it stops at the first reply     *)
(* that is late.                                                           *)
HonestReport ==
    /\ taut /\ client = "done" /\ errors = 0 => samples = [i \in 1 .. sent |-> <<i - 1, i - 1>>]
    /\ taut /\ err_timeout = 0 => err_seq_mismatch = 0
    /\ kind = "tcp" => \A i \in DOMAIN samples : samples[i] = <<i - 1, i - 1>>

(* "cap guards against a wedged run": the client ends, also when the       *)
(* server is gone, although the loops around send() have no cap; only Room *)
(* caps in one run could keep it there.                                    *)
ClientReturns == <>(client = "done" \/ err_timeout >= Room)

=============================================================================
