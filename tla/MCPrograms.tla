---------------------------- MODULE MCPrograms ------------------------------
(***************************************************************************)
(* The event loop and the programs around the library on small instances:  *)
(* one of them, the subject, runs while the others rest in their initial   *)
(* states.  Unit of time: 50 ms, so that the first retransmission timeout  *)
(* is 4, kMaxRto and linger_ms 40, and run_receiver stays 4 after END.     *)
(***************************************************************************)
EXTENDS EventLoop, Sequences

CONSTANT Subjects

VARIABLES
    subject,
    f_size, f_link, f_clock, f_losses, f_sender, f_receiver, f_body, f_linger,
    l_cls, l_link, l_clock, l_losses, l_sender, l_extra, l_receiver, l_last,
    r_kind, r_client, r_sent, r_got, r_samples, r_timeouts, r_server, r_reqs, r_reps,
    t_sender, t_sent, t_written, t_arrived, t_pos, t_part, t_got, t_need, t_received, t_receiver,
    t_pauses, t_midframe,
    p_bulk, p_phase, p_output, p_offset, p_wire, p_input, p_offered, p_accepted, p_completed,
    p_pending, p_echoes, p_done, p_errors, p_stage

File == INSTANCE FileTransfer WITH
    Window <- 2, Rto0 <- 4, MaxRto <- 40,
    Sizes <- {0, 1, 3, 6}, Chunk <- 2, Linger <- 40, Timeout <- 96, MaxLosses <- 6, Tolerated <- 3,
    size <- f_size, link <- f_link, clock <- f_clock, losses <- f_losses, sender <- f_sender,
    receiver <- f_receiver, body <- f_body, linger_until <- f_linger

Stream == INSTANCE LatencyStream WITH
    Window <- 2, Rto0 <- 4, MaxRto <- 40,
    Classes <- {1, 2}, Schedule <- <<0, 0, 0, 0, 0, 6>>, WallCap <- 20, AfterEnd <- 4, IdleTime <- 60,
    HardCap <- 100, Extra <- 6, MaxLosses <- 2, Tolerated <- 1,
    cls <- l_cls, link <- l_link, clock <- l_clock, losses <- l_losses, sender <- l_sender,
    extra <- l_extra, receiver <- l_receiver, last_activity <- l_last

Rr == INSTANCE RequestReply WITH
    Kinds <- {"taut1", "taut2", "enet", "tcp"}, MaxRequests <- 4, MaxCaps <- 3, Room <- 2,
    kind <- r_kind, client <- r_client, sent <- r_sent, got_reply <- r_got, samples <- r_samples,
    err_timeout <- r_timeouts, server <- r_server, reqs <- r_reqs, reps <- r_reps

Tcp == INSTANCE TcpStream WITH
    Hdr <- 2, Body <- 3, Offered <- 2, MaxPauses <- 2,
    sender <- t_sender, sent <- t_sent, written <- t_written, arrived <- t_arrived, pos <- t_pos,
    part <- t_part, got <- t_got, need <- t_need, received <- t_received, receiver <- t_receiver,
    pauses <- t_pauses, midframe <- t_midframe

Paced == INSTANCE PacedStudy WITH
    kLimit <- 2, U <- 2, MaxOffers <- 4,
    bulk <- p_bulk, phase <- p_phase, output <- p_output, offset <- p_offset, wire <- p_wire,
    input <- p_input, offered <- p_offered, accepted <- p_accepted, completed <- p_completed,
    pending <- p_pending, echoes <- p_echoes, server_done <- p_done, errors <- p_errors,
    stage <- p_stage

fVars == <<f_size, f_link, f_clock, f_losses, f_sender, f_receiver, f_body, f_linger>>
lVars == <<l_cls, l_link, l_clock, l_losses, l_sender, l_extra, l_receiver, l_last>>
rVars == <<r_kind, r_client, r_sent, r_got, r_samples, r_timeouts, r_server, r_reqs, r_reps>>
tVars == <<t_sender, t_sent, t_written, t_arrived, t_pos, t_part, t_got, t_need, t_received, t_receiver,
           t_pauses, t_midframe>>
pVars == <<p_bulk, p_phase, p_output, p_offset, p_wire, p_input, p_offered, p_accepted, p_completed,
           p_pending, p_echoes, p_done, p_errors, p_stage>>

programVars == <<subject, loopVars, fVars, lVars, rVars, tVars, pVars>>

ProgramInit ==
    /\ subject \in Subjects
    /\ Init /\ File!Init /\ Stream!Init /\ Rr!Init /\ Tcp!Init /\ Paced!Init
    /\ subject # "file" => f_size = 0
    /\ subject # "stream" => l_cls = 2
    /\ subject # "rr" => r_kind = "tcp"
    /\ subject # "paced" => ~ p_bulk

RestBut(s) == /\ s # "loop" => UNCHANGED loopVars
              /\ s # "file" => UNCHANGED fVars
              /\ s # "stream" => UNCHANGED lVars
              /\ s # "rr" => UNCHANGED rVars
              /\ s # "tcp" => UNCHANGED tVars
              /\ s # "paced" => UNCHANGED pVars
              /\ UNCHANGED subject

ProgramNext ==
    \/ subject = "loop" /\ Next /\ RestBut("loop")
    \/ subject = "file" /\ File!Next /\ RestBut("file")
    \/ subject = "stream" /\ Stream!Next /\ RestBut("stream")
    \/ subject = "rr" /\ Rr!Next /\ RestBut("rr")
    \/ subject = "tcp" /\ Tcp!Next /\ RestBut("tcp")
    \/ subject = "paced" /\ Paced!Next /\ RestBut("paced")

(* The fairness of each subject's own specification. *)
ProgramSpec ==
    /\ ProgramInit /\ [][ProgramNext]_programVars
    /\ WF_programVars(subject = "loop" /\ LoopStep /\ RestBut("loop"))
    /\ WF_programVars(subject = "loop" /\ stopper = "flag" /\ stop /\ RestBut("loop"))
    /\ WF_programVars(subject = "file" /\ File!Step /\ RestBut("file"))
    /\ WF_programVars(subject = "stream" /\ Stream!Step /\ RestBut("stream"))
    /\ WF_programVars(subject = "rr" /\ Rr!ClientStep /\ RestBut("rr"))
    /\ WF_programVars(subject = "rr" /\ Rr!Serve /\ RestBut("rr"))
    /\ WF_programVars(subject = "tcp" /\ Tcp!Step /\ RestBut("tcp"))

-----------------------------------------------------------------------------
(* The properties of the subjects, which their modules explain.            *)

(* send_file, recv_file: when one ends well the whole file is delivered. *)
DoneMeansDelivered == subject = "file" => File!DoneMeansDelivered

(* send_file and recv_file both end well after up to Tolerated losses. *)
TransferCompletes == subject = "file" => File!TransferCompletes

(* latency_bench: with END the receiver has every message offered. *)
EndIsLast == subject = "stream" => Stream!EndIsLast

(* latency_bench: run_sender returns after up to Tolerated losses. *)
SenderReturns == subject = "stream" => Stream!SenderReturns

(* run_rr_client: no error reported, every sample of its own request. *)
HonestReport == subject = "rr" => Rr!HonestReport

(* run_rr_client ends although the server may be gone. *)
ClientReturns == subject = "rr" => Rr!ClientReturns



=============================================================================
