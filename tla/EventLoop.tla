----------------------------- MODULE EventLoop ------------------------------
(***************************************************************************)
(* src/loop.cc: one thread in run(), around a level-triggered epoll_wait   *)
(* on the sockets and an eventfd; stop() comes from a handler or from      *)
(* another thread, and is then two steps that run() may fall between.      *)
(* running_ is a plain bool, but system calls surround every access to it, *)
(* so the build can neither cache nor move one: a race has the outcomes of *)
(* an interleaving.  Datagrams never cease to arrive.                      *)
(***************************************************************************)
EXTENDS Naturals

CONSTANTS
    Fd,               \* the registered sockets
    kMaxRecvPerTick,
    Buffer            \* datagrams a socket buffer holds

eventfd == "eventfd"
none == "none"

VARIABLES
    at,        \* run(): "before", "check" (while (running_)), "wait", "events" or "returned"
    running,   \* running_
    evfd,      \* the eventfd counter is not zero
    sock,      \* datagrams waiting in each socket
    ready,     \* the events of this tick that are still to be handled
    cur, drained,   \* the socket being drained, and how far
    stopper,   \* the other thread: "no", "flag" (in the middle of stop()) or "done"
    asked      \* stop() cleared running_ while run() was running

loopVars == <<at, running, evfd, sock, ready, cur, drained, stopper, asked>>

Init == /\ at = "before" /\ running = FALSE /\ evfd = FALSE
        /\ sock = [f \in Fd |-> 0] /\ ready = {} /\ cur = none /\ drained = 0
        /\ stopper = "no" /\ asked = FALSE

-----------------------------------------------------------------------------
run == /\ at = "before"
       /\ running' = TRUE /\ at' = "check"
       /\ UNCHANGED <<evfd, sock, ready, cur, drained, stopper, asked>>

Check == /\ at = "check"
         /\ at' = IF running THEN "wait" ELSE "returned"
         /\ UNCHANGED <<running, evfd, sock, ready, cur, drained, stopper, asked>>

(* Level-triggered: whatever is readable is reported. *)
Reported == {f \in Fd : sock[f] > 0} \cup (IF evfd THEN {eventfd} ELSE {})

epoll_wait == /\ at = "wait" /\ Reported # {}
              /\ ready' = Reported /\ at' = "events"
              /\ UNCHANGED <<running, evfd, sock, cur, drained, stopper, asked>>

(* A signal: epoll_wait fails with EINTR. *)
Interrupt == /\ at = "wait" /\ Reported = {}
             /\ at' = "check"
             /\ UNCHANGED <<running, evfd, sock, ready, cur, drained, stopper, asked>>

(* The for loop over the events, which come in any order. *)
Event == /\ at = "events" /\ cur = none
         /\ \/ ready = {} /\ at' = "check" /\ UNCHANGED <<ready, cur, drained, evfd>>
            \/ \E f \in ready :
                 /\ ready' = ready \ {f} /\ UNCHANGED at
                 /\ IF f = eventfd THEN evfd' = FALSE /\ UNCHANGED <<cur, drained>>
                                   ELSE cur' = f /\ drained' = 0 /\ UNCHANGED evfd
         /\ UNCHANGED <<running, sock, stopper, asked>>

(* Fault: the socket is drained until it is empty. *)
DrainOver_empty == sock[cur] = 0

DrainOver == sock[cur] = 0 \/ drained = kMaxRecvPerTick

(* recv() and the handler, which may call stop(); or the drain ends. *)
Drain == /\ cur # none
         /\ IF DrainOver
            THEN cur' = none /\ UNCHANGED <<sock, drained, running, evfd, asked>>
            ELSE /\ sock' = [sock EXCEPT ![cur] = @ - 1]
                 /\ drained' = (drained % kMaxRecvPerTick) + 1
                 /\ \/ UNCHANGED <<running, evfd, asked>>
                    \/ running' = FALSE /\ evfd' = TRUE /\ asked' = TRUE
                 /\ UNCHANGED cur
         /\ UNCHANGED <<at, ready, stopper>>

LoopStep == run \/ Check \/ epoll_wait \/ Event \/ Drain

-----------------------------------------------------------------------------
(* Fault: wake() first, then the flag. *)
StopStep_wake_first(s) ==
    IF s = "no" THEN evfd' = TRUE /\ UNCHANGED <<running, asked>>
                ELSE running' = FALSE /\ asked' = (at # "before") /\ UNCHANGED evfd

(* The two halves of stop(): running_ = false, and wake(). *)
StopStep(s) ==
    IF s = "no" THEN running' = FALSE /\ asked' = (at # "before") /\ UNCHANGED evfd
                ELSE evfd' = TRUE /\ UNCHANGED <<running, asked>>

(* stop() on another thread. *)
stop == /\ stopper # "done"
        /\ StopStep(stopper)
        /\ stopper' = IF stopper = "no" THEN "flag" ELSE "done"
        /\ UNCHANGED <<at, sock, ready, cur, drained>>

Arrive == /\ \E f \in Fd : sock[f] < Buffer /\ sock' = [sock EXCEPT ![f] = @ + 1]
          /\ UNCHANGED <<at, running, evfd, ready, cur, drained, stopper, asked>>

Next == LoopStep \/ Interrupt \/ stop \/ Arrive

(* The loop's thread runs on, and a stop() that began goes on. *)
Spec == Init /\ [][Next]_loopVars /\ WF_loopVars(LoopStep) /\ WF_loopVars(stopper = "flag" /\ stop)

-----------------------------------------------------------------------------
(* Properties.                                                             *)

(* "Wake epoll_wait from another thread": while the loop is in epoll_wait  *)
(* and running_ is false already, the eventfd is readable, or will be as   *)
(* soon as the other thread goes on.  No wake-up is lost between the test  *)
(* of running_ and epoll_wait, nor to a tick that drains the eventfd.      *)
NoLostWakeup == at = "wait" /\ ~ running => evfd \/ stopper = "flag"

(* "Ask run() to return after the current tick": once stop() was called on *)
(* a running loop, run() returns, wherever it was and although traffic     *)
(* goes on.                                                                *)
StopReturns == asked ~> at = "returned"

(* "Unbounded, one busy socket holds run_once() forever and every other    *)
(* registration starves behind it": a socket with a datagram gets its turn,*)
(* however busy the others are and although a drain leaves datagrams       *)
(* behind without an event of their own.                                   *)
NoStarvation == \A f \in Fd : sock[f] > 0 ~> (cur = f \/ at = "returned")

=============================================================================
