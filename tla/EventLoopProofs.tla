-------------------------- MODULE EventLoopProofs ---------------------------
(* The wake-up protocol of the event loop, for any number of sockets.      *)
EXTENDS EventLoop, TLAPS

(* No step of run() or of stop() loses a wake-up: the only step that resets*)
(* the eventfd is followed by a test of running_ before epoll_wait.        *)
LEMMA WakeupStep == NoLostWakeup /\ [Next]_loopVars => NoLostWakeup'
<1> SUFFICES ASSUME NoLostWakeup, [Next]_loopVars PROVE NoLostWakeup'
    OBVIOUS
<1> USE DEF NoLostWakeup
<1>1. CASE run
    BY <1>1 DEF run
<1>2. CASE Check
    BY <1>2 DEF Check
<1>3. CASE epoll_wait
    BY <1>3 DEF epoll_wait
<1>4. CASE Interrupt
    BY <1>4 DEF Interrupt
<1>5. CASE Event
    BY <1>5 DEF Event
<1>6. CASE Drain
    BY <1>6 DEF Drain
<1>7. CASE stop
    BY <1>7 DEF stop, StopStep
<1>8. CASE Arrive
    BY <1>8 DEF Arrive
<1>9. CASE UNCHANGED loopVars
    BY <1>9 DEF loopVars
<1> QED
    BY <1>1, <1>2, <1>3, <1>4, <1>5, <1>6, <1>7, <1>8, <1>9 DEF Next, LoopStep

(* While run() is in epoll_wait with running_ false, the eventfd is        *)
(* readable or stop() is about to write to it: for any set of sockets, any *)
(* drain limit and any buffer, and wherever stop() falls into a tick.      *)
THEOREM WakeupTheorem == Spec => []NoLostWakeup
<1>1. Init => NoLostWakeup
    BY DEF Init, NoLostWakeup
<1> QED
    BY <1>1, WakeupStep, PTL DEF Spec

=============================================================================
