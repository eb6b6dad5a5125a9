------------------------------ MODULE EventLoop ------------------------------
(***************************************************************************)
(* The event thread's loop (h3_event_thread, h3_threads.c): it waits       *)
(* (wait_for_event, h3_io.c; h3q_engine_want, quic/h3q.c), pumps datagrams *)
(* (module DatagramQueue) and services the sessions.  Request workers and  *)
(* the thread that stops the child do their work first and then send a     *)
(* datagram to the wakeup socket (h3_wakeup_signal, h3_socket.c), which is *)
(* lost when the socket's buffer is full; wait_for_event takes a bounded   *)
(* number of them.                                                         *)
(*                                                                         *)
(* What a session's pass does is module Session, which connections there   *)
(* are is module Listener.  Here a worker's work is whatever it left for   *)
(* the next pass of its session: a response submitted, bytes appended, a   *)
(* response completed.  Time passes only while the thread waits.           *)
(***************************************************************************)
EXTENDS DatagramQueue, FiniteSets

CONSTANTS
  Workers,      \* request workers, each with a session of its own
  Room,         \* datagrams the wakeup socket buffers
  DrainMax,     \* datagrams h3_wakeup_drain takes
  Second,       \* the longest wait, in milliseconds
  Ms            \* ticks of the clock in a millisecond

ASSUME EventLoopAssumption ==
  {Room, DrainMax, Second, Ms} \subseteq Nat \ {0} /\ "stop" \notin Workers

VARIABLES
  loop,             \* "top", "wait", "drain", "pump", "service", "exit"
  work_pending,
  todo,             \* the sessions this pass has not come to
  work,             \* the workers whose work no pass has seen
  at,               \* where the workers and the stopper are: "run", "signal"
  wakeup,           \* datagrams in the wakeup socket
  thread_running,
  active,           \* there are sessions
  timer,            \* when, from the start of the wait, OpenSSL wants a call
  waited,           \* for how long poll has waited
  left              \* what is left of poll's timeout

threadVars == <<loop, work_pending, todo, active>>
signalVars == <<work, at, wakeup, thread_running>>
timeVars   == <<timer, waited, left>>
loopVars   == <<vars, threadVars, signalVars, timeVars>>

\* a timer that is not due within the longest wait, or not set
Never == Second * Ms
Signallers == Workers \cup {"stop"}

LoopInit ==
  /\ Init
  /\ loop = "top" /\ work_pending = FALSE /\ todo = {} /\ active = FALSE
  /\ work = {} /\ at = [p \in Signallers |-> "run"] /\ wakeup = 0 /\ thread_running = TRUE
  /\ timer = Never /\ waited = 0 /\ left = 0
-----------------------------------------------------------------------------
(* The other threads.                                                      *)

\* a worker of a live session leaves work for the event thread, holding the
\* session's lock
Publish(p) ==
  /\ p \in Workers /\ active /\ at[p] = "run"
  /\ work' = work \cup {p}
  /\ at' = [at EXCEPT ![p] = "signal"]
  /\ UNCHANGED <<vars, threadVars, wakeup, thread_running, timeVars>>

\* h3_io_teardown clears thread_running
Stop ==
  /\ thread_running /\ thread_running' = FALSE
  /\ at' = [at EXCEPT !["stop"] = "signal"]
  /\ UNCHANGED <<vars, threadVars, work, wakeup, timeVars>>

\* wake_event_thread: h3_wakeup_signal, whose failure nobody looks at
Signal(p) ==
  /\ at[p] = "signal"
  /\ at' = [at EXCEPT ![p] = "run"]
  /\ wakeup' = IF wakeup < Room THEN wakeup + 1 ELSE wakeup
  /\ UNCHANGED <<vars, threadVars, work, thread_running, timeVars>>

DatagramArrives == (\E p \in Peers : Arrive(p)) /\ UNCHANGED <<threadVars, signalVars, timeVars>>
-----------------------------------------------------------------------------
(* wait_for_event.                                                         *)

Timeout_NoClamp(t) == IF t \div Ms < Second THEN t \div Ms ELSE Second

\* the milliseconds that h3q_engine_want makes of OpenSSL's timer
Timeout(t) ==
  LET ms      == t \div Ms
      timeout == IF ms < Second THEN ms ELSE Second
  IN  IF timeout < 1 THEN 1 ELSE timeout

\* the top of the loop: leave it, wait, or go on with what the last pass left
Top ==
  /\ loop = "top"
  /\ CASE ~thread_running /\ ~active ->
            loop' = "exit" /\ UNCHANGED <<vars, work_pending, timeVars>>
       [] (thread_running \/ active) /\ ~work_pending ->
            /\ loop' = "wait" /\ timer' \in 0..Never
            /\ left' = Timeout(timer') * Ms
            /\ UNCHANGED <<vars, work_pending, waited>>
       [] (thread_running \/ active) /\ work_pending ->
            /\ loop' = "pump" /\ work_pending' = FALSE
            /\ BeginPump /\ UNCHANGED timeVars
  /\ UNCHANGED <<todo, active, signalVars>>

\* a tick of the clock while poll waits
Tick ==
  /\ loop = "wait" /\ left > 0
  /\ left' = left - 1 /\ waited' = waited + 1
  /\ UNCHANGED <<vars, threadVars, signalVars, timer>>

\* poll returns; the clock of this wait is done with
EndWait ==
  /\ loop = "wait" /\ loop' = "drain"
  /\ timer' = Never /\ waited' = 0 /\ left' = 0
  /\ UNCHANGED <<vars, work_pending, todo, active, signalVars>>

\* it finds a socket readable
PollReady == (socket # <<>> \/ wakeup > 0) /\ EndWait

\* it times out, or the UDP socket can be written to and OpenSSL wants that
PollOther == EndWait

Drained(n) == IF n > DrainMax THEN n - DrainMax ELSE 0

\* h3_wakeup_drain if the wakeup socket is readable, unless poll failed; then
\* h3q_engine_pump is called
DrainWakeup ==
  /\ loop = "drain" /\ loop' = "pump" /\ work_pending' = FALSE
  /\ wakeup' \in {wakeup, Drained(wakeup)}
  /\ BeginPump
  /\ UNCHANGED <<todo, active, work, at, thread_running, timeVars>>
-----------------------------------------------------------------------------
(* The pass.                                                               *)

Pump ==
  /\ loop = "pump"
  /\ HandleEvents \/ NewPendingConn \/ EndEvents \/ FailEvents
  /\ UNCHANGED <<threadVars, signalVars, timeVars>>

\* h3q_engine_pump returned
EndPump ==
  /\ loop = "pump" /\ pump = "idle"
  /\ loop' = "service" /\ work_pending' = (pumped = 1)
  /\ todo' = Workers /\ pumped' = 0
  /\ UNCHANGED <<arrived, socket, peer_rx, current_peer_addr, reading, delivered, conn, client,
                 pump, active, signalVars, timeVars>>

\* OpenSSL's calls of the pass read datagrams too: accepting connections and
\* streams, reading, writing and shutting down, the last also after the loop
Calls ==
  /\ loop \in {"service", "exit"}
  /\ CallTicks \/ NewPendingConn \/ EndTick
  /\ UNCHANGED <<threadVars, signalVars, timeVars>>

\* spawn_serviced_session for a connection whose handshake is complete
Spawn ==
  /\ loop = "service" /\ pump = "idle" /\ todo = Workers
  /\ \E n \in Numbers : SynthConn(n)
  /\ UNCHANGED <<threadVars, signalVars, timeVars>>

\* service_session_pass, which says whether to come back without waiting; the
\* datagrams its calls read are Calls steps
Service(p, again) ==
  /\ loop = "service" /\ pump = "idle" /\ p \in todo
  /\ todo' = todo \ {p} /\ work' = work \ {p}
  /\ work_pending' = (work_pending \/ again)
  /\ UNCHANGED <<vars, loop, active, at, wakeup, thread_running, timeVars>>

\* sessions came while the child runs, or went with the last of their workers
ActiveAfter ==
  {active} \cup (IF thread_running THEN {TRUE} ELSE {})
           \cup (IF work = {} /\ \A p \in Workers : at[p] = "run" THEN {FALSE} ELSE {})

EndPass_Drains ==
  /\ loop = "service" /\ pump = "idle" /\ todo = {}
  /\ loop' = "top" /\ active' \in ActiveAfter
  /\ wakeup' = Drained(wakeup)
  /\ UNCHANGED <<vars, work_pending, todo, work, at, thread_running, timeVars>>

EndPass ==
  /\ loop = "service" /\ pump = "idle" /\ todo = {}
  /\ loop' = "top" /\ active' \in ActiveAfter
  /\ UNCHANGED <<vars, work_pending, todo, signalVars, timeVars>>

LoopNext ==
  \/ (\E p \in Workers : Publish(p)) \/ Stop \/ (\E p \in Signallers : Signal(p))
  \/ DatagramArrives
  \/ Top \/ Tick \/ PollReady \/ PollOther \/ DrainWakeup
  \/ Pump \/ EndPump \/ Calls \/ Spawn
  \/ (\E p \in Workers, b \in BOOLEAN : Service(p, b)) \/ EndPass

LoopSpec == LoopInit /\ [][LoopNext]_loopVars

\* The steps of the event thread that need nothing but OpenSSL to return, and a
\* readable socket to end the wait.
ThreadProgress ==
  \/ Top \/ PollReady \/ DrainWakeup \/ EndPump
  \/ (HandleEvents \/ EndEvents \/ EndTick) /\ UNCHANGED <<threadVars, signalVars, timeVars>>

\* The threads run.  A pass makes a finite number of OpenSSL calls, so that it
\* gets to its next step however often they read.  Nothing is assumed of poll's
\* timeout.
LoopFairSpec ==
  /\ LoopSpec
  /\ \A p \in Signallers : WF_loopVars(Signal(p))
  /\ WF_loopVars(ThreadProgress)
  /\ SF_loopVars(EndPass \/ \E p \in Workers, b \in BOOLEAN : Service(p, b))
-----------------------------------------------------------------------------
(* Properties.                                                             *)

\* The thread never goes to sleep on work: while it waits, a datagram in the
\* wakeup socket or a signal about to be sent covers every worker's work and
\* the order to stop, however signals, lost datagrams, bounded drains and
\* passes interleave.
SleepsOnlyIdle ==
  loop = "wait" =>
    /\ work # {} => wakeup > 0 \/ \E p \in work : at[p] = "signal"
    /\ ~thread_running /\ ~active => wakeup > 0 \/ at["stop"] = "signal"

\* h3q_engine_pump returns only when the filter's queue is empty, unless
\* OpenSSL failed, although the calls of the last pass may have left datagrams
\* in it.
PumpEmpties == loop = "pump" /\ pump = "idle" /\ pumped >= 0 => peer_rx = <<>>

\* h3q_engine_want rounds OpenSSL's timer to milliseconds for poll: the wait
\* does not go past the timer, nor past a second, except that it is never
\* shorter than one millisecond, so that a timer that is due does not spin.
TimersKept ==
  loop = "wait" =>
    /\ waited <= timer \/ waited <= Ms
    /\ waited + left >= Ms /\ waited + left <= Second * Ms

\* What a worker leaves is seen by a pass of its session, without waiting for
\* poll to time out.  Datagrams that the calls of a pass left in the filter's
\* queue do not make the socket readable; the pump after the next wait, which
\* poll's timeout ends at the latest, hands them on, unless OpenSSL failed.
WorkIsServed ==
  /\ \A p \in Workers : p \in work ~> p \notin work
  /\ WF_loopVars(PollOther) =>
       (peer_rx # <<>> ~> peer_rx = <<>> \/ pumped = -1 \/ loop = "exit")
=============================================================================
