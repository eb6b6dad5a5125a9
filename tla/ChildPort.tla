------------------------------ MODULE ChildPort ------------------------------
(***************************************************************************)
(* Which child process serves the QUIC port: h3_child_init, the background *)
(* port acquirer and the stop hooks of h3_server.c, h3_socket_open, and    *)
(* the start-up and teardown paths of h3_io.c and quic/h3q.c with what they *)
(* acquire and release.                                                    *)
(*                                                                         *)
(* In each child one descriptor number matters, the one h3_socket_open     *)
(* returned; once closed, any other thread of the child may be given it    *)
(* (slot).  The event thread's work is module Listener.                    *)
(***************************************************************************)
EXTENDS Integers, FiniteSets

CONSTANTS
  Children,
  MayFail        \* whether start-up steps may fail for other reasons than an owned port

ASSUME ChildPortAssumption == IsFiniteSet(Children) /\ MayFail \in BOOLEAN

VARIABLES
  slot,            \* what the descriptor number is: "free", "udp", "other"
  main,            \* the child's main thread
  acquirer,        \* its port_acquire_thread
  child_stopping, graceful,
  listener,        \* child_h3_io: "none", "up", or "down" after teardown
  failed,          \* a start-up step of the child failed
  strayClose,      \* the child closed a descriptor that was not the UDP socket
  held             \* what its start-up steps made and nothing released yet

vars == <<slot, main, acquirer, child_stopping, graceful, listener, failed, strayClose, held>>

StartSteps == {"start", "failed", "close"}

\* what h3_io_listen_start makes, in order; from "engine" to "listen" it is
\* h3q_engine_create's
Steps == <<"wakeup", "workers", "engine", "ctx", "method", "addr", "listener", "dgram",
           "filter", "listen", "thread">>

Resources == {Steps[k] : k \in DOMAIN Steps}

TypeOK ==
  /\ slot \in [Children -> {"free", "udp", "other"}]
  /\ main \in [Children -> StartSteps \cup {"dead", "init", "run", "join", "drain", "stop",
                                            "stopped"}]
  /\ acquirer \in [Children -> StartSteps \cup {"none", "loop", "sleep", "opened", "done"}]
  /\ child_stopping \in [Children -> BOOLEAN] /\ graceful \in [Children -> BOOLEAN]
  /\ listener \in [Children -> {"none", "up", "down"}]
  /\ failed \in [Children -> BOOLEAN] /\ strayClose \in [Children -> BOOLEAN]
  /\ held \in [Children -> SUBSET Resources]
  /\ \A c \in Children : \* the acquirer is joined before anything is drained or stopped
       main[c] \in {"drain", "stop", "stopped"} => acquirer[c] \in {"none", "done"}

Init ==
  /\ slot = [c \in Children |-> "free"]
  /\ main = [c \in Children |-> "dead"]
  /\ acquirer = [c \in Children |-> "none"]
  /\ child_stopping = [c \in Children |-> FALSE]
  /\ graceful = [c \in Children |-> FALSE]
  /\ listener = [c \in Children |-> "none"]
  /\ failed = [c \in Children |-> FALSE] /\ strayClose = [c \in Children |-> FALSE]
  /\ held = [c \in Children |-> {}]

Fail(c) == failed' = [failed EXCEPT ![c] = TRUE]

PortFree == \A c \in Children : slot[c] # "udp"

flags == <<child_stopping, graceful>>
-----------------------------------------------------------------------------
(* The operating system and the MPM.                                       *)

\* the MPM starts a child, at first or in the place of one that is gone
Fork(c) ==
  /\ main[c] = "dead"
  /\ main' = [main EXCEPT ![c] = "init"]
  /\ UNCHANGED <<slot, acquirer, flags, listener, failed, strayClose, held>>

\* the process ends, killed or after its stop hooks, and its descriptors close
Exit(c) ==
  /\ main[c] # "dead"
  /\ main' = [main EXCEPT ![c] = "dead"]
  /\ acquirer' = [acquirer EXCEPT ![c] = "none"]
  /\ slot' = [slot EXCEPT ![c] = "free"]
  /\ child_stopping' = [child_stopping EXCEPT ![c] = FALSE]
  /\ graceful' = [graceful EXCEPT ![c] = FALSE]
  /\ listener' = [listener EXCEPT ![c] = "none"]
  /\ failed' = [failed EXCEPT ![c] = FALSE]
  /\ strayClose' = [strayClose EXCEPT ![c] = FALSE]
  /\ held' = [held EXCEPT ![c] = {}]

\* another thread of the child opens a file or a connection
OpenOther(c) ==
  /\ main[c] # "dead" /\ slot[c] = "free"
  /\ slot' = [slot EXCEPT ![c] = "other"]
  /\ UNCHANGED <<main, acquirer, flags, listener, failed, strayClose, held>>

CloseOther(c) ==
  /\ slot[c] = "other"
  /\ slot' = [slot EXCEPT ![c] = "free"]
  /\ UNCHANGED <<main, acquirer, flags, listener, failed, strayClose, held>>
-----------------------------------------------------------------------------
(* Opening, starting and closing, in the main thread or the acquirer.      *)

\* h3_socket_open: the socket, APR_EAGAIN, or another error
Open(c, result) ==
  \/ result = "ok" /\ PortFree /\ slot' = [slot EXCEPT ![c] = "udp"]
  \/ result = "again" /\ ~PortFree /\ UNCHANGED slot
  \/ result = "error" /\ MayFail /\ UNCHANGED slot

\* h3_socket_close with the number h3_socket_open returned
Close(c) ==
  /\ slot' = [slot EXCEPT ![c] = "free"]
  /\ strayClose' = [strayClose EXCEPT ![c] = @ \/ slot[c] = "other"]

\* h3q_engine_destroy; SSL_free takes the BIOs along that SSL_set_bio gave to
\* the listener
h3q_engine_destroy(h) ==
  h \ ({"engine", "ctx", "method", "addr", "listener", "listen"}
         \cup IF "filter" \in h THEN {"dgram", "filter"} ELSE {})

FreeBio_Forgotten(h) == h

\* BIO_free, when the filter BIO that would own it cannot be made
FreeBio(h) == h \ {"dgram"}

\* h3q_engine_create has got as far as h and step fails, perhaps half done;
\* h3q_tls_ctx_create frees the context it cannot give a certificate to
h3q_engine_create_fails(h, step) ==
  CASE step = "engine" -> h
    [] step = "ctx" -> h3q_engine_destroy(h)
    [] step \in {"method", "addr", "listener", "dgram", "listen"} ->
         h3q_engine_destroy(IF step = "dgram" THEN h ELSE h \cup {step})
    [] step = "filter" -> h3q_engine_destroy(FreeBio(h))

\* the part of teardown before it closes the socket: event thread, worker
\* pool, engine; the wakeup sockets stay with the child's pool
Released(h) == h3q_engine_destroy(h) \ {"thread", "workers"}

\* h3_io_listen_start fails at step: it leaves everything to the child's pool,
\* or calls teardown
listen_start_fails(h, step) ==
  CASE step = "wakeup" -> h
    [] step = "workers" -> h
    [] step = "thread" -> Released(h)
    [] OTHER -> Released(h3q_engine_create_fails(h, step))

\* h3_io_listen_start in the thread whose places are pcs, from "start" to ok.
\* When it fails before the engine is asked for it leaves the socket alone,
\* when it fails later teardown closes it; the caller closes it in both cases.
ListenStart(c, pcs, ok) ==
  \/ LET step == Steps[Cardinality(held[c]) + 1] IN
     /\ pcs[c] = "start"
     /\ \/ /\ held' = [held EXCEPT ![c] = @ \cup {step}]
           /\ IF step = "thread"
                THEN /\ listener' = [listener EXCEPT ![c] = "up"]
                     /\ pcs' = [pcs EXCEPT ![c] = ok]
                ELSE UNCHANGED <<listener, pcs>>
           /\ UNCHANGED failed
        \/ /\ MayFail /\ Fail(c) /\ UNCHANGED listener
           /\ held' = [held EXCEPT ![c] = listen_start_fails(@, step)]
           /\ pcs' = [pcs EXCEPT ![c] =
                        IF step \in {"wakeup", "workers"} THEN "close" ELSE "failed"]
     /\ UNCHANGED <<slot, strayClose>>
  \/ /\ pcs[c] = "failed" /\ Close(c)
     /\ pcs' = [pcs EXCEPT ![c] = "close"] /\ UNCHANGED <<listener, failed, held>>
  \/ /\ pcs[c] = "close" /\ Close(c)
     /\ pcs' = [pcs EXCEPT ![c] = ok] /\ UNCHANGED <<listener, failed, held>>
-----------------------------------------------------------------------------
(* h3_child_init.                                                          *)

\* the port is there, or owned by another child and an acquirer is started
\* (or cannot be), or out of reach
ChildInit(c) ==
  /\ main[c] = "init"
  /\ \/ /\ Open(c, "ok") /\ main' = [main EXCEPT ![c] = "start"]
        /\ UNCHANGED <<acquirer, failed>>
     \/ /\ Open(c, "again") /\ main' = [main EXCEPT ![c] = "run"]
        /\ \/ acquirer' = [acquirer EXCEPT ![c] = "loop"] /\ UNCHANGED failed
           \/ MayFail /\ Fail(c) /\ UNCHANGED acquirer
     \/ /\ Open(c, "error") /\ main' = [main EXCEPT ![c] = "run"]
        /\ Fail(c) /\ UNCHANGED acquirer
  /\ UNCHANGED <<flags, listener, strayClose, held>>

MainStart(c) == ListenStart(c, main, "run") /\ UNCHANGED <<acquirer, flags>>
-----------------------------------------------------------------------------
(* port_acquire_thread_fn.                                                 *)

GiveUp_Owned(result) == result # "ok"

\* only a port that is owned is worth another try
GiveUp(result) == result = "error"

StopSeen_Never(c) == FALSE

\* the loop condition
StopSeen(c) == child_stopping[c]

Acquire(c) ==
  /\ acquirer[c] = "loop"
  /\ \/ /\ StopSeen(c) /\ acquirer' = [acquirer EXCEPT ![c] = "done"]
        /\ UNCHANGED <<slot, failed>>
     \/ /\ ~StopSeen(c)
        /\ \E result \in {"ok", "again", "error"} :
             /\ Open(c, result)
             /\ failed' = [failed EXCEPT ![c] = @ \/ result = "error"]
             /\ acquirer' = [acquirer EXCEPT ![c] =
                  IF GiveUp(result) THEN "done" ELSE IF result = "ok" THEN "opened" ELSE "sleep"]
  /\ UNCHANGED <<main, flags, listener, strayClose, held>>

AcquireRetry(c) ==
  /\ acquirer[c] = "sleep"
  /\ acquirer' = [acquirer EXCEPT ![c] = "loop"]
  /\ UNCHANGED <<slot, main, flags, listener, failed, strayClose, held>>

StopStep_FallsThrough == "start"

\* the socket of a child that is stopping is not used any more
StopStep == "done"

\* child_stopping is looked at once more before the listener is started
Acquired(c) ==
  /\ acquirer[c] = "opened"
  /\ IF child_stopping[c]
       THEN Close(c) /\ acquirer' = [acquirer EXCEPT ![c] = StopStep]
       ELSE acquirer' = [acquirer EXCEPT ![c] = "start"] /\ UNCHANGED <<slot, strayClose>>
  /\ UNCHANGED <<main, flags, listener, failed, held>>

AcquirerStart(c) == ListenStart(c, acquirer, "done") /\ UNCHANGED <<main, flags>>
-----------------------------------------------------------------------------
(* The stop hooks.                                                         *)

\* h3_c1_child_stopping sets the flag and joins the acquirer
Stopping(c) ==
  /\ main[c] = "run"
  /\ main' = [main EXCEPT ![c] = "join"]
  /\ child_stopping' = [child_stopping EXCEPT ![c] = TRUE]
  /\ graceful' \in {graceful, [graceful EXCEPT ![c] = TRUE]}
  /\ UNCHANGED <<slot, acquirer, listener, failed, strayClose, held>>

AcquirerJoined(c) == acquirer[c] \in {"none", "done"}

\* then it drains, or stops at once
Joined(c) ==
  /\ main[c] = "join" /\ AcquirerJoined(c)
  /\ main' = [main EXCEPT ![c] =
       IF graceful[c] /\ listener[c] = "up" THEN "drain"
       ELSE IF listener[c] = "up" THEN "stop" ELSE "stopped"]
  /\ UNCHANGED <<slot, acquirer, flags, listener, failed, strayClose, held>>

\* h3_c1_child_stopped, or the pool's pre-cleanup, ends the drain
EndDrain(c) ==
  /\ main[c] = "drain"
  /\ main' = [main EXCEPT ![c] = "stop"]
  /\ UNCHANGED <<slot, acquirer, flags, listener, failed, strayClose, held>>

\* teardown
Teardown(c) ==
  /\ main[c] = "stop"
  /\ Close(c)
  /\ listener' = [listener EXCEPT ![c] = "down"]
  /\ held' = [held EXCEPT ![c] = Released(@)]
  /\ main' = [main EXCEPT ![c] = "stopped"]
  /\ UNCHANGED <<acquirer, flags, failed>>

Child(c) ==
  \/ ChildInit(c) \/ MainStart(c) \/ Stopping(c) \/ Joined(c) \/ EndDrain(c) \/ Teardown(c)

Acquirer(c) == Acquire(c) \/ AcquireRetry(c) \/ Acquired(c) \/ AcquirerStart(c)

Next ==
  \E c \in Children :
    Fork(c) \/ Exit(c) \/ OpenOther(c) \/ CloseOther(c) \/ Child(c) \/ Acquirer(c)

Spec == Init /\ [][Next]_vars

\* Fairness: the threads of a child run.  Nothing makes the MPM start, stop or
\* kill a child, or end a drain.
FairSpec ==
  /\ Spec
  /\ \A c \in Children :
       /\ WF_vars(ChildInit(c) \/ MainStart(c)) /\ WF_vars(Joined(c)) /\ WF_vars(Teardown(c))
       /\ WF_vars(Acquirer(c))
-----------------------------------------------------------------------------
(* Properties.                                                             *)

\* A child serves the port through a listener it will tear down: the socket
\* of a running listener is open; after the stop hooks the child holds neither
\* socket nor listener, however the stop raced with the acquirer; and unless
\* h3_io_listen_start failed, h3_socket_close only ever closes the UDP socket,
\* never a descriptor another thread was given its number for.
SocketDiscipline ==
  \A c \in Children :
    /\ listener[c] = "up" => slot[c] = "udp"
    /\ main[c] = "stopped" => slot[c] # "udp" /\ listener[c] # "up"
    /\ strayClose[c] => failed[c]

\* A listener that is up has all it needs, and a child that has none, because
\* it never got one, some step of its start failed or it was torn down, holds
\* nothing but the wakeup sockets its pool will close: whatever a step made
\* before the failing one, and whoever owned it then, was released.
NothingHeld ==
  \A c \in Children :
    /\ listener[c] = "up" => held[c] = Resources
    /\ listener[c] # "up" /\ main[c] # "start" /\ acquirer[c] # "start" =>
         held[c] \subseteq {"wakeup"}

\* The stop hook returns, with an acquirer asleep, opening or starting.
StopJoins ==
  \A c \in Children : main[c] = "join" ~> main[c] # "join"

\* A child that found the port owned gets it when the owners are gone: the
\* last child that runs serves the port in the end, unless one of its own
\* start-up steps failed.
PortReacquired ==
  \A c \in Children :
    <>[](main[c] = "run" /\ \A d \in Children \ {c} : main[d] = "dead")
      => <>[](listener[c] = "up" \/ failed[c])
=============================================================================
