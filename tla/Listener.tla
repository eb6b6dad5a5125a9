------------------------------ MODULE Listener ------------------------------
(***************************************************************************)
(* The QUIC listener of one child process: the loop of h3_event_thread     *)
(* (h3_threads.c), accepting, pending handshakes, connection limit, drain  *)
(* and teardown of h3_io.c, and the stop hooks of h3_server.c that the     *)
(* child's main thread runs.                                               *)
(*                                                                         *)
(* A session is module Session; here it serves until some pass aborts it   *)
(* and is destroyed in some later pass.  The MPM is external: it counts    *)
(* the connections it was told of (notes) and, stopping gracefully, waits  *)
(* for the count to reach 0 or gives up.                                   *)
(***************************************************************************)
EXTENDS Integers, Sequences, FiniteSets

CONSTANTS
  Conns,             \* the connections peers open
  MaxConnections,    \* H3MaxConnections
  HandshakeTimeout   \* H3HandshakeTimeout, in ticks
ASSUME ListenerAssumption ==
  /\ IsFiniteSet(Conns) /\ MaxConnections \in Nat \ {0}
  /\ HandshakeTimeout \in Nat \ {0}

VARIABLES
  thread_running, draining,
  pending_handshakes,  \* sequence of [conn, age]
  active_sessions,     \* sequence of connections
  active_session_count,
  notes,               \* connections noted with the MPM
  peer,                \* what OpenSSL reports of each connection
  freed,               \* how often each connection was freed
  aborted,             \* the sessions that are aborted
  pc,                  \* where the event thread is
  i,                   \* the index of its inner loop
  served,              \* how often the current turn serviced each connection
  main                 \* where the main thread is: "serve", "drain", "join", "down"

vars == <<thread_running, draining, pending_handshakes, active_sessions,
          active_session_count, notes, peer, freed, aborted, pc, i, served, main>>

flagVars == <<thread_running, draining, main>>
connVars == <<pending_handshakes, active_sessions, active_session_count, notes,
              freed, aborted>>

PeerStates == {"none", "queued", "handshake", "established", "closed"}
Pending    == [conn : Conns, age : 0..HandshakeTimeout]

TypeOK ==
  /\ thread_running \in BOOLEAN /\ draining \in BOOLEAN
  /\ pending_handshakes \in Seq(Pending)
  /\ active_sessions \in Seq(Conns) /\ active_session_count \in Nat
  /\ notes \in Nat
  /\ peer \in [Conns -> PeerStates]
  /\ freed \in [Conns -> Nat]
  /\ aborted \subseteq Conns
  /\ pc \in {"top", "accept", "progress", "spawned", "sessions", "cleanup", "exited"}
  /\ i \in Nat \ {0}
  /\ served \in [Conns -> Nat]
  /\ main \in {"serve", "drain", "join", "down"}

\* h3_io_listen_start has started the event thread
Init ==
  /\ thread_running = TRUE /\ draining = FALSE
  /\ pending_handshakes = <<>> /\ active_sessions = <<>>
  /\ active_session_count = 0 /\ notes = 0
  /\ peer = [c \in Conns |-> "none"]
  /\ freed = [c \in Conns |-> 0]
  /\ aborted = {}
  /\ pc = "top" /\ i = 1
  /\ served = [c \in Conns |-> 0]
  /\ main = "serve"
-----------------------------------------------------------------------------
(* Peers and the clock.                                                    *)

\* A connection arrives, finishes its handshake or closes; OpenSSL learns of
\* it when the event thread pumps the engine.
Peer(c) ==
  /\ pc = "top" /\ freed[c] = 0
  /\ \/ peer[c] = "none" /\ peer' = [peer EXCEPT ![c] = "queued"]
     \/ peer[c] = "handshake" /\ peer' = [peer EXCEPT ![c] = "established"]
     \/ peer[c] \in {"handshake", "established"} /\ peer' = [peer EXCEPT ![c] = "closed"]
  /\ UNCHANGED <<flagVars, connVars, pc, i, served>>

Tick ==
  /\ \E k \in DOMAIN pending_handshakes : pending_handshakes[k].age < HandshakeTimeout
  /\ pending_handshakes' = [k \in DOMAIN pending_handshakes |->
       [pending_handshakes[k] EXCEPT !.age = IF @ < HandshakeTimeout THEN @ + 1 ELSE @]]
  /\ UNCHANGED <<flagVars, active_sessions, active_session_count, notes, freed, aborted,
                 peer, pc, i, served>>
-----------------------------------------------------------------------------
(* h3_event_thread.                                                        *)

LoopAgain_WaitsForPending ==
  thread_running \/ active_sessions # <<>> \/ pending_handshakes # <<>>

\* the loop condition
LoopAgain == thread_running \/ active_sessions # <<>>

\* wait_for_event and h3q_engine_pump; accepting only while not stopping
BeginTurn ==
  /\ pc = "top"
  /\ pc' = IF ~LoopAgain THEN "cleanup"
           ELSE IF thread_running /\ ~draining THEN "accept" ELSE "sessions"
  /\ i' = 1 /\ served' = [c \in Conns |-> 0]
  /\ UNCHANGED <<flagVars, connVars, peer>>

\* h3_io_at_connection_limit
AtLimit == Len(active_sessions) + Len(pending_handshakes) >= MaxConnections

Free(c) == freed' = [freed EXCEPT ![c] = @ + 1]

\* prepare_accepted_connection succeeds
Prepare(c) ==
  /\ pending_handshakes' = Append(pending_handshakes, [conn |-> c, age |-> 0])
  /\ notes' = notes + 1

\* one turn of the accept loop: the connection is prepared, or freed because
\* the limit is reached or h3q_conn_prepare failed
AcceptConnection(c) ==
  /\ pc = "accept" /\ peer[c] = "queued"
  /\ peer' = [peer EXCEPT ![c] = "handshake"]
  /\ \/ ~AtLimit /\ Prepare(c) /\ UNCHANGED freed
     \/ Free(c) /\ UNCHANGED <<pending_handshakes, notes>>
  /\ UNCHANGED <<flagVars, active_sessions, active_session_count, aborted, pc, i, served>>

EndAccept ==
  /\ pc = "accept" /\ \A c \in Conns : peer[c] # "queued"
  /\ pc' = "progress" /\ i' = 1
  /\ UNCHANGED <<flagVars, connVars, peer, served>>

SwapRemove_DropsLast(q, k) == SubSeq(q, 1, Len(q) - 1)

\* the last element takes the place of the removed one
SwapRemove(q, k) == SubSeq([q EXCEPT ![k] = q[Len(q)]], 1, Len(q) - 1)

\* note_conn_removed, called by remove_pending_handshake
NotesAfterRemove == notes - 1

RemovePending(k) == pending_handshakes' = SwapRemove(pending_handshakes, k)

Expired_Never(p) == FALSE

\* the handshake timed out
Expired(p) == p.age >= HandshakeTimeout

\* progress_pending_handshakes: the handshake timed out, or the connection
\* closed, or spawn_serviced_session failed and freed it
DropHandshake ==
  LET p == pending_handshakes[i] IN
  /\ pc = "progress" /\ i <= Len(pending_handshakes)
  /\ Expired(p) \/ peer[p.conn] \in {"closed", "established"}
  /\ Free(p.conn) /\ RemovePending(i) /\ notes' = NotesAfterRemove
  /\ UNCHANGED <<flagVars, active_sessions, active_session_count, aborted, peer, pc, i,
                 served>>

\* still shaking hands
KeepHandshake ==
  LET p == pending_handshakes[i] IN
  /\ pc = "progress" /\ i <= Len(pending_handshakes)
  /\ ~Expired(p) /\ peer[p.conn] = "handshake"
  /\ i' = i + 1
  /\ UNCHANGED <<flagVars, connVars, peer, pc, served>>

NotesAfterSpawn_Forgotten == notes

\* note_conn_added, called by spawn_serviced_session
NotesAfterSpawn == notes + 1

\* the handshake is done: spawn_serviced_session makes it a session, noted
\* once more, while it is still pending
SpawnSession ==
  LET p == pending_handshakes[i] IN
  /\ pc = "progress" /\ i <= Len(pending_handshakes)
  /\ ~Expired(p) /\ peer[p.conn] = "established"
  /\ active_sessions' = Append(active_sessions, p.conn)
  /\ active_session_count' = active_session_count + 1
  /\ notes' = NotesAfterSpawn
  /\ pc' = "spawned"
  /\ UNCHANGED <<flagVars, pending_handshakes, freed, aborted, peer, i, served>>

\* remove_pending_handshake, without freeing the connection
SpawnDone ==
  /\ pc = "spawned" /\ pc' = "progress"
  /\ RemovePending(i) /\ notes' = NotesAfterRemove
  /\ UNCHANGED <<flagVars, active_sessions, active_session_count, freed, aborted, peer, i,
                 served>>

EndProgress ==
  /\ pc = "progress" /\ i > Len(pending_handshakes)
  /\ pc' = "sessions" /\ i' = 1
  /\ UNCHANGED <<flagVars, connVars, peer, served>>

\* service_session_pass leaves the session aborted or not
ServiceSession(c) ==
  /\ pc = "sessions" /\ i <= Len(active_sessions) /\ c = active_sessions[i]
  /\ served' = [served EXCEPT ![c] = @ + 1]
  /\ aborted' \in IF peer[c] = "closed" THEN {aborted \cup {c}}
                  ELSE {aborted, aborted \cup {c}}

\* the session goes on, or is aborted and not shut down or still has tasks
KeepSession ==
  /\ \E c \in Conns : ServiceSession(c)
  /\ i' = i + 1
  /\ UNCHANGED <<flagVars, pending_handshakes, active_sessions, active_session_count,
                 notes, freed, peer, pc>>

IndexAfterRemove_Next == i + 1

\* do not increment i: the last element was swapped into this slot
IndexAfterRemove == i

\* the session is aborted, shut down and has no task left: it is destroyed
EndSession ==
  /\ \E c \in Conns : ServiceSession(c) /\ c \in aborted' /\ Free(c)
  /\ notes' = notes - 1
  /\ active_sessions' = SwapRemove(active_sessions, i)
  /\ active_session_count' = active_session_count - 1
  /\ i' = IndexAfterRemove
  /\ UNCHANGED <<flagVars, pending_handshakes, peer, pc>>

EndTurn ==
  /\ pc = "sessions" /\ i > Len(active_sessions)
  /\ pc' = "top" /\ i' = 1
  /\ UNCHANGED <<flagVars, connVars, peer, served>>

\* the loop after the main loop goes on while a handshake is pending
CleanupNeeded == pending_handshakes # <<>>

\* it shuts the first one down and frees it
Cleanup ==
  /\ pc = "cleanup"
  /\ IF CleanupNeeded
       THEN /\ Free(pending_handshakes[1].conn) /\ RemovePending(1)
            /\ notes' = NotesAfterRemove
            /\ UNCHANGED pc
       ELSE pc' = "exited" /\ UNCHANGED <<freed, pending_handshakes, notes>>
  /\ UNCHANGED <<flagVars, active_sessions, active_session_count, aborted, peer, i, served>>
-----------------------------------------------------------------------------
(* The child's main thread.                                                *)

\* h3_c1_child_stopping, graceful: h3_io_listen_drain
StartDrain ==
  /\ main = "serve"
  /\ draining' = TRUE /\ main' = "drain"
  /\ UNCHANGED <<thread_running, connVars, peer, pc, i, served>>

\* h3_io_listen_stop begins teardown: at once, or when the MPM's wait is over
Stop ==
  /\ main \in {"serve", "drain"}
  /\ thread_running' = FALSE /\ main' = "join"
  /\ UNCHANGED <<draining, connVars, peer, pc, i, served>>

\* the MPM stops waiting because no connection is noted any more
StopDrained == main = "drain" /\ notes = 0 /\ Stop

\* teardown joined the event thread: the worker pool, the engine and the
\* socket go, and a second teardown finds nothing to do
Joined ==
  /\ main = "join" /\ pc = "exited"
  /\ main' = "down"
  /\ UNCHANGED <<thread_running, draining, connVars, peer, pc, i, served>>

EventThread ==
  \/ BeginTurn \/ (\E c \in Conns : AcceptConnection(c)) \/ EndAccept
  \/ DropHandshake \/ KeepHandshake \/ SpawnSession \/ SpawnDone \/ EndProgress
  \/ KeepSession \/ EndSession \/ EndTurn \/ Cleanup

Next ==
  \/ EventThread \/ Tick \/ (\E c \in Conns : Peer(c))
  \/ StartDrain \/ Stop \/ Joined

Spec == Init /\ [][Next]_vars

(***************************************************************************)
(* Fairness.  The event thread keeps turning, time passes, the join        *)
(* returns.  SF of EndSession once the thread is stopped: a session ends   *)
(* in time (Session!StopEndsSession).  Of the MPM only StopDrained is      *)
(* fair: its own bound on the wait (GracefulShutdownTimeout) is off by     *)
(* default.                                                                *)
(***************************************************************************)
FairSpec ==
  /\ Spec /\ WF_vars(EventThread) /\ WF_vars(Tick) /\ WF_vars(Joined)
  /\ WF_vars(StopDrained) /\ SF_vars(~thread_running /\ EndSession)
-----------------------------------------------------------------------------
(* Properties.                                                             *)

\* Every connection the listener holds, pending or active, is noted with the
\* MPM at every moment, also while it changes from one array to the other, so
\* that a graceful stop waits for it; and nothing else is noted.
NotesBalanced ==
  /\ notes = Len(pending_handshakes) + Len(active_sessions)
  /\ active_session_count = Len(active_sessions)

\* 1 while a connection is in both arrays
Spawned == IF pc = "spawned" THEN 1 ELSE 0

\* H3MaxConnections bounds pending and active connections together.
LimitKept ==
  Len(pending_handshakes) + Len(active_sessions) - Spawned <= MaxConnections

PendingConns == {pending_handshakes[k].conn : k \in DOMAIN pending_handshakes}
ActiveConns  == {active_sessions[k] : k \in DOMAIN active_sessions}

\* A connection taken from h3q_engine_accept_conn is pending, active or freed,
\* and freed once; it is in one place of one array, but for the moment between
\* spawn_serviced_session and remove_pending_handshake; and when teardown has
\* joined the event thread, none is left in either.
ConnOwnedOnce ==
  /\ \A c \in Conns :
       IF peer[c] \in {"none", "queued"}
         THEN freed[c] = 0 /\ c \notin PendingConns \cup ActiveConns
         ELSE freed[c] = IF c \in PendingConns \cup ActiveConns THEN 0 ELSE 1
  /\ Cardinality(PendingConns \cup ActiveConns) + Spawned =
       Len(pending_handshakes) + Len(active_sessions)
  /\ main = "down" => PendingConns \cup ActiveConns = {}

\* A turn of the loop services every session exactly once, whatever sessions
\* it removes on the way by swapping the last one into their place.
EverySessionServed ==
  pc = "sessions" =>
    \A k \in DOMAIN active_sessions : served[active_sessions[k]] = IF k < i THEN 1 ELSE 0

\* A stop ends: teardown joins the event thread and returns.
StopReturns == main = "join" ~> main = "down"

\* A connection that was accepted and does not finish its handshake within
\* H3HandshakeTimeout is terminated and its resources are cleaned up, as long
\* as the child is not draining.
ServingResolvesHandshake ==
  \A c \in Conns : c \in PendingConns ~> c \notin PendingConns \/ draining

\* The same without the exception, as H3HandshakeTimeout is documented.
HandshakeResolved == \A c \in Conns : c \in PendingConns ~> c \notin PendingConns
=============================================================================
