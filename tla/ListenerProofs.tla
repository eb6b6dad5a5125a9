--------------------------- MODULE ListenerProofs ---------------------------
(***************************************************************************)
(* Proofs about Listener for every set of connections, every limit on them *)
(* and every handshake timeout.                                            *)
(***************************************************************************)
EXTENDS Listener, FiniteSetTheorems, SequenceTheorems, TLAPS

\* The connections are where the event thread looks for them, counted and
\* within the limit; after spawn_serviced_session the handshake it has to
\* remove is still there.
IInv ==
  /\ TypeOK /\ NotesBalanced /\ LimitKept
  /\ pc = "spawned" => i <= Len(pending_handshakes)

\* Removing an element by swapping in the last one shortens an array by one.
LEMMA SwapRemoveType ==
  ASSUME NEW S, NEW q \in Seq(S), NEW k \in 1..Len(q)
  PROVE  SwapRemove(q, k) \in Seq(S) /\ Len(SwapRemove(q, k)) = Len(q) - 1
<1> DEFINE n == Len(q)
           r == [q EXCEPT ![k] = q[n]]
<1>1. n \in Nat /\ n >= 1 /\ q[n] \in S
  OBVIOUS
<1>2. r \in Seq(S) /\ Len(r) = n
  BY <1>1, ExceptSeq
<1>3. \A j \in 1..(n - 1) : r[j] \in S
  BY <1>1, <1>2
<1> HIDE DEF r
<1> DEFINE m == n - 1
<1>4. m \in Nat /\ \A j \in 1..m : r[j] \in S
  BY <1>1, <1>3
<1> HIDE DEF m
<1>5. SubSeq(r, 1, m) \in Seq(S) /\ Len(SubSeq(r, 1, m)) = IF 1 <= m THEN m - 1 + 1 ELSE 0
  BY <1>4, SubSeqProperties
<1>6. Len(SubSeq(r, 1, m)) = m
  BY <1>4, <1>5
<1> QED BY <1>5, <1>6 DEF SwapRemove, r, m

\* What the types say about the arrays.
LEMMA ArrayTypes ==
  ASSUME TypeOK
  PROVE  /\ Len(pending_handshakes) \in Nat /\ Len(active_sessions) \in Nat
         /\ notes \in Nat /\ active_session_count \in Nat /\ i \in Nat /\ i >= 1
         /\ \A k \in 1..Len(pending_handshakes) : pending_handshakes[k] \in Pending
         /\ \A k \in 1..Len(active_sessions) : active_sessions[k] \in Conns
  BY DEF TypeOK

\* A listener that has just started holds no connection.
LEMMA InitInv == Init => IInv
<1> SUFFICES ASSUME Init PROVE IInv
  OBVIOUS
<1>1. TypeOK
  <2>1. pending_handshakes \in Seq(Pending) /\ active_sessions \in Seq(Conns)
    BY DEF Init
  <2>2. /\ peer \in [Conns -> PeerStates]
        /\ freed \in [Conns -> Nat] /\ served \in [Conns -> Nat]
    BY DEF Init, PeerStates
  <2>3. thread_running \in BOOLEAN /\ draining \in BOOLEAN /\ aborted \subseteq Conns
    BY Zenon DEF Init
  <2>4. active_session_count \in Nat /\ notes \in Nat /\ i \in Nat \ {0}
    BY DEF Init
  <2>5. pc = "top" /\ main = "serve"
    BY DEF Init
  <2> QED BY <2>1, <2>2, <2>3, <2>4, <2>5 DEF TypeOK
<1>2. Len(pending_handshakes) = 0 /\ Len(active_sessions) = 0
  BY DEF Init
<1>3. NotesBalanced /\ LimitKept
  BY <1>2, ListenerAssumption DEF Init, NotesBalanced, LimitKept, Spawned
<1> QED BY <1>1, <1>3 DEF Init, IInv

\* Steps that leave the arrays, the counters and "spawned" alone.
LEMMA KeepArrays ==
  ASSUME IInv, TypeOK', UNCHANGED <<active_session_count, notes>>,
         Len(pending_handshakes') = Len(pending_handshakes),
         Len(active_sessions') = Len(active_sessions),
         (pc # "spawned" /\ pc' # "spawned") \/ UNCHANGED <<pc, i>>
  PROVE  IInv'
<1>1. NotesBalanced'
  BY DEF IInv, NotesBalanced
<1>2. LimitKept'
  <2>1. Spawned' = Spawned
    BY DEF Spawned
  <2> QED BY <2>1 DEF IInv, LimitKept
<1>3. pc' = "spawned" => i' <= Len(pending_handshakes')
  BY DEF IInv
<1> QED BY <1>1, <1>2, <1>3 DEF IInv

\* prepare_accepted_connection takes a connection only below the limit.
LEMMA AcceptInv ==
  ASSUME IInv, NEW c \in Conns, AcceptConnection(c) PROVE IInv'
<1> USE DEF flagVars
<1>a. TypeOK /\ NotesBalanced /\ LimitKept /\ pc = "accept" /\ pc' = "accept"
  BY DEF IInv, AcceptConnection
<1>p. peer' \in [Conns -> PeerStates]
  BY <1>a DEF AcceptConnection, TypeOK, PeerStates
<1>1. CASE ~AtLimit /\ Prepare(c) /\ UNCHANGED freed
  <2>1. [conn |-> c, age |-> 0] \in Pending
    BY ListenerAssumption DEF Pending
  <2>2. /\ pending_handshakes' \in Seq(Pending)
        /\ Len(pending_handshakes') = Len(pending_handshakes) + 1
    BY <1>1, <1>a, <2>1 DEF Prepare, TypeOK
  <2>3. notes' = notes + 1 /\ UNCHANGED <<active_sessions, active_session_count>>
    BY <1>1 DEF Prepare, AcceptConnection
  <2>4. TypeOK'
    BY <1>1, <1>a, <1>p, <2>2, <2>3 DEF AcceptConnection, TypeOK
  <2>5. NotesBalanced'
    BY <1>a, <2>2, <2>3, ArrayTypes DEF NotesBalanced
  <2>6. LimitKept'
    BY <1>1, <1>a, <2>2, <2>3, ArrayTypes, ListenerAssumption DEF LimitKept, Spawned, AtLimit
  <2> QED BY <1>a, <2>4, <2>5, <2>6 DEF IInv
<1>2. CASE Free(c) /\ UNCHANGED <<pending_handshakes, notes>>
  <2>1. TypeOK'
    BY <1>2, <1>a, <1>p DEF AcceptConnection, Free, TypeOK
  <2> QED BY <2>1, <1>2, <1>a, KeepArrays DEF AcceptConnection
<1> QED BY <1>1, <1>2 DEF AcceptConnection

\* remove_pending_handshake takes one handshake and its note.
LEMMA RemoveInv ==
  ASSUME IInv, NEW k \in 1..Len(pending_handshakes), RemovePending(k),
         notes' = NotesAfterRemove, UNCHANGED <<active_sessions, active_session_count>>
  PROVE  /\ pending_handshakes' \in Seq(Pending) /\ notes' \in Nat
         /\ NotesBalanced'
         /\ Len(pending_handshakes') = Len(pending_handshakes) - 1
<1>1. TypeOK /\ NotesBalanced
  BY DEF IInv
<1>2. /\ pending_handshakes' \in Seq(Pending)
      /\ Len(pending_handshakes') = Len(pending_handshakes) - 1
  BY <1>1, SwapRemoveType DEF RemovePending, TypeOK
<1>3. notes' = notes - 1 /\ notes >= 1
  BY <1>1, ArrayTypes DEF NotesAfterRemove, NotesBalanced
<1> QED BY <1>1, <1>2, <1>3, ArrayTypes DEF NotesBalanced

\* progress_pending_handshakes drops a handshake.
LEMMA DropInv == ASSUME IInv, DropHandshake PROVE IInv'
<1> USE DEF flagVars
<1>a. TypeOK /\ NotesBalanced /\ LimitKept /\ pc = "progress" /\ pc' = "progress"
  BY DEF IInv, DropHandshake
<1>1. i \in 1..Len(pending_handshakes)
  BY <1>a, ArrayTypes DEF DropHandshake
<1>2. /\ pending_handshakes' \in Seq(Pending) /\ notes' \in Nat /\ NotesBalanced'
      /\ Len(pending_handshakes') = Len(pending_handshakes) - 1
  BY <1>1, RemoveInv DEF DropHandshake
<1>3. TypeOK'
  <2>1. freed' \in [Conns -> Nat]
    <3>1. pending_handshakes[i].conn \in Conns
      BY <1>1, <1>a, ArrayTypes DEF Pending
    <3> QED BY <3>1, <1>a DEF DropHandshake, Free, TypeOK
  <2> QED BY <2>1, <1>2, <1>a DEF DropHandshake, TypeOK
<1>4. LimitKept'
  BY <1>a, <1>2, ArrayTypes, ListenerAssumption DEF DropHandshake, LimitKept, Spawned
<1> QED BY <1>a, <1>2, <1>3, <1>4 DEF IInv

\* spawn_serviced_session notes the session while its handshake is still noted.
LEMMA SpawnInv == ASSUME IInv, SpawnSession PROVE IInv'
<1> USE DEF flagVars
<1>a. TypeOK /\ NotesBalanced /\ LimitKept /\ pc = "progress" /\ pc' = "spawned"
  BY DEF IInv, SpawnSession
<1>1. i \in 1..Len(pending_handshakes) /\ UNCHANGED <<pending_handshakes, i>>
  BY <1>a, ArrayTypes DEF SpawnSession
<1>2. pending_handshakes[i].conn \in Conns
  BY <1>1, <1>a, ArrayTypes DEF Pending
<1>3. /\ active_sessions' \in Seq(Conns) /\ Len(active_sessions') = Len(active_sessions) + 1
      /\ notes' = notes + 1 /\ active_session_count' = active_session_count + 1
  BY <1>2, <1>a DEF SpawnSession, NotesAfterSpawn, TypeOK
<1>4. TypeOK'
  BY <1>a, <1>3 DEF SpawnSession, TypeOK
<1>5. NotesBalanced' /\ LimitKept'
  BY <1>a, <1>1, <1>3, ArrayTypes, ListenerAssumption DEF NotesBalanced, LimitKept, Spawned
<1> QED BY <1>a, <1>1, <1>4, <1>5 DEF IInv

\* remove_pending_handshake follows it.
LEMMA SpawnDoneInv == ASSUME IInv, SpawnDone PROVE IInv'
<1> USE DEF flagVars
<1>a. TypeOK /\ NotesBalanced /\ LimitKept /\ pc = "spawned" /\ pc' = "progress"
  BY DEF IInv, SpawnDone
<1>1. i \in 1..Len(pending_handshakes)
  BY <1>a, ArrayTypes DEF IInv
<1>2. /\ pending_handshakes' \in Seq(Pending) /\ notes' \in Nat /\ NotesBalanced'
      /\ Len(pending_handshakes') = Len(pending_handshakes) - 1
  BY <1>1, RemoveInv DEF SpawnDone
<1>3. TypeOK'
  BY <1>2, <1>a DEF SpawnDone, TypeOK
<1>4. LimitKept'
  BY <1>a, <1>2, ArrayTypes, ListenerAssumption DEF SpawnDone, LimitKept, Spawned
<1> QED BY <1>a, <1>2, <1>3, <1>4 DEF IInv

\* service_session_pass: the session stays.
LEMMA KeepInv == ASSUME IInv, KeepSession PROVE IInv'
<1> USE DEF flagVars
<1>a. TypeOK /\ pc = "sessions" /\ pc' = "sessions"
  BY DEF IInv, KeepSession, ServiceSession
<1>1. i' \in Nat \ {0}
  BY <1>a, ArrayTypes DEF KeepSession
<1>2. PICK c \in Conns : ServiceSession(c)
  BY DEF KeepSession
<1>3. served' \in [Conns -> Nat] /\ aborted' \subseteq Conns
  BY SMTT(30), <1>2, <1>a DEF ServiceSession, TypeOK
<1>4. TypeOK'
  BY <1>a, <1>1, <1>3 DEF KeepSession, TypeOK
<1> QED BY <1>4, <1>a, KeepArrays DEF KeepSession

\* h3_session_destroy and the removal of the session with its note.
LEMMA EndSessionInv == ASSUME IInv, EndSession PROVE IInv'
<1> USE DEF flagVars
<1>1. PICK c \in Conns : ServiceSession(c) /\ c \in aborted' /\ Free(c)
  BY DEF EndSession
<1>a. TypeOK /\ NotesBalanced /\ LimitKept /\ pc = "sessions" /\ pc' = "sessions"
  BY <1>1 DEF IInv, EndSession, ServiceSession
<1>2. i \in 1..Len(active_sessions)
  BY <1>1, <1>a, ArrayTypes DEF ServiceSession
<1>3. /\ active_sessions' \in Seq(Conns)
      /\ Len(active_sessions') = Len(active_sessions) - 1
  BY Zenon, <1>2, <1>a, SwapRemoveType DEF EndSession, TypeOK
<1>4. /\ notes' = notes - 1 /\ notes >= 1 /\ UNCHANGED pending_handshakes
      /\ active_session_count' = active_session_count - 1 /\ active_session_count >= 1
  BY <1>2, <1>a, ArrayTypes DEF EndSession, NotesBalanced
<1>5. /\ served' \in [Conns -> Nat] /\ aborted' \subseteq Conns
      /\ freed' \in [Conns -> Nat]
  <2>1. aborted' \subseteq Conns
    BY <1>1, <1>a DEF ServiceSession, TypeOK
  <2>2. served' \in [Conns -> Nat]
    BY <1>1, <1>a DEF ServiceSession, TypeOK
  <2>3. freed' \in [Conns -> Nat]
    BY <1>1, <1>a DEF Free, TypeOK
  <2> QED BY <2>1, <2>2, <2>3
<1>6. notes' \in Nat /\ active_session_count' \in Nat
  BY <1>4, <1>a, ArrayTypes
<1>7. TypeOK'
  BY Zenon, <1>a, <1>3, <1>5, <1>6 DEF EndSession, IndexAfterRemove, TypeOK
<1>8. NotesBalanced' /\ LimitKept'
  BY <1>a, <1>3, <1>4, ArrayTypes, ListenerAssumption DEF NotesBalanced, LimitKept, Spawned
<1> QED BY <1>a, <1>7, <1>8 DEF IInv

\* The loop after the main loop of h3_event_thread.
LEMMA CleanupInv == ASSUME IInv, Cleanup PROVE IInv'
<1> USE DEF flagVars
<1>a. TypeOK /\ NotesBalanced /\ LimitKept /\ pc = "cleanup"
  BY DEF IInv, Cleanup
<1>1. CASE CleanupNeeded
  <2>1. 1 \in 1..Len(pending_handshakes)
    BY <1>1, <1>a DEF CleanupNeeded, TypeOK
  <2>2. pending_handshakes[1].conn \in Conns
    BY <2>1, <1>a, ArrayTypes DEF Pending
  <2>3. /\ RemovePending(1) /\ notes' = NotesAfterRemove /\ pc' = pc
        /\ UNCHANGED <<active_sessions, active_session_count>>
    BY <1>1 DEF Cleanup
  <2>4. /\ pending_handshakes' \in Seq(Pending) /\ notes' \in Nat /\ NotesBalanced'
        /\ Len(pending_handshakes') = Len(pending_handshakes) - 1
    BY <2>1, <2>3, RemoveInv
  <2>5. freed' \in [Conns -> Nat]
    <3>1. Free(pending_handshakes[1].conn)
      BY <1>1 DEF Cleanup
    <3> QED BY <3>1, <1>a, <2>2 DEF Free, TypeOK
  <2>6. TypeOK'
    BY <1>a, <2>3, <2>4, <2>5 DEF Cleanup, TypeOK
  <2>7. LimitKept'
    BY <1>a, <2>3, <2>4, ArrayTypes, ListenerAssumption DEF LimitKept, Spawned
  <2> QED BY <1>a, <2>3, <2>4, <2>6, <2>7 DEF IInv
<1>2. CASE ~CleanupNeeded
  <2>1. /\ pc' = "exited" /\ UNCHANGED <<freed, pending_handshakes, notes>>
        /\ UNCHANGED <<active_sessions, active_session_count>>
    BY <1>2 DEF Cleanup
  <2>2. TypeOK'
    BY <1>a, <2>1 DEF Cleanup, TypeOK
  <2> QED BY <1>a, <2>1, <2>2, KeepArrays
<1> QED BY <1>1, <1>2

\* The clock ages the pending handshakes up to H3HandshakeTimeout.
LEMMA TickInv == ASSUME IInv, Tick PROVE IInv'
<1> USE DEF flagVars
<1> DEFINE n == Len(pending_handshakes)
           aged == [k \in 1..n |-> [pending_handshakes[k] EXCEPT !.age =
                                      IF @ < HandshakeTimeout THEN @ + 1 ELSE @]]
<1>a. TypeOK
  BY DEF IInv
<1>1. n \in Nat /\ pending_handshakes' = aged
  BY <1>a DEF Tick, TypeOK
<1>2. ASSUME NEW k \in 1..n PROVE aged[k] \in Pending
  <2>1. pending_handshakes[k] \in Pending
    BY <1>a, ArrayTypes
  <2> QED BY <2>1, ListenerAssumption DEF Pending
<1> HIDE DEF aged
<1>3. aged \in Seq(Pending) /\ Len(aged) = n
  <2>1. aged = [k \in 1..n |-> aged[k]]
    BY DEF aged
  <2> QED BY <2>1, <1>1, <1>2
<1>4. TypeOK'
  BY Zenon, <1>a, <1>1, <1>3 DEF Tick, TypeOK
<1> QED BY <1>4, <1>1, <1>3, KeepArrays DEF Tick

\* The steps of the peers, the main thread and the event thread that move no
\* connection.
LEMMA FrameInv ==
  ASSUME IInv,
         \/ (\E c \in Conns : Peer(c)) \/ BeginTurn \/ EndAccept \/ KeepHandshake
         \/ EndProgress \/ EndTurn \/ StartDrain \/ Stop \/ Joined \/ UNCHANGED vars
  PROVE  IInv'
<1> USE DEF connVars, flagVars
<1>a. TypeOK
  BY DEF IInv
<1>1. CASE \E c \in Conns : Peer(c)
  <2>1. PICK c \in Conns : Peer(c)
    BY <1>1
  <2>2. peer' \in [Conns -> PeerStates]
    BY Zenon, <2>1, <1>a DEF Peer, TypeOK, PeerStates
  <2>3. TypeOK'
    BY <2>1, <2>2, <1>a DEF Peer, TypeOK
  <2> QED BY <2>1, <2>3, KeepArrays DEF Peer
<1>2. CASE BeginTurn
  <2>1. pc = "top" /\ pc' \in {"cleanup", "accept", "sessions"}
    BY <1>2 DEF BeginTurn
  <2>2. served' \in [Conns -> Nat]
    BY <1>2 DEF BeginTurn
  <2>3. TypeOK'
    BY <1>2, <2>1, <2>2, <1>a DEF BeginTurn, TypeOK
  <2> QED BY <1>2, <2>1, <2>3, KeepArrays DEF BeginTurn
<1>3. CASE EndAccept
  <2>1. TypeOK'
    BY <1>3, <1>a DEF EndAccept, TypeOK
  <2> QED BY <1>3, <2>1, KeepArrays DEF EndAccept
<1>4. CASE KeepHandshake
  <2>1. TypeOK'
    BY <1>4, <1>a DEF KeepHandshake, TypeOK
  <2> QED BY <1>4, <2>1, KeepArrays DEF KeepHandshake
<1>5. CASE EndProgress
  <2>1. TypeOK'
    BY <1>5, <1>a DEF EndProgress, TypeOK
  <2> QED BY <1>5, <2>1, KeepArrays DEF EndProgress
<1>6. CASE EndTurn
  <2>1. TypeOK'
    BY <1>6, <1>a DEF EndTurn, TypeOK
  <2> QED BY <1>6, <2>1, KeepArrays DEF EndTurn
<1>7. CASE StartDrain
  <2>1. draining' \in BOOLEAN
    BY Zenon, <1>7 DEF StartDrain
  <2>2. TypeOK'
    BY <1>7, <2>1, <1>a DEF StartDrain, TypeOK
  <2> QED BY <1>7, <2>2, KeepArrays DEF StartDrain
<1>8. CASE Stop
  <2>1. thread_running' \in BOOLEAN
    BY Zenon, <1>8 DEF Stop
  <2>2. TypeOK'
    BY <1>8, <2>1, <1>a DEF Stop, TypeOK
  <2> QED BY <1>8, <2>2, KeepArrays DEF Stop
<1>9. CASE Joined
  <2>1. TypeOK'
    BY <1>9, <1>a DEF Joined, TypeOK
  <2> QED BY <1>9, <2>1, KeepArrays DEF Joined
<1>10. CASE UNCHANGED vars
  <2>1. TypeOK'
    BY <1>10, <1>a DEF vars, TypeOK
  <2> QED BY <1>10, <2>1, KeepArrays DEF vars
<1> QED BY <1>1, <1>2, <1>3, <1>4, <1>5, <1>6, <1>7, <1>8, <1>9, <1>10

\* The listener keeps its connections counted and within the limit, whatever
\* the order of peers, clock, event thread and main thread.
THEOREM Invariance == Spec => []IInv
<1>1. IInv /\ [Next]_vars => IInv'
  <2> SUFFICES ASSUME IInv, [Next]_vars PROVE IInv'
    OBVIOUS
  <2>1. CASE \E c \in Conns : AcceptConnection(c)
    BY <2>1, AcceptInv
  <2>2. CASE DropHandshake \/ SpawnSession \/ SpawnDone
    BY <2>2, DropInv, SpawnInv, SpawnDoneInv
  <2>3. CASE KeepSession \/ EndSession \/ Cleanup
    BY <2>3, KeepInv, EndSessionInv, CleanupInv
  <2>4. CASE Tick
    BY <2>4, TickInv
  <2> QED BY <2>1, <2>2, <2>3, <2>4, FrameInv DEF Next, EventThread
<1> QED BY <1>1, InitInv, PTL DEF Spec

\* The listener's variables keep their types: in particular active_session_count
\* and the count of noted connections never go below 0.
THEOREM TypeCorrect == Spec => []TypeOK
<1>1. IInv => TypeOK
  BY DEF IInv
<1> QED BY <1>1, Invariance, PTL

\* note_conn_added and note_conn_removed are called so that every connection
\* the listener holds is noted with the MPM and nothing else is.
THEOREM NotesBalancedHolds == Spec => []NotesBalanced
<1>1. IInv => NotesBalanced
  BY DEF IInv
<1> QED BY <1>1, Invariance, PTL

\* h3_io_at_connection_limit keeps pending and active connections together
\* within H3MaxConnections.
THEOREM LimitKeptHolds == Spec => []LimitKept
<1>1. IInv => LimitKept
  BY DEF IInv
<1> QED BY <1>1, Invariance, PTL
-----------------------------------------------------------------------------
(* Where every connection is, and which sessions a turn has serviced.      *)

\* A connection is in at most one place of each array.
PendingOnce ==
  \A j, k \in 1..Len(pending_handshakes) :
    pending_handshakes[j].conn = pending_handshakes[k].conn => j = k

ActiveOnce ==
  \A j, k \in 1..Len(active_sessions) : active_sessions[j] = active_sessions[k] => j = k

\* It is in both only after spawn_serviced_session, as the last session and as
\* the handshake that is removed next.
Apart ==
  \A j \in 1..Len(pending_handshakes), k \in 1..Len(active_sessions) :
    pending_handshakes[j].conn = active_sessions[k] =>
      pc = "spawned" /\ j = i /\ k = Len(active_sessions)

Moving ==
  pc = "spawned" =>
    /\ Len(active_sessions) >= 1
    /\ pending_handshakes[i].conn = active_sessions[Len(active_sessions)]

\* It is freed when it has left the arrays, once.
FreedOnce ==
  \A c \in Conns :
    IF peer[c] \in {"none", "queued"}
      THEN freed[c] = 0 /\ c \notin PendingConns \cup ActiveConns
      ELSE freed[c] = IF c \in PendingConns \cup ActiveConns THEN 0 ELSE 1

\* The loop of h3_event_thread ends without a session, the thread without a
\* handshake, and it is joined after that.
Emptied ==
  /\ pc \in {"cleanup", "exited"} => active_sessions = <<>>
  /\ pc = "exited" => pending_handshakes = <<>>
  /\ main = "down" => pc = "exited"

\* A turn reaches the sessions with none of them serviced.
Unserved ==
  pc \in {"accept", "progress", "spawned"} => \A c \in Conns : served[c] = 0

OwnInv ==
  /\ PendingOnce /\ ActiveOnce /\ Apart /\ Moving /\ FreedOnce /\ Emptied
  /\ Unserved /\ EverySessionServed

\* What SwapRemove leaves at every place.
LEMMA SwapRemoveAt ==
  ASSUME NEW S, NEW q \in Seq(S), NEW k \in 1..Len(q), NEW j \in 1..(Len(q) - 1)
  PROVE  SwapRemove(q, k)[j] = IF j = k THEN q[Len(q)] ELSE q[j]
<1> DEFINE n == Len(q)
           r == [q EXCEPT ![k] = q[n]]
           m == n - 1
<1>1. n \in Nat /\ n >= 1 /\ q[n] \in S
  OBVIOUS
<1>2. r \in Seq(S) /\ Len(r) = n
  BY <1>1, ExceptSeq
<1>3. r[j] = IF j = k THEN q[n] ELSE q[j]
  BY <1>1
<1>4. m \in Nat /\ j \in 1..m /\ \A h \in 1..m : r[h] \in S
  BY <1>1, <1>2
<1> HIDE DEF r, m
<1>5. SubSeq(r, 1, m)[j] = r[1 + j - 1]
  BY <1>4, SubSeqProperties
<1>6. SubSeq(r, 1, m)[j] = r[j]
  BY <1>4, <1>5
<1> QED BY <1>3, <1>6 DEF SwapRemove, r, m

\* Removing place k of an array without repetition leaves one without
\* repetition that holds everything but what was at k.
LEMMA SwapOnce ==
  ASSUME NEW n \in Nat, NEW k \in 1..n, NEW f, NEW g,
         \A a, b \in 1..n : f[a] = f[b] => a = b,
         \A j \in 1..(n - 1) : g[j] = IF j = k THEN f[n] ELSE f[j]
  PROVE  /\ \A a, b \in 1..(n - 1) : g[a] = g[b] => a = b
         /\ {g[j] : j \in 1..(n - 1)} = {f[j] : j \in 1..n} \ {f[k]}
<1>1. \A a, b \in 1..(n - 1) : g[a] = g[b] => a = b
  OBVIOUS
<1>2. ASSUME NEW a \in 1..(n - 1) PROVE g[a] \in {f[j] : j \in 1..n} \ {f[k]}
  OBVIOUS
<1>3. ASSUME NEW a \in 1..n, f[a] # f[k] PROVE f[a] \in {g[j] : j \in 1..(n - 1)}
  <2>1. CASE a = n
    <3>1. k \in 1..(n - 1) /\ g[k] = f[n]
      BY <1>3, <2>1
    <3> QED BY <3>1, <2>1
  <2>2. CASE a # n
    <3>1. a \in 1..(n - 1) /\ g[a] = f[a]
      BY <1>3, <2>2
    <3> QED BY <3>1
  <2> QED BY <2>1, <2>2
<1> QED BY <1>1, <1>2, <1>3

\* An array without repetition holds as many things as it has places.
LEMMA OnceCount ==
  ASSUME NEW n \in Nat, NEW f, \A a, b \in 1..n : f[a] = f[b] => a = b
  PROVE  /\ IsFiniteSet({f[j] : j \in 1..n})
         /\ Cardinality({f[j] : j \in 1..n}) = n
<1> DEFINE T == {f[j] : j \in 1..n}
           h == [j \in 1..n |-> f[j]]
<1>1. h \in Bijection(1..n, T)
  <2>1. h \in [1..n -> T]
    OBVIOUS
  <2>2. \A a, b \in 1..n : h[a] = h[b] => a = b
    OBVIOUS
  <2>3. \A t \in T : \E a \in 1..n : h[a] = t
    OBVIOUS
  <2> HIDE DEF h, T
  <2> QED BY <2>1, <2>2, <2>3 DEF Bijection, Injection, Surjection, IsInjective
<1>2. ExistsBijection(1..n, T)
  BY <1>1 DEF ExistsBijection
<1>3. IsFiniteSet(1..n) /\ Cardinality(1..n) = n
  BY FS_Interval
<1> QED BY <1>2, <1>3, FS_Bijection

\* The arrays' places are 1 up to their length, before and after a step.
LEMMA ConnSets ==
  ASSUME TypeOK, TypeOK'
  PROVE  /\ PendingConns = {pending_handshakes[k].conn : k \in 1..Len(pending_handshakes)}
         /\ ActiveConns = {active_sessions[k] : k \in 1..Len(active_sessions)}
         /\ PendingConns' = {pending_handshakes'[k].conn : k \in 1..Len(pending_handshakes')}
         /\ ActiveConns' = {active_sessions'[k] : k \in 1..Len(active_sessions')}
         /\ PendingConns \subseteq Conns /\ ActiveConns \subseteq Conns
<1>1. /\ DOMAIN pending_handshakes = 1..Len(pending_handshakes)
      /\ DOMAIN active_sessions = 1..Len(active_sessions)
  BY DEF TypeOK
<1>2. /\ DOMAIN pending_handshakes' = 1..Len(pending_handshakes')
      /\ DOMAIN active_sessions' = 1..Len(active_sessions')
  BY DEF TypeOK
<1>3. /\ \A k \in 1..Len(pending_handshakes) : pending_handshakes[k].conn \in Conns
      /\ \A k \in 1..Len(active_sessions) : active_sessions[k] \in Conns
  BY ArrayTypes DEF Pending
<1> QED BY <1>1, <1>2, <1>3 DEF PendingConns, ActiveConns

\* No connection enters or leaves the arrays, and none is freed.
LEMMA FreedKept ==
  ASSUME FreedOnce, UNCHANGED freed,
         PendingConns' \cup ActiveConns' = PendingConns \cup ActiveConns,
         \A c \in Conns : peer[c] \in {"none", "queued"} <=> peer'[c] \in {"none", "queued"}
  PROVE  FreedOnce'
<1> SUFFICES ASSUME NEW c \in Conns
             PROVE  (IF peer[c] \in {"none", "queued"}
                      THEN freed[c] = 0 /\ c \notin PendingConns \cup ActiveConns
                      ELSE freed[c] = IF c \in PendingConns \cup ActiveConns THEN 0 ELSE 1)'
  BY DEF FreedOnce
<1> DEFINE H == PendingConns \cup ActiveConns
<1>1. IF peer[c] \in {"none", "queued"} THEN freed[c] = 0 /\ c \notin H
      ELSE freed[c] = IF c \in H THEN 0 ELSE 1
  BY DEF FreedOnce
<1>2. PendingConns' \cup ActiveConns' = H
  OBVIOUS
<1> HIDE DEF H
<1> QED BY <1>1, <1>2

\* A connection is freed as it leaves the arrays.
LEMMA FreedLeaves ==
  ASSUME TypeOK, FreedOnce, NEW c \in PendingConns \cup ActiveConns, c \in Conns,
         PendingConns' \cup ActiveConns' = (PendingConns \cup ActiveConns) \ {c},
         Free(c), UNCHANGED peer
  PROVE  FreedOnce'
<1> DEFINE H == PendingConns \cup ActiveConns
           G == H \ {c}
<1>1. ASSUME NEW d \in Conns
      PROVE  IF peer[d] \in {"none", "queued"} THEN freed'[d] = 0 /\ d \notin G
             ELSE freed'[d] = IF d \in G THEN 0 ELSE 1
  <2>1. IF peer[d] \in {"none", "queued"} THEN freed[d] = 0 /\ d \notin H
        ELSE freed[d] = IF d \in H THEN 0 ELSE 1
    BY DEF FreedOnce
  <2>2. freed'[d] = IF d = c THEN freed[c] + 1 ELSE freed[d]
    BY DEF Free, TypeOK
  <2> HIDE DEF H
  <2>3. c \in H
    BY DEF H
  <2> QED BY <2>1, <2>2, <2>3
<1>2. PendingConns' \cup ActiveConns' = G
  OBVIOUS
<1> HIDE DEF G
<1> QED BY <1>1, <1>2 DEF FreedOnce

\* Steps that leave the arrays' connections alone.
LEMMA KeepOwned ==
  ASSUME TypeOK, TypeOK', OwnInv, UNCHANGED <<active_sessions, freed>>,
         Len(pending_handshakes') = Len(pending_handshakes),
         \A k \in 1..Len(pending_handshakes) :
           pending_handshakes'[k].conn = pending_handshakes[k].conn,
         \A c \in Conns : peer[c] \in {"none", "queued"} <=> peer'[c] \in {"none", "queued"},
         (pc # "spawned" /\ pc' # "spawned") \/ UNCHANGED <<pc, i>>,
         pc = "spawned" => i <= Len(pending_handshakes)
  PROVE  PendingOnce' /\ ActiveOnce' /\ Apart' /\ Moving' /\ FreedOnce'
<1>1. PendingOnce' /\ ActiveOnce'
  BY DEF OwnInv, PendingOnce, ActiveOnce
<1>2. Apart'
  BY DEF OwnInv, Apart
<1>3. Moving'
  BY ArrayTypes DEF OwnInv, Moving
<1>4. PendingConns' = PendingConns /\ ActiveConns' = ActiveConns
  <2>1. /\ PendingConns = {pending_handshakes[k].conn : k \in 1..Len(pending_handshakes)}
        /\ PendingConns' = {pending_handshakes'[k].conn : k \in 1..Len(pending_handshakes)}
    BY ConnSets
  <2>2. PendingConns' \subseteq PendingConns
    BY <2>1
  <2>3. PendingConns \subseteq PendingConns'
    BY <2>1
  <2>4. ActiveConns' = ActiveConns
    BY ConnSets
  <2> QED BY <2>2, <2>3, <2>4
<1>5. FreedOnce'
  BY <1>4, FreedKept DEF OwnInv
<1> QED BY <1>1, <1>2, <1>3, <1>5

\* remove_pending_handshake takes one connection out of pending_handshakes.
LEMMA PendingRemoved ==
  ASSUME TypeOK, TypeOK', PendingOnce, NEW k \in 1..Len(pending_handshakes),
         RemovePending(k)
  PROVE  /\ PendingOnce'
         /\ PendingConns' = PendingConns \ {pending_handshakes[k].conn}
<1> DEFINE n == Len(pending_handshakes)
           f == [j \in 1..n |-> pending_handshakes[j].conn]
           g == [j \in 1..(n - 1) |-> pending_handshakes'[j].conn]
<1>1. n \in Nat /\ Len(pending_handshakes') = n - 1
  BY SwapRemoveType, ArrayTypes DEF RemovePending, TypeOK
<1>2. \A a, b \in 1..n : f[a] = f[b] => a = b
  BY DEF PendingOnce
<1>3. ASSUME NEW j \in 1..(n - 1) PROVE g[j] = IF j = k THEN f[n] ELSE f[j]
  <2>1. pending_handshakes'[j] = IF j = k THEN pending_handshakes[n] ELSE pending_handshakes[j]
    BY SwapRemoveAt DEF RemovePending, TypeOK
  <2>2. j \in 1..n /\ n \in 1..n
    BY <1>1
  <2> QED BY <2>1, <2>2
<1>4. /\ {f[j] : j \in 1..n} = {pending_handshakes[j].conn : j \in 1..n}
      /\ {g[j] : j \in 1..(n - 1)} = {pending_handshakes'[j].conn : j \in 1..(n - 1)}
      /\ f[k] = pending_handshakes[k].conn
      /\ \A j \in 1..(n - 1) : g[j] = pending_handshakes'[j].conn
  OBVIOUS
<1>k. k \in 1..n
  OBVIOUS
<1>5. /\ \A a, b \in 1..(n - 1) : g[a] = g[b] => a = b
      /\ {g[j] : j \in 1..(n - 1)} = {f[j] : j \in 1..n} \ {f[k]}
  <2>1. \A j \in 1..(n - 1) : g[j] = IF j = k THEN f[n] ELSE f[j]
    BY <1>3
  <2> HIDE DEF f, g, n
  <2> QED BY <1>1, <1>2, <1>k, <2>1, SwapOnce
<1> HIDE DEF f, g
<1>6. PendingOnce'
  BY <1>1, <1>4, <1>5 DEF PendingOnce
<1> QED BY <1>1, <1>4, <1>5, <1>6, ConnSets

\* A session destroyed leaves active_sessions; what the turn has serviced so
\* far is still what stands before i.
LEMMA ActiveRemoved ==
  ASSUME TypeOK, TypeOK', ActiveOnce, NEW k \in 1..Len(active_sessions),
         active_sessions' = SwapRemove(active_sessions, k)
  PROVE  /\ ActiveOnce'
         /\ ActiveConns' = ActiveConns \ {active_sessions[k]}
         /\ Len(active_sessions') = Len(active_sessions) - 1
         /\ \A j \in 1..(Len(active_sessions) - 1) :
              active_sessions'[j] = IF j = k THEN active_sessions[Len(active_sessions)]
                                    ELSE active_sessions[j]
<1> DEFINE n == Len(active_sessions)
<1>1. n \in Nat /\ Len(active_sessions') = n - 1
  BY SwapRemoveType, ArrayTypes DEF TypeOK
<1>2. \A a, b \in 1..n : active_sessions[a] = active_sessions[b] => a = b
  BY DEF ActiveOnce
<1>3. \A j \in 1..(n - 1) :
        active_sessions'[j] = IF j = k THEN active_sessions[n] ELSE active_sessions[j]
  BY SwapRemoveAt DEF TypeOK
<1>4. /\ \A a, b \in 1..(n - 1) : active_sessions'[a] = active_sessions'[b] => a = b
      /\ {active_sessions'[j] : j \in 1..(n - 1)} =
           {active_sessions[j] : j \in 1..n} \ {active_sessions[k]}
  <2> DEFINE f == active_sessions
             g == active_sessions'
  <2>1. n \in Nat /\ k \in 1..n
    BY <1>1
  <2>2. \A a, b \in 1..n : f[a] = f[b] => a = b
    BY <1>2
  <2>3. \A j \in 1..(n - 1) : g[j] = IF j = k THEN f[n] ELSE f[j]
    BY <1>3
  <2> SUFFICES /\ \A a, b \in 1..(n - 1) : g[a] = g[b] => a = b
               /\ {g[j] : j \in 1..(n - 1)} = {f[j] : j \in 1..n} \ {f[k]}
    OBVIOUS
  <2> HIDE DEF f, g, n
  <2> QED BY <2>1, <2>2, <2>3, SwapOnce
<1>5. ActiveOnce'
  BY <1>1, <1>4 DEF ActiveOnce
<1> QED BY <1>1, <1>3, <1>4, <1>5, ConnSets

\* A connection from h3q_engine_accept_conn is new to both arrays.
LEMMA AcceptOwned ==
  ASSUME IInv, IInv', OwnInv, NEW c \in Conns, AcceptConnection(c) PROVE OwnInv'
<1> USE DEF flagVars
<1> DEFINE n == Len(pending_handshakes)
<1>a. TypeOK /\ TypeOK' /\ pc = "accept" /\ pc' = "accept"
  BY DEF IInv, AcceptConnection
<1>b. UNCHANGED <<active_sessions, i, served, main>>
  BY DEF AcceptConnection
<1>c. c \notin PendingConns \cup ActiveConns /\ freed[c] = 0 /\ peer'[c] = "handshake"
  BY <1>a DEF OwnInv, FreedOnce, AcceptConnection, TypeOK
<1>d. \A d \in Conns \ {c} : peer'[d] = peer[d]
  BY <1>a DEF AcceptConnection, TypeOK
<1>e. /\ ActiveOnce' /\ Moving' /\ Emptied' /\ Unserved' /\ EverySessionServed'
  BY <1>a, <1>b DEF OwnInv, ActiveOnce, Moving, Emptied, Unserved, EverySessionServed
<1>1. CASE ~AtLimit /\ Prepare(c) /\ UNCHANGED freed
  <2>1. /\ n \in Nat /\ Len(pending_handshakes') = n + 1
        /\ \A j \in 1..n : pending_handshakes'[j] = pending_handshakes[j]
        /\ pending_handshakes'[n + 1].conn = c
    BY <1>1, <1>a DEF Prepare, TypeOK
  <2>2. /\ \A j \in 1..n : pending_handshakes[j].conn # c
        /\ \A k \in 1..Len(active_sessions) : active_sessions[k] # c
    BY <1>a, <1>c, ConnSets
  <2>3. PendingOnce'
    BY <2>1, <2>2 DEF OwnInv, PendingOnce
  <2>4. Apart'
    BY <1>a, <1>b, <2>1, <2>2 DEF OwnInv, Apart
  <2>5. PendingConns' = PendingConns \cup {c} /\ ActiveConns' = ActiveConns
    <3>1. /\ PendingConns = {pending_handshakes[k].conn : k \in 1..n}
          /\ PendingConns' = {pending_handshakes'[k].conn : k \in 1..(n + 1)}
      BY <1>a, <2>1, ConnSets
    <3>2. PendingConns' \subseteq PendingConns \cup {c}
      BY <2>1, <3>1
    <3>3. PendingConns \cup {c} \subseteq PendingConns'
      <4>1. n + 1 \in 1..(n + 1) /\ \A k \in 1..n : k \in 1..(n + 1)
        BY <2>1
      <4> QED BY <2>1, <3>1, <4>1
    <3>4. ActiveConns' = ActiveConns
      BY <1>a, <1>b, ConnSets
    <3> QED BY <3>2, <3>3, <3>4
  <2>6. FreedOnce'
    <3> DEFINE H == PendingConns \cup ActiveConns
    <3>1. PendingConns' \cup ActiveConns' = H \cup {c}
      BY <2>5
    <3>2. \A d \in Conns : IF peer[d] \in {"none", "queued"} THEN freed[d] = 0 /\ d \notin H
                           ELSE freed[d] = IF d \in H THEN 0 ELSE 1
      BY DEF OwnInv, FreedOnce
    <3> HIDE DEF H
    <3> QED BY <1>1, <1>c, <1>d, <3>1, <3>2 DEF FreedOnce
  <2> QED BY <1>e, <2>3, <2>4, <2>6 DEF OwnInv
<1>2. CASE Free(c) /\ UNCHANGED <<pending_handshakes, notes>>
  <2>1. PendingOnce' /\ Apart'
    BY <1>2, <1>a, <1>b DEF OwnInv, PendingOnce, Apart
  <2>2. PendingConns' = PendingConns /\ ActiveConns' = ActiveConns
    BY <1>2, <1>a, <1>b DEF PendingConns, ActiveConns
  <2>3. FreedOnce'
    <3> DEFINE H == PendingConns \cup ActiveConns
    <3>1. PendingConns' \cup ActiveConns' = H /\ c \notin H
      BY <2>2, <1>c
    <3>2. \A d \in Conns : IF peer[d] \in {"none", "queued"} THEN freed[d] = 0 /\ d \notin H
                           ELSE freed[d] = IF d \in H THEN 0 ELSE 1
      BY DEF OwnInv, FreedOnce
    <3>3. \A d \in Conns : freed'[d] = IF d = c THEN 1 ELSE freed[d]
      BY <1>2, <1>a, <1>c DEF Free, TypeOK
    <3> HIDE DEF H
    <3> QED BY <1>c, <1>d, <3>1, <3>2, <3>3 DEF FreedOnce
  <2> QED BY <1>e, <2>1, <2>3 DEF OwnInv
<1> QED BY <1>1, <1>2 DEF AcceptConnection

\* A handshake that is dropped is freed, and the connection is in no other place.
LEMMA DropOwned == ASSUME IInv, IInv', OwnInv, DropHandshake PROVE OwnInv'
<1> USE DEF flagVars
<1> DEFINE c == pending_handshakes[i].conn
<1>a. TypeOK /\ TypeOK' /\ pc = "progress" /\ pc' = "progress"
  BY DEF IInv, DropHandshake
<1>b. UNCHANGED <<active_sessions, i, served, main, peer>> /\ Free(c) /\ RemovePending(i)
  BY DEF DropHandshake
<1>1. i \in 1..Len(pending_handshakes)
  BY <1>a, ArrayTypes DEF DropHandshake
<1>2. PendingOnce' /\ PendingConns' = PendingConns \ {c}
  BY <1>a, <1>b, <1>1, PendingRemoved DEF OwnInv
<1>3. ActiveConns' = ActiveConns /\ c \in PendingConns /\ c \in Conns
  BY <1>a, <1>b, <1>1, ConnSets
<1>4. PendingConns \cap ActiveConns = {}
  BY <1>a, ConnSets DEF OwnInv, Apart
<1> HIDE DEF c
<1>5. FreedOnce'
  <2>1. PendingConns' \cup ActiveConns' = (PendingConns \cup ActiveConns) \ {c}
    BY <1>2, <1>3, <1>4
  <2> QED BY <1>a, <1>b, <1>3, <2>1, FreedLeaves DEF OwnInv
<1>6. Apart'
  <2>1. PendingConns' \cap ActiveConns' = {}
    BY <1>2, <1>3, <1>4
  <2> QED BY <1>a, <2>1, ConnSets DEF Apart
<1>7. ActiveOnce' /\ Moving' /\ Emptied' /\ Unserved' /\ EverySessionServed'
  BY <1>a, <1>b DEF OwnInv, ActiveOnce, Moving, Emptied, Unserved, EverySessionServed
<1> QED BY <1>2, <1>5, <1>6, <1>7 DEF OwnInv

\* spawn_serviced_session puts the connection into the second array as well.
LEMMA SpawnOwned == ASSUME IInv, IInv', OwnInv, SpawnSession PROVE OwnInv'
<1> USE DEF flagVars
<1> DEFINE c == pending_handshakes[i].conn
           m == Len(active_sessions)
<1>a. TypeOK /\ TypeOK' /\ pc = "progress" /\ pc' = "spawned"
  BY DEF IInv, SpawnSession
<1>b. UNCHANGED <<pending_handshakes, i, served, main, peer, freed>>
  BY DEF SpawnSession
<1>1. i \in 1..Len(pending_handshakes)
  BY <1>a, ArrayTypes DEF SpawnSession
<1>2. c \in PendingConns /\ c \in Conns
  BY <1>a, <1>1, ConnSets
<1>3. PendingConns \cap ActiveConns = {}
  BY <1>a, ConnSets DEF OwnInv, Apart
<1>4. /\ m \in Nat /\ Len(active_sessions') = m + 1
      /\ \A k \in 1..m : active_sessions'[k] = active_sessions[k]
      /\ active_sessions'[m + 1] = c
  BY <1>a, <1>2 DEF SpawnSession, TypeOK
<1>5. /\ \A k \in 1..m : active_sessions[k] # c
      /\ \A j \in 1..Len(pending_handshakes), k \in 1..m :
           pending_handshakes[j].conn # active_sessions[k]
  BY <1>a, <1>2, <1>3, ConnSets
<1>6. PendingOnce'
  BY <1>b DEF OwnInv, PendingOnce
<1>7. ActiveOnce'
  <2> HIDE DEF c
  <2> QED BY <1>4, <1>5 DEF OwnInv, ActiveOnce
<1>8. Apart'
  <2>1. \A j \in 1..Len(pending_handshakes) : pending_handshakes[j].conn = c => j = i
    BY <1>1 DEF OwnInv, PendingOnce
  <2> HIDE DEF c
  <2> QED BY <1>a, <1>b, <1>4, <1>5, <2>1 DEF Apart
<1>9. Moving'
  BY <1>b, <1>4 DEF Moving
<1>10. FreedOnce'
  <2>1. PendingConns' = PendingConns
    BY <1>b DEF PendingConns
  <2>2. ActiveConns' = ActiveConns \cup {c}
    <3>1. /\ ActiveConns = {active_sessions[k] : k \in 1..m}
          /\ ActiveConns' = {active_sessions'[k] : k \in 1..(m + 1)}
      BY <1>a, <1>4, ConnSets
    <3>2. m + 1 \in 1..(m + 1) /\ \A k \in 1..m : k \in 1..(m + 1)
      BY <1>4
    <3> HIDE DEF c
    <3>3. ActiveConns \cup {c} \subseteq ActiveConns'
      BY <1>4, <3>1, <3>2
    <3>4. ActiveConns' \subseteq ActiveConns \cup {c}
      BY <1>4, <3>1
    <3> QED BY <3>3, <3>4
  <2>3. PendingConns' \cup ActiveConns' = PendingConns \cup ActiveConns
    BY <2>1, <2>2, <1>2
  <2> QED BY <1>b, <2>3, FreedKept DEF OwnInv
<1>11. Emptied' /\ Unserved' /\ EverySessionServed'
  BY <1>a, <1>b DEF OwnInv, Emptied, Unserved, EverySessionServed
<1> QED BY <1>6, <1>7, <1>8, <1>9, <1>10, <1>11 DEF OwnInv

\* remove_pending_handshake leaves it in active_sessions alone.
LEMMA SpawnDoneOwned == ASSUME IInv, IInv', OwnInv, SpawnDone PROVE OwnInv'
<1> USE DEF flagVars
<1> DEFINE c == pending_handshakes[i].conn
<1>a. TypeOK /\ TypeOK' /\ pc = "spawned" /\ pc' = "progress"
  BY DEF IInv, SpawnDone
<1>b. UNCHANGED <<active_sessions, i, served, main, peer, freed>> /\ RemovePending(i)
  BY DEF SpawnDone
<1>1. i \in 1..Len(pending_handshakes)
  BY <1>a, ArrayTypes DEF IInv
<1>2. PendingOnce' /\ PendingConns' = PendingConns \ {c}
  BY <1>a, <1>b, <1>1, PendingRemoved DEF OwnInv
<1>3. ActiveConns' = ActiveConns /\ c \in ActiveConns
  <2>1. Len(active_sessions) \in 1..Len(active_sessions) /\ c = active_sessions[Len(active_sessions)]
    BY <1>a, ArrayTypes DEF OwnInv, Moving
  <2> QED BY <1>a, <1>b, <2>1, ConnSets
<1>4. PendingConns' \cap ActiveConns' = {}
  <2>1. \A j \in 1..Len(pending_handshakes), k \in 1..Len(active_sessions) :
          pending_handshakes[j].conn = active_sessions[k] => j = i
    BY DEF OwnInv, Apart
  <2>2. \A d \in PendingConns : d \in ActiveConns => d = c
    BY <1>a, <2>1, ConnSets
  <2> QED BY <1>2, <1>3, <2>2
<1> HIDE DEF c
<1>5. FreedOnce'
  <2>1. PendingConns' \cup ActiveConns' = PendingConns \cup ActiveConns
    BY <1>2, <1>3
  <2> QED BY <1>b, <2>1, FreedKept DEF OwnInv
<1>6. Apart'
  BY <1>a, <1>4, ConnSets DEF Apart
<1>7. ActiveOnce' /\ Moving' /\ Emptied' /\ Unserved' /\ EverySessionServed'
  BY <1>a, <1>b DEF OwnInv, ActiveOnce, Moving, Emptied, Unserved, EverySessionServed
<1> QED BY <1>2, <1>5, <1>6, <1>7 DEF OwnInv

\* service_session_pass counts one session more, the one at i.
LEMMA ServedAt ==
  ASSUME TypeOK, ActiveOnce, EverySessionServed, NEW c \in Conns, ServiceSession(c)
  PROVE  /\ i \in 1..Len(active_sessions) /\ c = active_sessions[i]
         /\ \A k \in 1..Len(active_sessions) :
              served'[active_sessions[k]] = IF k <= i THEN 1 ELSE 0
<1>1. i \in 1..Len(active_sessions) /\ c = active_sessions[i] /\ pc = "sessions"
  BY ArrayTypes DEF ServiceSession
<1>2. ASSUME NEW k \in 1..Len(active_sessions)
      PROVE  served'[active_sessions[k]] = IF k <= i THEN 1 ELSE 0
  <2>1. served[active_sessions[k]] = IF k < i THEN 1 ELSE 0
    BY <1>1 DEF EverySessionServed, TypeOK
  <2>2. active_sessions[k] \in Conns /\ (active_sessions[k] = c <=> k = i)
    BY <1>1, ArrayTypes DEF ActiveOnce
  <2>3. served'[active_sessions[k]] =
          IF active_sessions[k] = c THEN served[c] + 1 ELSE served[active_sessions[k]]
    BY <2>2 DEF ServiceSession, TypeOK
  <2> QED BY <1>1, <2>1, <2>2, <2>3, ArrayTypes
<1> QED BY <1>1, <1>2

\* A session that stays is behind i when the turn goes on.
LEMMA KeepSessionOwned == ASSUME IInv, IInv', OwnInv, KeepSession PROVE OwnInv'
<1> USE DEF flagVars
<1>1. PICK c \in Conns : ServiceSession(c)
  BY DEF KeepSession
<1>a. TypeOK /\ TypeOK' /\ pc = "sessions" /\ pc' = "sessions"
  BY <1>1 DEF IInv, KeepSession, ServiceSession
<1>b. UNCHANGED <<pending_handshakes, active_sessions, freed, peer, main>> /\ i' = i + 1
  BY DEF KeepSession
<1>2. /\ i \in 1..Len(active_sessions)
      /\ \A k \in 1..Len(active_sessions) :
           served'[active_sessions[k]] = IF k <= i THEN 1 ELSE 0
  BY <1>a, <1>1, ServedAt DEF OwnInv
<1>3. EverySessionServed'
  <2>1. DOMAIN active_sessions' = 1..Len(active_sessions)
    BY <1>a, <1>b DEF TypeOK
  <2> QED BY <1>b, <1>2, <2>1 DEF EverySessionServed
<1>4. PendingOnce' /\ ActiveOnce' /\ Apart' /\ Moving' /\ FreedOnce'
  BY <1>a, <1>b, KeepOwned
<1>5. Emptied' /\ Unserved'
  BY <1>a, <1>b DEF OwnInv, Emptied, Unserved
<1> QED BY <1>3, <1>4, <1>5 DEF OwnInv

\* The last session takes the place of the one destroyed, and is still to be
\* serviced in this turn.
LEMMA EndSessionOwned == ASSUME IInv, IInv', OwnInv, EndSession PROVE OwnInv'
<1> USE DEF flagVars
<1> DEFINE m == Len(active_sessions)
<1>1. PICK c \in Conns : ServiceSession(c) /\ Free(c)
  BY DEF EndSession
<1>a. TypeOK /\ TypeOK' /\ pc = "sessions" /\ pc' = "sessions"
  BY <1>1 DEF IInv, EndSession, ServiceSession
<1>b. /\ UNCHANGED <<pending_handshakes, peer, main>> /\ i' = i
      /\ active_sessions' = SwapRemove(active_sessions, i)
  BY DEF EndSession, IndexAfterRemove
<1>2. /\ i \in 1..m /\ c = active_sessions[i]
      /\ \A k \in 1..m : served'[active_sessions[k]] = IF k <= i THEN 1 ELSE 0
  BY <1>a, <1>1, ServedAt DEF OwnInv
<1>3. /\ ActiveOnce' /\ ActiveConns' = ActiveConns \ {c}
      /\ Len(active_sessions') = m - 1
      /\ \A j \in 1..(m - 1) :
           active_sessions'[j] = IF j = i THEN active_sessions[m] ELSE active_sessions[j]
  BY <1>a, <1>b, <1>2, ActiveRemoved DEF OwnInv
<1>4. EverySessionServed'
  <2>1. DOMAIN active_sessions' = 1..(m - 1) /\ m \in Nat
    BY <1>a, <1>3 DEF TypeOK
  <2> SUFFICES ASSUME NEW k \in 1..(m - 1)
               PROVE  served'[active_sessions'[k]] = IF k < i THEN 1 ELSE 0
    BY <1>b, <2>1 DEF EverySessionServed
  <2>2. CASE k = i
    <3>1. m \in 1..m /\ m > i
      BY <1>2, <2>1, <2>2
    <3> QED BY <1>2, <1>3, <2>2, <3>1
  <2>3. CASE k # i
    <3>1. k \in 1..m /\ active_sessions'[k] = active_sessions[k]
      BY <1>3, <2>1, <2>3
    <3> QED BY <1>2, <2>3, <3>1
  <2> QED BY <2>2, <2>3
<1>5. PendingConns' = PendingConns /\ c \in ActiveConns
  BY <1>a, <1>b, <1>2, ConnSets
<1>6. PendingConns \cap ActiveConns = {}
  BY <1>a, ConnSets DEF OwnInv, Apart
<1>7. FreedOnce'
  <2>1. PendingConns' \cup ActiveConns' = (PendingConns \cup ActiveConns) \ {c}
    BY <1>3, <1>5, <1>6
  <2> QED BY <1>a, <1>b, <1>1, <1>5, <2>1, FreedLeaves DEF OwnInv
<1>8. Apart'
  <2>1. PendingConns' \cap ActiveConns' = {}
    BY <1>3, <1>5, <1>6
  <2> QED BY <1>a, <2>1, ConnSets DEF Apart
<1>9. PendingOnce' /\ Moving' /\ Emptied' /\ Unserved'
  BY <1>a, <1>b DEF OwnInv, PendingOnce, Moving, Emptied, Unserved
<1> QED BY <1>3, <1>4, <1>7, <1>8, <1>9 DEF OwnInv

\* The loop after the main loop frees what is still pending.
LEMMA CleanupOwned == ASSUME IInv, IInv', OwnInv, Cleanup PROVE OwnInv'
<1> USE DEF flagVars
<1>a. TypeOK /\ TypeOK' /\ pc = "cleanup" /\ pc' \in {"cleanup", "exited"}
  BY DEF IInv, Cleanup
<1>b. UNCHANGED <<active_sessions, i, served, main, peer>> /\ active_sessions = <<>>
  BY <1>a DEF Cleanup, OwnInv, Emptied
<1>c. ActiveOnce' /\ Apart' /\ Moving' /\ Unserved' /\ EverySessionServed'
  BY <1>a, <1>b DEF ActiveOnce, Apart, Moving, Unserved, EverySessionServed
<1>1. CASE CleanupNeeded
  <2> DEFINE c == pending_handshakes[1].conn
  <2>1. Free(c) /\ RemovePending(1) /\ pc' = pc
    BY <1>1 DEF Cleanup
  <2>2. 1 \in 1..Len(pending_handshakes)
    BY <1>1, <1>a DEF CleanupNeeded, TypeOK
  <2>3. PendingOnce' /\ PendingConns' = PendingConns \ {c}
    BY <1>a, <2>1, <2>2, PendingRemoved DEF OwnInv
  <2>4. ActiveConns = {} /\ ActiveConns' = {} /\ c \in PendingConns /\ c \in Conns
    BY <1>a, <1>b, <2>2, ConnSets
  <2> HIDE DEF c
  <2>5. FreedOnce'
    <3>1. PendingConns' \cup ActiveConns' = (PendingConns \cup ActiveConns) \ {c}
      BY <2>3, <2>4
    <3> QED BY <1>a, <1>b, <2>1, <2>4, <3>1, FreedLeaves DEF OwnInv
  <2>6. Emptied'
    BY <1>a, <1>b, <2>1 DEF OwnInv, Emptied
  <2> QED BY <1>c, <2>3, <2>5, <2>6 DEF OwnInv
<1>2. CASE ~CleanupNeeded
  <2>1. pc' = "exited" /\ UNCHANGED <<freed, pending_handshakes>> /\ pending_handshakes = <<>>
    BY <1>2 DEF Cleanup, CleanupNeeded
  <2>2. PendingOnce' /\ FreedOnce'
    BY <1>a, <1>b, <2>1, KeepOwned
  <2>3. Emptied'
    BY <1>a, <1>b, <2>1 DEF OwnInv, Emptied
  <2> QED BY <1>c, <2>2, <2>3 DEF OwnInv
<1> QED BY <1>1, <1>2

\* The clock and the steps that move no connection.
LEMMA FrameOwned ==
  ASSUME IInv, IInv', OwnInv,
         \/ Tick \/ (\E c \in Conns : Peer(c)) \/ BeginTurn \/ EndAccept \/ KeepHandshake
         \/ EndProgress \/ EndTurn \/ StartDrain \/ Stop \/ Joined \/ UNCHANGED vars
  PROVE  OwnInv'
<1> USE DEF connVars, flagVars
<1> DEFINE Kept == PendingOnce' /\ ActiveOnce' /\ Apart' /\ Moving' /\ FreedOnce'
<1>a. TypeOK /\ TypeOK' /\ (pc = "spawned" => i <= Len(pending_handshakes))
  BY DEF IInv
<1>1. CASE Tick
  <2>1. /\ Len(pending_handshakes') = Len(pending_handshakes)
        /\ \A k \in 1..Len(pending_handshakes) :
             pending_handshakes'[k].conn = pending_handshakes[k].conn
    <3>1. Len(pending_handshakes') = Len(pending_handshakes)
      BY <1>1, <1>a DEF Tick, TypeOK
    <3>2. ASSUME NEW k \in 1..Len(pending_handshakes)
          PROVE  pending_handshakes'[k].conn = pending_handshakes[k].conn
      <4>1. pending_handshakes[k] \in Pending /\ k \in DOMAIN pending_handshakes
        BY <1>a, ArrayTypes DEF TypeOK
      <4>2. pending_handshakes'[k] = [pending_handshakes[k] EXCEPT !.age =
              IF @ < HandshakeTimeout THEN @ + 1 ELSE @]
        BY <1>1, <4>1, Zenon DEF Tick
      <4> QED BY <4>1, <4>2 DEF Pending
    <3> QED BY <3>1, <3>2
  <2>2. UNCHANGED <<active_sessions, freed, peer, pc, i, served, main>>
    BY <1>1 DEF Tick
  <2>3. Kept
    BY <1>a, <2>1, <2>2, KeepOwned
  <2>4. Emptied'
    <3>1. pc = "exited" => pending_handshakes' = <<>>
      BY <1>a, <2>1, EmptySeq DEF OwnInv, Emptied, TypeOK
    <3> QED BY <2>2, <3>1 DEF OwnInv, Emptied
  <2>5. Unserved' /\ EverySessionServed'
    BY <2>2 DEF OwnInv, Unserved, EverySessionServed
  <2> QED BY <2>3, <2>4, <2>5 DEF OwnInv
<1>2. CASE \E c \in Conns : Peer(c)
  <2>1. PICK c \in Conns : Peer(c)
    BY <1>2
  <2>2. \A d \in Conns : peer[d] \in {"none", "queued"} <=> peer'[d] \in {"none", "queued"}
    BY <1>a, <2>1 DEF Peer, TypeOK, PeerStates
  <2>3. UNCHANGED <<active_sessions, pending_handshakes, freed, pc, i, served, main>>
    BY <2>1 DEF Peer
  <2>4. Kept
    BY <1>a, <2>2, <2>3, KeepOwned
  <2>5. Emptied' /\ Unserved' /\ EverySessionServed'
    BY <2>3 DEF OwnInv, Emptied, Unserved, EverySessionServed
  <2> QED BY <2>4, <2>5 DEF OwnInv
<1>3. CASE BeginTurn
  <2>1. UNCHANGED <<active_sessions, pending_handshakes, freed, peer, main>> /\ i' = 1
    BY <1>3 DEF BeginTurn
  <2>2. pc = "top" /\ pc' \in {"cleanup", "accept", "sessions"}
    BY <1>3 DEF BeginTurn
  <2>3. \A c \in Conns : served'[c] = 0
    BY <1>3 DEF BeginTurn
  <2>4. Kept
    BY <1>a, <2>1, <2>2, KeepOwned
  <2>5. Emptied'
    <3>1. pc' = "cleanup" => active_sessions = <<>>
      BY <1>3 DEF BeginTurn, LoopAgain
    <3> QED BY <2>1, <2>2, <3>1 DEF OwnInv, Emptied
  <2>6. Unserved' /\ EverySessionServed'
    <3>1. \A k \in DOMAIN active_sessions : active_sessions[k] \in Conns /\ ~(k < 1)
      BY <1>a DEF TypeOK
    <3> QED BY <2>1, <2>3, <3>1 DEF Unserved, EverySessionServed
  <2> QED BY <2>4, <2>5, <2>6 DEF OwnInv
<1>4. CASE EndAccept \/ KeepHandshake \/ EndTurn
  <2>1. /\ UNCHANGED <<active_sessions, pending_handshakes, freed, peer, main, served>>
        /\ \/ pc = "accept" /\ pc' = "progress"
           \/ pc = "progress" /\ pc' = "progress"
           \/ pc = "sessions" /\ pc' = "top"
    BY <1>4 DEF EndAccept, KeepHandshake, EndTurn
  <2>2. Kept
    BY <1>a, <2>1, KeepOwned
  <2>3. Emptied' /\ Unserved' /\ EverySessionServed'
    BY <2>1 DEF OwnInv, Emptied, Unserved, EverySessionServed
  <2> QED BY <2>2, <2>3 DEF OwnInv
<1>5. CASE EndProgress
  <2>1. /\ UNCHANGED <<active_sessions, pending_handshakes, freed, peer, main, served>>
        /\ pc = "progress" /\ pc' = "sessions" /\ i' = 1
    BY <1>5 DEF EndProgress
  <2>2. Kept
    BY <1>a, <2>1, KeepOwned
  <2>3. EverySessionServed'
    <3>1. \A k \in DOMAIN active_sessions : active_sessions[k] \in Conns /\ ~(k < 1)
      BY <1>a DEF TypeOK
    <3> QED BY <2>1, <3>1 DEF OwnInv, Unserved, EverySessionServed
  <2>4. Emptied' /\ Unserved'
    BY <2>1 DEF OwnInv, Emptied, Unserved
  <2> QED BY <2>2, <2>3, <2>4 DEF OwnInv
<1>6. CASE StartDrain \/ Stop \/ Joined \/ UNCHANGED vars
  <2>1. /\ UNCHANGED <<active_sessions, pending_handshakes, freed, peer, served, pc, i>>
        /\ main' = "down" => main = "down" \/ pc = "exited"
    BY <1>6 DEF StartDrain, Stop, Joined, vars
  <2>2. Kept
    BY <1>a, <2>1, KeepOwned
  <2>3. Emptied' /\ Unserved' /\ EverySessionServed'
    BY <2>1 DEF OwnInv, Emptied, Unserved, EverySessionServed
  <2> QED BY <2>2, <2>3 DEF OwnInv
<1> QED BY <1>1, <1>2, <1>3, <1>4, <1>5, <1>6

\* Every connection has its one place, and a turn its place in active_sessions.
THEOREM Ownership == Spec => [](IInv /\ OwnInv)
<1>1. Init => OwnInv
  <2> SUFFICES ASSUME Init PROVE OwnInv
    OBVIOUS
  <2>1. Len(pending_handshakes) = 0 /\ Len(active_sessions) = 0
    BY DEF Init
  <2>2. PendingOnce /\ ActiveOnce /\ Apart /\ Moving
    BY <2>1 DEF Init, PendingOnce, ActiveOnce, Apart, Moving
  <2>3. PendingConns \cup ActiveConns = {}
    BY DEF Init, PendingConns, ActiveConns
  <2>4. FreedOnce
    BY <2>3 DEF Init, FreedOnce
  <2>5. Emptied /\ Unserved /\ EverySessionServed
    BY DEF Init, Emptied, Unserved, EverySessionServed
  <2> QED BY <2>2, <2>4, <2>5 DEF OwnInv
<1>2. IInv /\ IInv' /\ OwnInv /\ [Next]_vars => OwnInv'
  <2> SUFFICES ASSUME IInv, IInv', OwnInv, [Next]_vars PROVE OwnInv'
    OBVIOUS
  <2>1. CASE \E c \in Conns : AcceptConnection(c)
    BY <2>1, AcceptOwned
  <2>2. CASE DropHandshake \/ SpawnSession \/ SpawnDone
    BY <2>2, DropOwned, SpawnOwned, SpawnDoneOwned
  <2>3. CASE KeepSession \/ EndSession \/ Cleanup
    BY <2>3, KeepSessionOwned, EndSessionOwned, CleanupOwned
  <2> QED BY <2>1, <2>2, <2>3, FrameOwned DEF Next, EventThread
<1> QED BY <1>1, <1>2, Invariance, PTL DEF Spec

\* A connection taken from h3q_engine_accept_conn is in one place of one array
\* until it is freed, and freed once, whatever the event thread swaps while it
\* removes; and none is left when teardown has joined the event thread.
THEOREM ConnOwnedOnceHolds == Spec => []ConnOwnedOnce
<1>1. IInv /\ OwnInv => ConnOwnedOnce
  <2> SUFFICES ASSUME IInv, OwnInv PROVE ConnOwnedOnce
    OBVIOUS
  <2> DEFINE n == Len(pending_handshakes)
             m == Len(active_sessions)
             f == [j \in 1..n |-> pending_handshakes[j].conn]
             P == {f[j] : j \in 1..n}
             A == {active_sessions[j] : j \in 1..m}
  <2>a. TypeOK /\ n \in Nat /\ m \in Nat
    BY ArrayTypes DEF IInv
  <2>1. P = PendingConns /\ A = ActiveConns
    BY <2>a DEF PendingConns, ActiveConns, TypeOK
  <2>2. IsFiniteSet(P) /\ Cardinality(P) = n
    <3>1. \A a, b \in 1..n : f[a] = f[b] => a = b
      BY DEF OwnInv, PendingOnce
    <3> HIDE DEF f, n
    <3> QED BY <2>a, <3>1, OnceCount
  <2>3. IsFiniteSet(A) /\ Cardinality(A) = m
    <3>1. \A a, b \in 1..m : active_sessions[a] = active_sessions[b] => a = b
      BY DEF OwnInv, ActiveOnce
    <3> DEFINE g == active_sessions
    <3>2. m \in Nat /\ \A a, b \in 1..m : g[a] = g[b] => a = b
      BY <2>a, <3>1
    <3> SUFFICES IsFiniteSet({g[j] : j \in 1..m}) /\ Cardinality({g[j] : j \in 1..m}) = m
      BY Zenon
    <3> HIDE DEF g, m
    <3> QED BY <3>2, OnceCount
  <2>4. Cardinality(P \cap A) = Spawned
    <3>1. CASE pc = "spawned"
      <4>1. i \in 1..n /\ m \in 1..m /\ pending_handshakes[i].conn = active_sessions[m]
        BY <2>a, <3>1, ArrayTypes DEF IInv, OwnInv, Moving
      <4>2. f[i] = active_sessions[m] /\ f[i] \in P /\ f[i] \in A
        BY <4>1
      <4>3. \A j \in 1..n, k \in 1..m : f[j] = active_sessions[k] => j = i
        BY DEF OwnInv, Apart
      <4>4. P \cap A = {f[i]}
        <5> HIDE DEF f, n, m
        <5> QED BY <4>2, <4>3
      <4> QED BY <3>1, <4>4, FS_Singleton DEF Spawned
    <3>2. CASE pc # "spawned"
      <4>1. \A j \in 1..n, k \in 1..m : f[j] # active_sessions[k]
        BY <3>2 DEF OwnInv, Apart
      <4>2. P \cap A = {}
        <5> HIDE DEF f, n, m
        <5> QED BY <4>1
      <4> QED BY <3>2, <4>2, FS_EmptySet DEF Spawned
    <3> QED BY <3>1, <3>2
  <2>5. Cardinality(PendingConns \cup ActiveConns) + Spawned = n + m
    <3>1. Cardinality(P \cup A) = n + m - Spawned
      <4> HIDE DEF P, A, n, m
      <4> QED BY <2>2, <2>3, <2>4, FS_Union
    <3>2. Spawned \in Int
      BY DEF Spawned
    <3> HIDE DEF P, A, n, m
    <3> QED BY <2>a, <2>1, <3>1, <3>2
  <2>6. main = "down" => PendingConns \cup ActiveConns = {}
    BY DEF OwnInv, Emptied, PendingConns, ActiveConns
  <2> QED BY <2>5, <2>6 DEF OwnInv, FreedOnce, ConnOwnedOnce
<1> QED BY <1>1, Ownership, PTL

\* The session loop of h3_event_thread services every session exactly once in
\* a turn, however many it removes on the way.
THEOREM EverySessionServedHolds == Spec => []EverySessionServed
<1>1. OwnInv => EverySessionServed
  BY DEF OwnInv
<1> QED BY <1>1, Ownership, PTL
=============================================================================
