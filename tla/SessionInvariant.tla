-------------------------- MODULE SessionInvariant --------------------------
(***************************************************************************)
(* The inductive invariant of Session, and that the quiet steps of the     *)
(* pass, the workers, the dispatch, the peer and the accept loop keep it.  *)
(* The drain, the flush, the end of the session and the theorems are in    *)
(* SessionProofs.                                                          *)
(***************************************************************************)
EXTENDS Session, FiniteSetTheorems, SequenceTheorems, TLAPS

\* What the steps rely on about the shape of the state.
Types ==
  /\ st \in [Sids -> StreamRec] /\ input \in [Sids -> InputRec]
  /\ tasks \in [Sids -> [TaskStates -> Nat]] /\ freed \in [Sids -> Nat]
  /\ pending_free \in Seq(Sids) /\ snapshot \in Seq(Sids) /\ completed \in Seq(Bidi)
  /\ active_tasks \in Int /\ blocked_streams \in Int
  /\ offset \in Nat /\ stream_drain_cursor \in Nat

\* A stream has at most one worker, which it is dispatched to and which has not
\* finished it; only a stream whose worker finished is reclaimed.
WorkInv ==
  \A s \in Sids :
    /\ InUse(s) <= 1
    /\ InUse(s) = 1 => st[s].dispatched /\ ~st[s].worker_done
    /\ st[s].worker_done => st[s].dispatched
    /\ st[s].reclaimed => st[s].worker_done

\* The tasks there are, numbered within their stream and place.
TaskSet == {x \in Sids \X TaskStates \X Nat : 1 <= x[3] /\ x[3] <= tasks[x[1]][x[2]]}

\* active_tasks counts the tasks, and the session is destroyed only without one.
TaskInv ==
  /\ IsFiniteSet(TaskSet) /\ Cardinality(TaskSet) = active_tasks
  /\ pc = "gone" => active_tasks = 0

\* Where the QUIC stream object of s is.
Held(s) == IF st[s].qstream THEN 1 ELSE 0

\* Every accepted QUIC stream object is in one place.
OwnInv ==
  /\ \A s \in Sids : freed[s] + Occurrences(s) + Held(s) =
                       IF input[s].state = "open" THEN 1 ELSE 0
  /\ pending_free = <<>> \/ LockHeld \/ ngh3_dead

Blocked == {s \in Sids : st[s].write_blocked}

\* Only streams of the table are write-blocked, blocked_streams counts them, and
\* only accepted streams are in the table.
BlockInv ==
  pc # "gone" => /\ blocked_streams = Cardinality(Blocked)
                 /\ \A s \in Sids : /\ st[s].write_blocked => st[s].tracked
                                    /\ st[s].tracked => input[s].state = "open"

\* A complete body that is not done means that the receive side is finished: by
\* the FIN, or by a reset or a lost connection before nghttp3 knew the stream.
WholeInv ==
  /\ \A s \in Sids :
       /\ st[s].headers_complete => st[s].user_data
       /\ st[s].body_complete /\ ~st[s].done =>
            ReadFinished(s) /\ (input[s].finished \/ ~st[s].user_data)
       /\ st[s].dispatched => s \in Bidi /\ input[s].finished
  /\ \A i \in 1..Len(completed) : input[completed[i]].finished

Inv == Types /\ WorkInv /\ TaskInv /\ OwnInv /\ BlockInv /\ WholeInv
-----------------------------------------------------------------------------
(* What a step keeps of each part of the invariant.                        *)

\* A step that moves no task and frees at most streams whose worker finished.
LEMMA WorkKept ==
  ASSUME WorkInv, UNCHANGED tasks,
         \A s \in Sids : /\ st'[s].dispatched = st[s].dispatched
                         /\ st'[s].worker_done = st[s].worker_done
                         /\ st'[s].reclaimed => st[s].reclaimed \/ st[s].worker_done
  PROVE  WorkInv'
<1>1. \A s \in Sids : InUse(s)' = InUse(s)
  BY DEF InUse
<1> QED BY <1>1 DEF WorkInv

\* A step that moves no task and does not destroy the session.
LEMMA TaskKept ==
  ASSUME TaskInv, UNCHANGED <<tasks, active_tasks>>, pc' = "gone" => active_tasks = 0
  PROVE  TaskInv'
<1>1. TaskSet' = TaskSet
  BY DEF TaskSet
<1> QED BY <1>1 DEF TaskInv

\* A step that moves no QUIC stream object and keeps the lock's promise.
LEMMA OwnKept ==
  ASSUME OwnInv, UNCHANGED <<freed, pending_free>>,
         \A s \in Sids : /\ st'[s].qstream = st[s].qstream
                         /\ input'[s].state = "open" <=> input[s].state = "open",
         ngh3_dead => ngh3_dead', LockHeld => LockHeld' \/ ngh3_dead'
  PROVE  OwnInv'
<1>1. \A s \in Sids : Held(s)' = Held(s) /\ Occurrences(s)' = Occurrences(s)
  BY DEF Held, Occurrences
<1> QED BY <1>1 DEF OwnInv

\* A step that blocks and unblocks no stream.
LEMMA BlockKept ==
  ASSUME BlockInv, UNCHANGED blocked_streams, pc = "gone" => pc' = "gone",
         \A s \in Sids : /\ st'[s].write_blocked = st[s].write_blocked
                         /\ st'[s].tracked = st[s].tracked
                         /\ input[s].state = "open" => input'[s].state = "open"
  PROVE  BlockInv'
<1>1. Blocked' = Blocked
  BY DEF Blocked
<1> QED BY <1>1 DEF BlockInv

\* A step that feeds nghttp3 nothing and dispatches nothing.
LEMMA WholeKept ==
  ASSUME Types, WholeInv, UNCHANGED completed,
         \A s \in Sids : /\ st'[s].headers_complete = st[s].headers_complete
                         /\ st'[s].user_data = st[s].user_data
                         /\ st'[s].body_complete = st[s].body_complete
                         /\ st'[s].done = st[s].done
                         /\ st'[s].dispatched => st[s].dispatched
                         /\ input[s].finished => input'[s].finished
                         /\ input[s].reset => input'[s].reset,
         conn_closed => conn_closed'
  PROVE  WholeInv'
<1>1. \A s \in Sids : ReadFinished(s) => ReadFinished(s)'
  BY DEF ReadFinished
<1>2. \A i \in 1..Len(completed) : completed[i] \in Sids
  <2>1. completed \in Seq(Bidi) /\ Bidi \subseteq Sids
    BY SessionAssumption DEF Types
  <2> QED BY <2>1
<1>3. \A i \in 1..Len(completed') : input'[completed'[i]].finished
  BY <1>2 DEF WholeInv
<1>4. ASSUME NEW s \in Sids
      PROVE  /\ st'[s].headers_complete => st'[s].user_data
             /\ st'[s].body_complete /\ ~st'[s].done =>
                  ReadFinished(s)' /\ (input'[s].finished \/ ~st'[s].user_data)
             /\ st'[s].dispatched => s \in Bidi /\ input'[s].finished
  BY <1>1 DEF WholeInv
<1> QED BY <1>3, <1>4 DEF WholeInv
-----------------------------------------------------------------------------
(* The session as h3_session_create leaves it, and the steps that only     *)
(* move the pass on.                                                       *)

\* A new session has no stream, no task and nothing to free.
LEMMA InitInv == Init => Inv
<1> SUFFICES ASSUME Init PROVE Inv
  OBVIOUS
<1>1. Types
  <2>1. st \in [Sids -> StreamRec]
    BY DEF Init, StreamRec
  <2>2. input \in [Sids -> InputRec]
    BY SessionAssumption DEF Init, InputRec
  <2>3. tasks \in [Sids -> [TaskStates -> Nat]] /\ freed \in [Sids -> Nat]
    BY DEF Init
  <2>4. pending_free \in Seq(Sids) /\ snapshot \in Seq(Sids) /\ completed \in Seq(Bidi)
    BY DEF Init
  <2>5. /\ active_tasks \in Int /\ blocked_streams \in Int
        /\ offset \in Nat /\ stream_drain_cursor \in Nat
    BY DEF Init
  <2> QED BY <2>1, <2>2, <2>3, <2>4, <2>5 DEF Types
<1>2. \A s \in Sids : tasks[s]["queued"] = 0 /\ tasks[s]["run"] = 0 /\ tasks[s]["replied"] = 0
  BY DEF Init, TaskStates
<1>3. \A s \in Sids : /\ st[s].tracked = FALSE /\ st[s].reclaimed = FALSE
                      /\ st[s].qstream = FALSE /\ st[s].write_blocked = FALSE
                      /\ st[s].headers_complete = FALSE /\ st[s].body_complete = FALSE
                      /\ st[s].dispatched = FALSE /\ st[s].worker_done = FALSE
  BY Zenon DEF Init
<1>4. WorkInv
  BY <1>2, <1>3 DEF WorkInv, InUse
<1>5. TaskInv
  <2>1. TaskSet = {}
    BY DEF Init, TaskSet
  <2> QED BY <2>1, FS_EmptySet DEF Init, TaskInv
<1>6. OwnInv
  <2>1. pending_free = <<>> /\ \A s \in Sids : freed[s] = 0 /\ input[s].state = "idle"
    BY DEF Init
  <2>2. \A s \in Sids : {k \in 1..Len(pending_free) : pending_free[k] = s} = {}
    BY <2>1
  <2>3. \A s \in Sids : Occurrences(s) = 0 /\ Held(s) = 0
    BY <1>3, <2>2, FS_EmptySet, Zenon DEF Occurrences, Held
  <2> QED BY <2>1, <2>3 DEF OwnInv
<1>7. BlockInv
  <2>1. Blocked = {}
    BY <1>3 DEF Blocked
  <2>2. blocked_streams = 0
    BY DEF Init
  <2> QED BY <1>3, <2>1, <2>2, FS_EmptySet DEF BlockInv
<1>8. WholeInv
  <2>1. Len(completed) = 0
    BY DEF Init
  <2> QED BY <1>3, <2>1 DEF WholeInv
<1> QED BY <1>1, <1>4, <1>5, <1>6, <1>7, <1>8 DEF Inv

\* What the pass does around the drain, the flush and the dispatch, the clock
\* and the child's main thread: no stream, task or QUIC stream object is touched.
Quiet ==
  \/ BeginPass \/ Goaway \/ CheckConnection \/ ScratchFails \/ SkipStream
  \/ BeginDrain \/ EndDispatch \/ IdleCheck \/ EndPass \/ ConnClose \/ Tick \/ Listener
  \/ UNCHANGED vars

\* The frame of the quiet steps.
LEMMA QuietFrame ==
  ASSUME Inv, Quiet
  PROVE  /\ UNCHANGED <<st, input, tasks, active_tasks, freed, pending_free,
                        blocked_streams, ngh3_dead>>
         /\ pc = "gone" <=> pc' = "gone"
         /\ LockHeld => LockHeld'
         /\ conn_closed => conn_closed'
         /\ completed' = completed \/ completed' = <<>>
         /\ stream_drain_cursor' \in Nat
<1>0. stream_drain_cursor \in Nat
  BY DEF Inv, Types
<1>1. CASE BeginPass
  BY <1>0, <1>1 DEF BeginPass, ioVars, drainVars, LockHeld
<1>2. CASE Goaway
  BY <1>0, <1>2 DEF Goaway, ioVars, drainVars, LockHeld
<1>3. CASE CheckConnection \/ ScratchFails
  BY <1>0, <1>3 DEF CheckConnection, ScratchFails, ioVars, drainVars, LockHeld
<1>4. CASE SkipStream
  BY <1>0, <1>4 DEF SkipStream, ioVars, LockHeld
<1>5. CASE BeginDrain
  BY <1>0, <1>5 DEF BeginDrain, ioVars, LockHeld
<1>6. CASE EndDispatch \/ IdleCheck
  BY <1>0, <1>6 DEF EndDispatch, IdleCheck, ioVars, drainVars, LockHeld
<1>7. CASE EndPass
  BY <1>0, <1>7 DEF EndPass, ioVars, LockHeld
<1>8. CASE ConnClose \/ Tick \/ Listener
  BY <1>0, <1>8 DEF ConnClose, Tick, Listener, ioVars, drainVars, LockHeld
<1>9. CASE UNCHANGED vars
  BY <1>0, <1>9 DEF vars, ioVars, drainVars, LockHeld
<1> QED BY <1>1, <1>2, <1>3, <1>4, <1>5, <1>6, <1>7, <1>8, <1>9 DEF Quiet

\* The quiet steps keep the list of streams a drain works on.
LEMMA QuietDrain ==
  ASSUME Inv, Quiet
  PROVE  snapshot' \in Seq(Sids) /\ offset' \in Nat
<1>0. snapshot \in Seq(Sids) /\ offset \in Nat
  BY DEF Inv, Types
<1>1. CASE BeginDrain
  <2>1. PICK q \in [1..Cardinality(Tracked) -> Tracked] : snapshot' = q
    BY <1>1 DEF BeginDrain
  <2>2. IsFiniteSet(Tracked) /\ Tracked \subseteq Sids
    BY FS_Subset, SessionAssumption DEF Tracked
  <2>3. Cardinality(Tracked) \in Nat
    BY <2>2, FS_CardinalityType
  <2>4. q \in [1..Cardinality(Tracked) -> Sids]
    BY <2>1, <2>2
  <2>5. q \in Seq(Sids)
    BY <2>3, <2>4
  <2> QED BY <1>1, <2>1, <2>5 DEF BeginDrain
<1>2. CASE SkipStream
  BY <1>0, <1>2 DEF SkipStream
<1>3. CASE ~BeginDrain /\ ~SkipStream
  BY <1>0, <1>3 DEF Quiet, BeginPass, Goaway, CheckConnection, ScratchFails, EndDispatch,
     IdleCheck, EndPass, ConnClose, Tick, Listener, vars, drainVars
<1> QED BY <1>1, <1>2, <1>3

\* A quiet step keeps the invariant.
LEMMA QuietInv ==
  ASSUME Inv, Quiet
  PROVE  Inv'
<1>1. /\ UNCHANGED <<st, input, tasks, active_tasks, freed, pending_free,
                     blocked_streams, ngh3_dead>>
      /\ pc = "gone" <=> pc' = "gone"
      /\ LockHeld => LockHeld'
      /\ conn_closed => conn_closed'
      /\ completed' = completed \/ completed' = <<>>
      /\ stream_drain_cursor' \in Nat
  BY QuietFrame
<1>2. completed' \in Seq(Bidi)
  <2>1. completed \in Seq(Bidi) /\ <<>> \in Seq(Bidi)
    BY DEF Inv, Types
  <2> QED BY <1>1, <2>1, Zenon
<1>3. Types'
  <2>1. Types
    BY DEF Inv
  <2>2. /\ st' \in [Sids -> StreamRec] /\ input' \in [Sids -> InputRec]
        /\ tasks' \in [Sids -> [TaskStates -> Nat]] /\ freed' \in [Sids -> Nat]
        /\ active_tasks' \in Int /\ blocked_streams' \in Int
    BY <1>1, <2>1, Zenon DEF Types
  <2>3. pending_free' \in Seq(Sids)
    BY <1>1, <2>1 DEF Types
  <2> QED BY <1>1, <1>2, <2>2, <2>3, QuietDrain, Zenon DEF Types
<1>4. WorkInv'
  BY <1>1, WorkKept DEF Inv
<1>5. TaskInv'
  BY <1>1, TaskKept DEF Inv, TaskInv
<1>6. OwnInv'
  BY <1>1, OwnKept DEF Inv
<1>7. BlockInv'
  BY <1>1, BlockKept DEF Inv
<1>8. WholeInv'
  <2>1. CASE completed' = completed
    BY <1>1, <2>1, WholeKept DEF Inv
  <2>2. CASE completed' = <<>>
    <3>1. Len(completed') = 0
      BY <2>2
    <3>2. \A s \in Sids : ReadFinished(s) => ReadFinished(s)'
      BY <1>1 DEF ReadFinished
    <3> QED BY <1>1, <3>1, <3>2 DEF Inv, WholeInv
  <2> QED BY <1>1, <2>1, <2>2
<1> QED BY <1>3, <1>4, <1>5, <1>6, <1>7, <1>8 DEF Inv
-----------------------------------------------------------------------------
(* The workers and the dispatch.                                           *)

\* What is a task.
LEMMA TaskMember ==
  ASSUME NEW s \in Sids, NEW p \in TaskStates, NEW k \in Nat
  PROVE  <<s, p, k>> \in TaskSet <=> 1 <= k /\ k <= tasks[s][p]
  BY DEF TaskSet

\* A task that is pushed is a new one.
LEMMA TaskAdded ==
  ASSUME Types, NEW s \in Sids, NEW p \in TaskStates,
         tasks' = [tasks EXCEPT ![s][p] = @ + 1]
  PROVE  /\ TaskSet' = TaskSet \cup {<<s, p, tasks[s][p] + 1>>}
         /\ <<s, p, tasks[s][p] + 1>> \notin TaskSet
<1> DEFINE n == tasks[s][p] + 1
<1>1. tasks \in [Sids -> [TaskStates -> Nat]]
  BY DEF Types
<1>2. n \in Nat /\ n >= 1 /\ tasks[s][p] \in Nat
  BY <1>1
<1>3. \A t \in Sids, u \in TaskStates :
        /\ tasks[t][u] \in Nat
        /\ tasks'[t][u] = IF t = s /\ u = p THEN n ELSE tasks[t][u]
  BY <1>1
<1> HIDE DEF n
<1>4. \A t \in Sids, u \in TaskStates, k \in Nat :
        (1 <= k /\ k <= tasks'[t][u]) <=>
          (1 <= k /\ k <= tasks[t][u]) \/ (t = s /\ u = p /\ k = n)
  BY <1>2, <1>3 DEF n
<1>5. TaskSet' = TaskSet \cup {<<s, p, n>>}
  BY <1>2, <1>4 DEF TaskSet
<1>6. <<s, p, n>> \notin TaskSet
  BY <1>2, TaskMember DEF n
<1> QED BY <1>5, <1>6 DEF n

\* A task that leaves is one of those there are.
LEMMA TaskRemoved ==
  ASSUME Types, NEW s \in Sids, NEW p \in TaskStates, tasks[s][p] > 0,
         tasks' = [tasks EXCEPT ![s][p] = @ - 1]
  PROVE  /\ TaskSet' = TaskSet \ {<<s, p, tasks[s][p]>>}
         /\ <<s, p, tasks[s][p]>> \in TaskSet
<1> DEFINE n == tasks[s][p]
<1>1. tasks \in [Sids -> [TaskStates -> Nat]]
  BY DEF Types
<1>2. n \in Nat /\ n >= 1
  BY <1>1
<1>3. \A t \in Sids, u \in TaskStates :
        /\ tasks[t][u] \in Nat
        /\ tasks'[t][u] = IF t = s /\ u = p THEN n - 1 ELSE tasks[t][u]
  BY <1>1
<1>4. \A t \in Sids, u \in TaskStates, k \in Nat :
        (1 <= k /\ k <= tasks'[t][u]) <=>
          (1 <= k /\ k <= tasks[t][u]) /\ ~(t = s /\ u = p /\ k = n)
  BY <1>2, <1>3
<1>5. <<s, p, n>> \in TaskSet
  BY <1>2, TaskMember
<1> HIDE DEF n
<1>6. TaskSet' = TaskSet \ {<<s, p, n>>}
  BY <1>2, <1>4 DEF TaskSet
<1> QED BY <1>5, <1>6 DEF n

\* A task that moves to another place stays one task.
LEMMA TaskMoved ==
  ASSUME Types, NEW s \in Sids, NEW p \in TaskStates, NEW q \in TaskStates, p # q,
         tasks[s][p] > 0, tasks' = Move(s, p, q)
  PROVE  /\ TaskSet' = (TaskSet \ {<<s, p, tasks[s][p]>>}) \cup {<<s, q, tasks[s][q] + 1>>}
         /\ <<s, p, tasks[s][p]>> \in TaskSet
         /\ <<s, q, tasks[s][q] + 1>> \notin TaskSet
<1> DEFINE n == tasks[s][p]
           m == tasks[s][q] + 1
<1>1. tasks \in [Sids -> [TaskStates -> Nat]]
  BY DEF Types
<1>2. n \in Nat /\ n >= 1 /\ m \in Nat /\ m >= 1
  BY <1>1
<1>3. \A t \in Sids, u \in TaskStates :
        /\ tasks[t][u] \in Nat
        /\ tasks'[t][u] = IF t = s /\ u = p THEN n - 1
                          ELSE IF t = s /\ u = q THEN m ELSE tasks[t][u]
  BY <1>1 DEF Move
<1>4. \A t \in Sids, u \in TaskStates, k \in Nat :
        (1 <= k /\ k <= tasks'[t][u]) <=>
          \/ (1 <= k /\ k <= tasks[t][u]) /\ ~(t = s /\ u = p /\ k = n)
          \/ t = s /\ u = q /\ k = m
  BY <1>2, <1>3
<1>5. <<s, p, n>> \in TaskSet /\ <<s, q, m>> \notin TaskSet
  BY <1>2, <1>1, TaskMember
<1> HIDE DEF n, m
<1>6. TaskSet' = (TaskSet \ {<<s, p, n>>}) \cup {<<s, q, m>>}
  BY <1>2, <1>4 DEF TaskSet
<1> QED BY <1>5, <1>6 DEF n, m

\* The task count across a move.
LEMMA MovedCount ==
  ASSUME Types, TaskInv, NEW s \in Sids, NEW p \in TaskStates, NEW q \in TaskStates, p # q,
         tasks[s][p] > 0, tasks' = Move(s, p, q), UNCHANGED <<active_tasks, pc>>
  PROVE  TaskInv'
<1> DEFINE x == <<s, p, tasks[s][p]>>
           y == <<s, q, tasks[s][q] + 1>>
           A == TaskSet \ {x}
<1>1. TaskSet' = A \cup {y} /\ x \in TaskSet /\ y \notin TaskSet
  BY TaskMoved
<1> HIDE DEF x, y
<1>2. IsFiniteSet(TaskSet) /\ Cardinality(TaskSet) = active_tasks /\ active_tasks \in Int
  BY DEF TaskInv, Types
<1>3. IsFiniteSet(A) /\ Cardinality(A) = active_tasks - 1
  BY <1>1, <1>2, FS_RemoveElement
<1>4. y \notin A
  BY <1>1
<1> HIDE DEF A
<1>5. IsFiniteSet(A \cup {y}) /\ Cardinality(A \cup {y}) = active_tasks - 1 + 1
  BY <1>3, <1>4, FS_AddElement
<1> QED BY <1>1, <1>2, <1>5 DEF TaskInv

\* The fields of a stream that the workers leave alone.
SameTransport(r, q) ==
  /\ q \in StreamRec
  /\ q.tracked = r.tracked /\ q.qstream = r.qstream /\ q.write_blocked = r.write_blocked
  /\ q.reclaimed = r.reclaimed /\ q.headers_complete = r.headers_complete
  /\ q.user_data = r.user_data /\ q.body_complete = r.body_complete /\ q.done = r.done

\* What a worker does to a stream.
LEMMA WorkerFields ==
  ASSUME NEW r \in StreamRec
  PROVE  /\ SameTransport(r, r)
         /\ SameTransport(r, [r EXCEPT !.dispatched = TRUE])
         /\ SameTransport(r, [r EXCEPT !.dispatched = FALSE])
         /\ SameTransport(r, [r EXCEPT !.worker_done = TRUE])
         /\ SameTransport(r, [r EXCEPT !.response = "pending"])
         /\ SameTransport(r, [r EXCEPT !.response_cancelled = TRUE])
  BY Zenon DEF SameTransport, StreamRec

\* A reply does not say whether the stream is dispatched or its worker done.
LEMMA ReplyFields ==
  ASSUME NEW r \in StreamRec, NEW q,
         q = r \/ q = [r EXCEPT !.response = "pending"] \/ q = [r EXCEPT !.response_cancelled = TRUE]
  PROVE  q.dispatched = r.dispatched /\ q.worker_done = r.worker_done
<1>1. CASE q = r
  BY <1>1
<1>2. CASE q = [r EXCEPT !.response = "pending"]
  BY <1>2 DEF StreamRec
<1>3. CASE q = [r EXCEPT !.response_cancelled = TRUE]
  BY <1>3 DEF StreamRec
<1> QED BY <1>1, <1>2, <1>3

\* What is left of the invariant when a worker or the dispatch has moved a task.
LEMMA WorkerRest ==
  ASSUME Inv, \A t \in Sids : SameTransport(st[t], st'[t]),
         st' \in [Sids -> StreamRec], tasks' \in [Sids -> [TaskStates -> Nat]],
         active_tasks' \in Int, completed' \in Seq(Bidi), UNCHANGED <<input, freed, pending_free, snapshot, blocked_streams,
                     offset, stream_drain_cursor, ngh3_dead, pc, conn_closed>>
  PROVE  Types' /\ OwnInv' /\ BlockInv'
<1>1. Types
  BY DEF Inv
<1>2. pending_free' \in Seq(Sids) /\ snapshot' \in Seq(Sids)
  BY <1>1 DEF Types
<1>3. /\ input' \in [Sids -> InputRec] /\ freed' \in [Sids -> Nat]
      /\ blocked_streams' \in Int /\ offset' \in Nat /\ stream_drain_cursor' \in Nat
  BY <1>1, Zenon DEF Types
<1>4. Types'
  BY <1>2, <1>3, Zenon DEF Types
<1>5. LockHeld' = LockHeld
  BY DEF LockHeld
<1>6. OwnInv'
  BY <1>5, OwnKept DEF Inv, SameTransport
<1>7. BlockInv'
  BY BlockKept DEF Inv, SameTransport
<1> QED BY <1>4, <1>6, <1>7

\* The steps of the workers keep the invariant: the one task of a stream moves
\* on, and takes dispatched back or sets worker_done on its way.
LEMMA WorkerInv ==
  ASSUME Inv, NEW s \in Sids, Worker(s)
  PROVE  Inv'
<1>1. Types /\ WorkInv /\ TaskInv
  BY DEF Inv
<1>2. st \in [Sids -> StreamRec] /\ tasks \in [Sids -> [TaskStates -> Nat]] /\ active_tasks \in Int
  BY <1>1 DEF Types
<1>3. UNCHANGED <<input, freed, pending_free, snapshot, blocked_streams, completed,
                  offset, stream_drain_cursor, ngh3_dead, pc, conn_closed>>
  BY DEF Worker, TaskRun, TaskFail, TaskReply, TaskDone, TaskLeave, TaskFrame, ioVars, drainVars
<1>4. \A t \in Sids : /\ tasks[t]["queued"] \in Nat /\ tasks[t]["run"] \in Nat
                      /\ tasks[t]["replied"] \in Nat
  BY <1>2 DEF TaskStates
<1>5. completed' \in Seq(Bidi)
  BY <1>1, <1>3 DEF Types
<1>6. ASSUME st' \in [Sids -> StreamRec], \A t \in Sids : SameTransport(st[t], st'[t]),
             \A t \in Sids : st'[t].dispatched => st[t].dispatched,
             tasks' \in [Sids -> [TaskStates -> Nat]], WorkInv', TaskInv', active_tasks' \in Int
      PROVE  Inv'
  <2>1. Types' /\ OwnInv' /\ BlockInv'
    BY <1>3, <1>5, <1>6, WorkerRest
  <2>2. WholeInv'
    BY <1>3, <1>6, WholeKept DEF Inv, SameTransport
  <2> QED BY <1>6, <2>1, <2>2 DEF Inv
<1>7. CASE TaskRun(s)
  <2>1. tasks' = Move(s, "queued", "run") /\ UNCHANGED <<st, active_tasks>> /\ tasks[s]["queued"] > 0
    BY <1>7 DEF TaskRun
  <2>2. tasks' \in [Sids -> [TaskStates -> Nat]]
    BY <1>2, <2>1 DEF Move, TaskStates
  <2>3. TaskInv'
    BY <1>1, <1>3, <2>1, MovedCount DEF TaskStates
  <2>4. \A t \in Sids : InUse(t)' = InUse(t)
    BY <1>2, <1>4, <2>1 DEF InUse, Move, TaskStates
  <2>5. WorkInv'
    BY <1>1, <2>1, <2>4 DEF WorkInv
  <2>6. \A t \in Sids : SameTransport(st[t], st'[t])
    BY <1>2, <2>1, WorkerFields, Zenon
  <2> QED BY <1>2, <1>6, <2>1, <2>2, <2>3, <2>5, <2>6
<1>8. CASE TaskFail(s)
  <2>1. /\ tasks' = Move(s, "queued", "failed") /\ UNCHANGED active_tasks /\ tasks[s]["queued"] > 0
        /\ st' = [st EXCEPT ![s].dispatched = FALSE]
    BY <1>8 DEF TaskFail
  <2>2. tasks' \in [Sids -> [TaskStates -> Nat]]
    BY <1>2, <2>1 DEF Move, TaskStates
  <2>3. TaskInv'
    BY <1>1, <1>3, <2>1, MovedCount DEF TaskStates
  <2>4. \A t \in Sids : st'[t] = IF t = s THEN [st[s] EXCEPT !.dispatched = FALSE] ELSE st[t]
    BY <1>2, <2>1
  <2>5. \A t \in Sids : SameTransport(st[t], st'[t])
    BY <1>2, <2>4, WorkerFields, Zenon
  <2>6. st'[s].dispatched = FALSE /\ st'[s].worker_done = st[s].worker_done
    BY <1>2, <2>4 DEF StreamRec
  <2>7. \A t \in Sids : InUse(t)' = IF t = s THEN InUse(t) - 1 ELSE InUse(t)
    BY <1>2, <1>4, <2>1 DEF InUse, Move, TaskStates
  <2>8. InUse(s) = 1 /\ ~st[s].worker_done /\ ~st[s].reclaimed
    BY <1>1, <1>4, <2>1 DEF WorkInv, InUse
  <2>9. WorkInv'
    BY <1>1, <2>4, <2>5, <2>6, <2>7, <2>8 DEF WorkInv, SameTransport
  <2>10. st' \in [Sids -> StreamRec]
    BY <1>2, <2>1, <2>5, Zenon DEF SameTransport
  <2>11. \A t \in Sids : st'[t].dispatched => st[t].dispatched
    BY <2>4, <2>6
  <2> QED BY <1>2, <1>6, <2>1, <2>2, <2>3, <2>5, <2>9, <2>10, <2>11, Zenon
<1>9. CASE TaskReply(s)
  <2>1. /\ tasks' = Move(s, "run", "replied") /\ UNCHANGED active_tasks /\ tasks[s]["run"] > 0
        /\ \/ UNCHANGED st \/ st' = [st EXCEPT ![s].response = "pending"]
           \/ st' = [st EXCEPT ![s].response_cancelled = TRUE]
    BY <1>9 DEF TaskReply
  <2>2. tasks' \in [Sids -> [TaskStates -> Nat]]
    BY <1>2, <2>1 DEF Move, TaskStates
  <2>3. TaskInv'
    BY <1>1, <1>3, <2>1, MovedCount DEF TaskStates
  <2>4. \A t \in Sids : \/ st'[t] = st[t] \/ st'[t] = [st[t] EXCEPT !.response = "pending"]
                        \/ st'[t] = [st[t] EXCEPT !.response_cancelled = TRUE]
    BY <1>2, <2>1, Zenon
  <2>5. \A t \in Sids : SameTransport(st[t], st'[t])
    BY <1>2, <2>4, WorkerFields, Zenon
  <2>6. \A t \in Sids : st'[t].dispatched = st[t].dispatched /\ st'[t].worker_done = st[t].worker_done
    BY <1>2, <2>4, ReplyFields, Zenon
  <2>7. \A t \in Sids : InUse(t)' = InUse(t)
    BY <1>2, <1>4, <2>1 DEF InUse, Move, TaskStates
  <2>8. WorkInv'
    BY <1>1, <2>5, <2>6, <2>7 DEF WorkInv, SameTransport
  <2>9. st' \in [Sids -> StreamRec]
    BY <1>2, <2>1, <2>5 DEF SameTransport
  <2> QED BY <1>2, <1>6, <2>1, <2>2, <2>3, <2>5, <2>6, <2>8, <2>9
<1>10. CASE TaskDone(s)
  <2>1. /\ tasks' = Move(s, "replied", "leaving") /\ UNCHANGED active_tasks /\ tasks[s]["replied"] > 0
        /\ st' = [st EXCEPT ![s].worker_done = TRUE]
    BY <1>10 DEF TaskDone
  <2>2. tasks' \in [Sids -> [TaskStates -> Nat]]
    BY <1>2, <2>1 DEF Move, TaskStates
  <2>3. TaskInv'
    BY <1>1, <1>3, <2>1, MovedCount DEF TaskStates
  <2>4. \A t \in Sids : st'[t] = IF t = s THEN [st[s] EXCEPT !.worker_done = TRUE] ELSE st[t]
    BY <1>2, <2>1
  <2>5. \A t \in Sids : SameTransport(st[t], st'[t])
    BY <1>2, <2>4, WorkerFields, Zenon
  <2>6. st'[s].worker_done = TRUE /\ st'[s].dispatched = st[s].dispatched
    BY <1>2, <2>4 DEF StreamRec
  <2>7. \A t \in Sids : InUse(t)' = IF t = s THEN InUse(t) - 1 ELSE InUse(t)
    BY <1>2, <1>4, <2>1 DEF InUse, Move, TaskStates
  <2>8. InUse(s) = 1 /\ st[s].dispatched
    BY <1>1, <1>4, <2>1 DEF WorkInv, InUse
  <2>9. WorkInv'
    <3>1. ASSUME NEW t \in Sids, t # s
          PROVE  st'[t] = st[t] /\ InUse(t)' = InUse(t)
      BY <2>4, <2>7, <3>1
    <3>2. InUse(s)' = 0 /\ st'[s].worker_done /\ st'[s].dispatched
      BY <2>6, <2>7, <2>8
    <3> QED BY <1>1, <3>1, <3>2 DEF WorkInv
  <2>10. st' \in [Sids -> StreamRec]
    BY <1>2, <2>1, <2>5, Zenon DEF SameTransport
  <2>11. \A t \in Sids : st'[t].dispatched => st[t].dispatched
    BY <2>4, <2>6
  <2> QED BY <1>2, <1>6, <2>1, <2>2, <2>3, <2>5, <2>9, <2>10, <2>11, Zenon
<1>11. CASE TaskLeave(s)
  <2>1. PICK p \in {"failed", "leaving"} :
          tasks[s][p] > 0 /\ tasks' = [tasks EXCEPT ![s][p] = @ - 1]
    BY <1>11, Zenon DEF TaskLeave
  <2>2. active_tasks' = active_tasks - 1 /\ UNCHANGED st /\ p \in TaskStates
    BY <1>11, <2>1 DEF TaskLeave, TaskStates
  <2>3. tasks' \in [Sids -> [TaskStates -> Nat]]
    BY <1>2, <2>1, <2>2
  <2>4. TaskInv'
    <3>1. TaskSet' = TaskSet \ {<<s, p, tasks[s][p]>>} /\ <<s, p, tasks[s][p]>> \in TaskSet
      BY <1>1, <2>1, <2>2, TaskRemoved, Zenon
    <3>2. IsFiniteSet(TaskSet) /\ Cardinality(TaskSet) = active_tasks
      BY <1>1 DEF TaskInv
    <3>3. IsFiniteSet(TaskSet') /\ Cardinality(TaskSet') = active_tasks'
      BY <2>2, <3>1, <3>2, FS_RemoveElement, Zenon
    <3>4. Cardinality(TaskSet) # 0
      BY <3>1, <3>2, FS_EmptySet
    <3> QED BY <1>1, <1>3, <3>2, <3>3, <3>4 DEF TaskInv
  <2>5. \A t \in Sids : InUse(t)' = InUse(t)
    BY <1>2, <1>4, <2>1 DEF InUse, TaskStates
  <2>6. WorkInv'
    BY <1>1, <2>2, <2>5 DEF WorkInv
  <2>7. \A t \in Sids : SameTransport(st[t], st'[t])
    BY <1>2, <2>2, WorkerFields, Zenon
  <2> QED BY <1>2, <1>6, <2>2, <2>3, <2>4, <2>6, <2>7
<1> QED BY <1>7, <1>8, <1>9, <1>10, <1>11 DEF Worker

\* Dispatch keeps the invariant: the stream it takes from the completed ones was
\* read to its end, and gets a task only if no other worker has it.
LEMMA DispatchInv ==
  ASSUME Inv, Dispatch
  PROVE  Inv'
<1>1. Types /\ WorkInv /\ TaskInv /\ WholeInv /\ Bidi \subseteq Sids
  BY SessionAssumption DEF Inv
<1>2. /\ st \in [Sids -> StreamRec] /\ tasks \in [Sids -> [TaskStates -> Nat]]
      /\ active_tasks \in Int /\ completed \in Seq(Bidi)
  BY <1>1 DEF Types
<1>3. pc = "dispatch" /\ completed # <<>> /\ completed' = Tail(completed)
  BY DEF Dispatch
<1>4. /\ Head(completed) \in Bidi /\ completed' \in Seq(Bidi) /\ Len(completed) \in Nat \ {0}
      /\ Len(completed') = Len(completed) - 1
      /\ \A k \in 1..Len(completed') : completed'[k] = completed[k + 1]
  BY <1>2, <1>3, HeadTailProperties, EmptySeq
<1>5. PICK s \in Bidi : s = Head(completed)
  BY <1>4
<1>6. UNCHANGED <<input, freed, pending_free, snapshot, blocked_streams, offset,
                  stream_drain_cursor, ngh3_dead, pc, conn_closed>>
  BY DEF Dispatch, ioVars
<1>7. \A k \in 1..Len(completed') : input'[completed'[k]].finished
  BY <1>1, <1>4, <1>6 DEF WholeInv
<1>8. s \in Sids /\ input[s].finished
  <2>1. s = completed[1] /\ 1 \in 1..Len(completed)
    BY <1>2, <1>4, <1>5
  <2> QED BY <1>1, <1>5, <2>1 DEF WholeInv
<1>9. \A r : ReadFinished(r)' = ReadFinished(r)
  BY <1>6 DEF ReadFinished
<1>10. CASE UNCHANGED <<st, active_tasks, tasks>>
  <2>1. WorkInv' /\ TaskInv'
    BY <1>1, <1>3, <1>6, <1>10, WorkKept, TaskKept
  <2>2. \A t \in Sids : SameTransport(st[t], st'[t])
    BY <1>2, <1>10, WorkerFields, Zenon
  <2>3. Types' /\ OwnInv' /\ BlockInv'
    BY <1>2, <1>4, <1>6, <1>10, <2>2, WorkerRest
  <2>4. WholeInv'
    BY <1>1, <1>6, <1>7, <1>9, <1>10 DEF WholeInv
  <2> QED BY <2>1, <2>3, <2>4 DEF Inv
<1>11. CASE /\ ~st[s].dispatched /\ st' = [st EXCEPT ![s].dispatched = TRUE]
            /\ active_tasks' = active_tasks + 1 /\ tasks' = [tasks EXCEPT ![s]["queued"] = @ + 1]
  <2>1. tasks' \in [Sids -> [TaskStates -> Nat]] /\ active_tasks' \in Int
    BY <1>2, <1>8, <1>11 DEF TaskStates
  <2>2. \A t \in Sids : st'[t] = IF t = s THEN [st[s] EXCEPT !.dispatched = TRUE] ELSE st[t]
    BY <1>2, <1>8, <1>11
  <2>3. \A t \in Sids : SameTransport(st[t], st'[t])
    BY <1>2, <2>2, WorkerFields, Zenon
  <2>4. st' \in [Sids -> StreamRec]
    BY <1>2, <1>11, <2>3, Zenon DEF SameTransport
  <2>5. st'[s].dispatched = TRUE /\ st'[s].worker_done = st[s].worker_done
    BY <1>2, <1>8, <2>2 DEF StreamRec
  <2>6. TaskInv'
    <3>1. IsFiniteSet(TaskSet) /\ Cardinality(TaskSet) = active_tasks
      BY <1>1 DEF TaskInv
    <3>2. /\ TaskSet' = TaskSet \cup {<<s, "queued", tasks[s]["queued"] + 1>>}
          /\ <<s, "queued", tasks[s]["queued"] + 1>> \notin TaskSet
      BY <1>1, <1>8, <1>11, TaskAdded, Zenon DEF TaskStates
    <3>3. IsFiniteSet(TaskSet') /\ Cardinality(TaskSet') = active_tasks'
      BY <1>11, <3>1, <3>2, FS_AddElement, Zenon
    <3> QED BY <1>3, <1>6, <3>3 DEF TaskInv
  <2>7. \A t \in Sids : /\ InUse(t) \in Nat
                        /\ InUse(t)' = IF t = s THEN InUse(t) + 1 ELSE InUse(t)
    <3>1. \A t \in Sids : /\ tasks[t]["queued"] \in Nat /\ tasks[t]["run"] \in Nat
                          /\ tasks[t]["replied"] \in Nat
      BY <1>2 DEF TaskStates
    <3>2. \A t \in Sids :
            /\ tasks'[t]["queued"] = IF t = s THEN tasks[t]["queued"] + 1 ELSE tasks[t]["queued"]
            /\ tasks'[t]["run"] = tasks[t]["run"] /\ tasks'[t]["replied"] = tasks[t]["replied"]
      BY <1>2, <1>8, <1>11 DEF TaskStates
    <3> QED BY <3>1, <3>2 DEF InUse
  <2>8. InUse(s) = 0 /\ ~st[s].worker_done /\ ~st[s].reclaimed
    BY <1>1, <1>8, <1>11, <2>7 DEF WorkInv
  <2>9. WorkInv'
    <3>1. ASSUME NEW t \in Sids, t # s
          PROVE  st'[t] = st[t] /\ InUse(t)' = InUse(t)
      BY <2>2, <2>7, <3>1
    <3>2. InUse(s)' = 1 /\ ~st'[s].worker_done /\ st'[s].dispatched /\ ~st'[s].reclaimed
      BY <1>8, <2>3, <2>5, <2>7, <2>8 DEF SameTransport
    <3> QED BY <1>1, <3>1, <3>2 DEF WorkInv
  <2>10. Types' /\ OwnInv' /\ BlockInv'
    BY <1>4, <1>6, <2>1, <2>3, <2>4, WorkerRest
  <2>11. WholeInv'
    <3>1. \A t \in Sids : st'[t].dispatched => t \in Bidi /\ input'[t].finished
      BY <1>1, <1>5, <1>6, <1>8, <2>2 DEF WholeInv
    <3>2. ASSUME NEW t \in Sids
          PROVE  /\ st'[t].headers_complete => st'[t].user_data
                 /\ st'[t].body_complete /\ ~st'[t].done =>
                      ReadFinished(t)' /\ (input'[t].finished \/ ~st'[t].user_data)
      BY <1>1, <1>6, <1>9, <2>3 DEF WholeInv, SameTransport
    <3> QED BY <1>7, <3>1, <3>2 DEF WholeInv
  <2> QED BY <2>6, <2>9, <2>10, <2>11 DEF Inv
<1> QED BY <1>5, <1>10, <1>11 DEF Dispatch, Reserved
-----------------------------------------------------------------------------
(* The peer and the accept loop.                                           *)

\* What arrives keeps the invariant: nothing that was received is taken back.
LEMMA PeerInv ==
  ASSUME Inv, NEW s \in Sids, Peer(s)
  PROVE  Inv'
<1>1. Types
  BY DEF Inv
<1>2. /\ st \in [Sids -> StreamRec] /\ input \in [Sids -> InputRec] /\ input[s] \in InputRec
      /\ RecvCap \in Nat
  BY <1>1, SessionAssumption DEF Types
<1>3. PICK rec : /\ input' = [input EXCEPT ![s] = rec] /\ rec \in InputRec
                 /\ rec.finished = input[s].finished
                 /\ input[s].reset => rec.reset
                 /\ rec.state = "open" <=> input[s].state = "open"
                 /\ UNCHANGED <<st, tasks, active_tasks, freed, pending_free, snapshot,
                                completed, blocked_streams, offset, stream_drain_cursor,
                                ngh3_dead, pc, conn_closed>>
  <2> DEFINE in == input[s]
  <2>0. ASSUME NEW rec, Arrival(s, rec)
        PROVE  /\ input' = [input EXCEPT ![s] = rec]
               /\ UNCHANGED <<st, tasks, active_tasks, freed, pending_free, snapshot,
                              completed, blocked_streams, offset, stream_drain_cursor,
                              ngh3_dead, pc, conn_closed>>
    BY <2>0 DEF Arrival, ioVars, drainVars
  <2>1. CASE in.state = "idle" /\ Arrival(s, [in EXCEPT !.state = "incoming"])
    BY <1>2, <2>0, <2>1 DEF InputRec
  <2>2. CASE in.data < RecvCap /\ Arrival(s, [in EXCEPT !.data = @ + 1])
    BY <1>2, <2>0, <2>2 DEF InputRec
  <2>3. CASE Arrival(s, [in EXCEPT !.fin = TRUE])
    BY <1>2, <2>0, <2>3, Zenon DEF InputRec
  <2>4. CASE Arrival(s, [in EXCEPT !.reset = TRUE])
    BY <1>2, <2>0, <2>4, Zenon DEF InputRec
  <2> QED BY <2>1, <2>2, <2>3, <2>4 DEF Peer
<1>4. input' \in [Sids -> InputRec]
  BY <1>2, <1>3
<1>5. \A t \in Sids : /\ input'[t].state = "open" <=> input[t].state = "open"
                      /\ input[t].finished => input'[t].finished
                      /\ input[t].reset => input'[t].reset
  BY <1>2, <1>3
<1>6. LockHeld' = LockHeld
  BY <1>3 DEF LockHeld
<1>7. Types'
  <2>1. pending_free' \in Seq(Sids) /\ snapshot' \in Seq(Sids) /\ completed' \in Seq(Bidi)
    BY <1>1, <1>3 DEF Types
  <2>2. /\ st' \in [Sids -> StreamRec] /\ tasks' \in [Sids -> [TaskStates -> Nat]]
        /\ freed' \in [Sids -> Nat] /\ active_tasks' \in Int
        /\ blocked_streams' \in Int /\ offset' \in Nat /\ stream_drain_cursor' \in Nat
    BY <1>1, <1>3, Zenon DEF Types
  <2> QED BY <1>4, <2>1, <2>2, Zenon DEF Types
<1>8. WorkInv'
  BY <1>3, WorkKept DEF Inv
<1>9. TaskInv'
  BY <1>3, TaskKept DEF Inv, TaskInv
<1>10. OwnInv'
  BY <1>3, <1>5, <1>6, OwnKept DEF Inv
<1>11. BlockInv'
  BY <1>3, <1>5, BlockKept DEF Inv
<1>12. WholeInv'
  BY <1>1, <1>3, <1>5, WholeKept DEF Inv
<1> QED BY <1>7, <1>8, <1>9, <1>10, <1>11, <1>12 DEF Inv

\* A stream is in pending_free a finite number of times.
LEMMA OccursFinite ==
  ASSUME Types, NEW t
  PROVE  /\ IsFiniteSet({i \in 1..Len(pending_free) : pending_free[i] = t})
         /\ Occurrences(t) \in Nat
<1>1. Len(pending_free) \in Nat
  BY DEF Types
<1>2. IsFiniteSet(1..Len(pending_free))
  BY <1>1, FS_Interval
<1>3. IsFiniteSet({i \in 1..Len(pending_free) : pending_free[i] = t})
  BY <1>2, FS_Subset
<1> QED BY <1>3, FS_CardinalityType DEF Occurrences

\* The accept loop keeps the invariant: a new stream gets its QUIC stream object,
\* or the object is freed.
LEMMA AcceptInv ==
  ASSUME Inv, NEW s \in Sids, AcceptStream(s)
  PROVE  Inv'
<1>1. Types /\ OwnInv /\ BlockInv
  BY DEF Inv
<1>2. /\ st \in [Sids -> StreamRec] /\ input \in [Sids -> InputRec] /\ freed \in [Sids -> Nat]
      /\ pending_free \in Seq(Sids)
  BY <1>1 DEF Types
<1>3. /\ pc = "accept" /\ input[s].state = "incoming"
      /\ input' = [input EXCEPT ![s].state = "open"]
      /\ UNCHANGED <<tasks, active_tasks, pending_free, snapshot, completed, blocked_streams,
                     offset, stream_drain_cursor, ngh3_dead, pc, conn_closed>>
  BY DEF AcceptStream, ioVars, drainVars
<1>4. \A t \in Sids : input'[t] = IF t = s THEN [input[s] EXCEPT !.state = "open"] ELSE input[t]
  BY <1>2, <1>3
<1>5. /\ [input[s] EXCEPT !.state = "open"] \in InputRec
      /\ [input[s] EXCEPT !.state = "open"].state = "open"
      /\ [input[s] EXCEPT !.state = "open"].finished = input[s].finished
      /\ [input[s] EXCEPT !.state = "open"].reset = input[s].reset
  BY <1>2, Zenon DEF InputRec
<1>6. /\ input' \in [Sids -> InputRec] /\ input'[s].state = "open"
      /\ \A t \in Sids : /\ input[t].state = "open" => input'[t].state = "open"
                         /\ t # s => input'[t].state = input[t].state
                         /\ input[t].finished => input'[t].finished
                         /\ input[t].reset => input'[t].reset
  BY <1>2, <1>3, <1>4, <1>5
<1>7. \A t \in Sids : Occurrences(t) \in Nat /\ Occurrences(t)' = Occurrences(t)
  BY <1>1, <1>3, OccursFinite, Zenon DEF Occurrences
<1>8. freed[s] = 0 /\ Occurrences(s) = 0 /\ Held(s) = 0
  <2>1. freed[s] \in Nat /\ Occurrences(s) \in Nat /\ Held(s) \in {0, 1}
    BY <1>2, <1>7 DEF Held
  <2>2. input[s].state # "open"
    BY <1>3
  <2>3. freed[s] + Occurrences(s) + Held(s) = 0
    BY <1>1, <2>2 DEF OwnInv
  <2> QED BY <2>1, <2>3
<1>9. ~st[s].qstream /\ ~st[s].tracked /\ ~st[s].write_blocked
  BY <1>1, <1>3, <1>8 DEF BlockInv, Held
<1>10. pending_free' \in Seq(Sids) /\ snapshot' \in Seq(Sids) /\ completed' \in Seq(Bidi)
  BY <1>1, <1>3 DEF Types
<1>11. /\ tasks' \in [Sids -> [TaskStates -> Nat]] /\ active_tasks' \in Int
       /\ blocked_streams' \in Int /\ offset' \in Nat /\ stream_drain_cursor' \in Nat
  BY <1>1, <1>3, Zenon DEF Types
<1>12. TaskInv'
  BY <1>3, TaskKept DEF Inv
<1>13. LockHeld' = LockHeld
  BY <1>3 DEF LockHeld
<1>14. CASE st' = [st EXCEPT ![s].tracked = TRUE, ![s].qstream = TRUE] /\ UNCHANGED freed
  <2>1. \A t \in Sids :
          st'[t] = IF t = s THEN [st[s] EXCEPT !.tracked = TRUE, !.qstream = TRUE] ELSE st[t]
    BY <1>2, <1>14
  <2> DEFINE q == [st[s] EXCEPT !.tracked = TRUE, !.qstream = TRUE]
  <2>2. /\ q \in StreamRec /\ q.tracked = TRUE /\ q.qstream = TRUE
        /\ q.dispatched = st[s].dispatched /\ q.worker_done = st[s].worker_done
        /\ q.reclaimed = st[s].reclaimed /\ q.write_blocked = st[s].write_blocked
        /\ q.headers_complete = st[s].headers_complete /\ q.user_data = st[s].user_data
        /\ q.body_complete = st[s].body_complete /\ q.done = st[s].done
    BY <1>2, Zenon DEF StreamRec
  <2> HIDE DEF q
  <2>3. \A t \in Sids : st'[t] = IF t = s THEN q ELSE st[t]
    BY <2>1 DEF q
  <2>4. st' \in [Sids -> StreamRec]
    BY <1>2, <1>14, <2>2, <2>3
  <2>5. Types'
    BY <1>2, <1>6, <1>10, <1>11, <1>14, <2>4, Zenon DEF Types
  <2>6. WorkInv'
    BY <2>2, <2>3, <1>3, WorkKept DEF Inv
  <2>7. OwnInv'
    <3>1. \A t \in Sids : t # s => Held(t)' = Held(t)
      BY <2>3 DEF Held
    <3>2. Held(s)' = 1
      BY <2>2, <2>3 DEF Held
    <3> QED BY <1>1, <1>3, <1>6, <1>7, <1>8, <1>13, <1>14, <3>1, <3>2 DEF OwnInv
  <2>8. BlockInv'
    <3>1. Blocked' = Blocked
      BY <2>2, <2>3 DEF Blocked
    <3> QED BY <1>1, <1>3, <1>6, <1>9, <2>2, <2>3, <3>1 DEF BlockInv
  <2>9. WholeInv'
    BY <1>1, <1>3, <1>6, <2>2, <2>3, WholeKept DEF Inv
  <2> QED BY <1>12, <2>5, <2>6, <2>7, <2>8, <2>9 DEF Inv
<1>15. CASE freed' = [freed EXCEPT ![s] = @ + 1] /\ UNCHANGED st
  <2>1. freed' \in [Sids -> Nat] /\ freed'[s] = 1 /\ \A t \in Sids : t # s => freed'[t] = freed[t]
    BY <1>2, <1>8, <1>15
  <2>2. st' \in [Sids -> StreamRec]
    BY <1>2, <1>15
  <2>3. Types'
    BY <1>6, <1>10, <1>11, <2>1, <2>2, Zenon DEF Types
  <2>4. WorkInv'
    BY <1>3, <1>15, WorkKept DEF Inv
  <2>5. OwnInv'
    <3>1. \A t \in Sids : Held(t)' = Held(t)
      BY <1>15 DEF Held
    <3> QED BY <1>1, <1>3, <1>6, <1>7, <1>8, <1>13, <2>1, <3>1 DEF OwnInv
  <2>6. BlockInv'
    BY <1>3, <1>6, <1>15, BlockKept DEF Inv
  <2>7. WholeInv'
    BY <1>1, <1>3, <1>6, <1>15, WholeKept DEF Inv
  <2> QED BY <1>12, <2>3, <2>4, <2>5, <2>6, <2>7 DEF Inv
<1> QED BY <1>14, <1>15, Zenon DEF AcceptStream
=============================================================================
