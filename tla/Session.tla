------------------------------ MODULE Session ------------------------------
(***************************************************************************)
(* One HTTP/3 connection as the event thread services it, pass after pass, *)
(* with the request workers it dispatches: service_session_pass (h3_io.c), *)
(* the stream table, drain, reclaim and flush of h3_stream.c, the stream   *)
(* callbacks of h3_callbacks.c, h3_process_request and stream_worker       *)
(* (h3_request.c), h3_session_destroy and the way h3_event_thread closes   *)
(* an aborted session.                                                     *)
(*                                                                         *)
(* What a response's queue does is module ResponseQueue; here a response   *)
(* is "pending" from its last byte being queued until nghttp3 has nothing  *)
(* of it left to write.  A read takes one piece of a stream's input.  What *)
(* nghttp3 makes of the input is its choice: header blocks that end, reset *)
(* and close callbacks, errors; callbacks reach only the stream being read *)
(* (H3QpackBlockedStreams is 0, its default).  The event thread holds      *)
(* session->lock while LockHeld; a worker's critical section is one step.  *)
(***************************************************************************)
EXTENDS Integers, FiniteSets, Sequences

CONSTANTS
  Sids,         \* ids of the client's streams
  Bidi,         \* those that carry requests (H3_SID_IS_BIDI)
  ReadBudget,   \* H3_STREAM_DRAIN_READ_BUDGET
  RecvCap,      \* pieces of input a stream's receive buffer holds
  MaxErrors,    \* H3MaxStreamErrors
  IdleTimeout,  \* H3IdleTimeout, in ticks
  Grace,        \* H3_GOAWAY_GRACE_SECS, in ticks
  MaxTasks,     \* bound on active_tasks
  MayStop       \* whether the child is drained or stopped

ASSUME SessionAssumption ==
  /\ Sids \subseteq Nat /\ IsFiniteSet(Sids) /\ Bidi \subseteq Sids
  /\ ReadBudget \in Nat \ {0} /\ RecvCap \in Nat \ {0}
  /\ MaxErrors \in Nat /\ IdleTimeout \in Nat /\ Grace \in Nat
  /\ MaxTasks \in Nat \ {0} /\ MayStop \in BOOLEAN

VARIABLES
  thread_running, draining,   \* of the listener, set by the child's main thread
  conn_closed,                \* h3q_conn_is_closed
  aborted, ngh3_dead, goaway_sent, grace_left, stream_errors, active_tasks,
  blocked_streams, pending_free, stream_drain_cursor,
  idle_age,      \* now - last_activity
  st,            \* session->streams and the streams that left it
  input,         \* the receive side of each QUIC stream
  freed,         \* how often each QUIC stream object was freed
  pc,            \* where the event thread is in its pass
  ret,           \* the flush in progress: "goaway", "shutdown", "drain", "service"
  snapshot, offset, reads_remaining, completed, had_activity,
  tasks          \* tasks[s][p]: how many tasks of stream s are at p

ioVars    == <<thread_running, draining, conn_closed>>
abortVars == <<aborted, goaway_sent, grace_left>>
drainVars == <<snapshot, offset, reads_remaining, completed, stream_drain_cursor>>
vars == <<ioVars, abortVars, drainVars, ngh3_dead, stream_errors, active_tasks,
          blocked_streams, pending_free, idle_age, st, input, freed, pc, ret,
          had_activity, tasks>>

NoDeadline == -1

TaskStates == {"queued", "run", "replied", "failed", "leaving"}

\* where a task still uses its h3_stream
UsesStream == {"queued", "run", "replied"}

PassStates == {"top", "goaway", "accept", "drain", "unblock", "flush", "check",
               "dispatch", "idle", "close", "gone"}

LockHeld == pc \in {"drain", "unblock", "flush"}

StreamRec ==
  [tracked : BOOLEAN, reclaimed : BOOLEAN, qstream : BOOLEAN, open : BOOLEAN,
   user_data : BOOLEAN, headers_complete : BOOLEAN, body_complete : BOOLEAN,
   done : BOOLEAN, dispatched : BOOLEAN, worker_done : BOOLEAN, write_blocked : BOOLEAN,
   response_cancelled : BOOLEAN, response : {"none", "pending", "written"}]

InputRec == [state : {"idle", "incoming", "open"}, data : 0..RecvCap, fin : BOOLEAN,
             finished : BOOLEAN, reset : BOOLEAN]

TypeOK ==
  /\ thread_running \in BOOLEAN /\ draining \in BOOLEAN /\ conn_closed \in BOOLEAN
  /\ aborted \in BOOLEAN /\ ngh3_dead \in BOOLEAN /\ goaway_sent \in BOOLEAN
  /\ grace_left \in {NoDeadline} \cup 0..Grace
  /\ stream_errors \in 0..(MaxErrors + 1)
  /\ active_tasks \in 0..MaxTasks
  /\ blocked_streams \in 0..Cardinality(Sids)
  /\ pending_free \in Seq(Sids)
  /\ stream_drain_cursor \in Nat
  /\ idle_age \in 0..IdleTimeout
  /\ st \in [Sids -> StreamRec] /\ input \in [Sids -> InputRec]
  /\ freed \in [Sids -> 0..1]
  /\ pc \in PassStates /\ ret \in {"goaway", "shutdown", "drain", "service"}
  /\ snapshot \in Seq(Sids) /\ offset \in 0..Len(snapshot)
  /\ reads_remaining \in 0..ReadBudget /\ completed \in Seq(Bidi)
  /\ had_activity \in BOOLEAN
  /\ tasks \in [Sids -> [TaskStates -> 0..MaxTasks]]

\* h3_session_create; the control streams of the server are not in the model
Init ==
  /\ thread_running = TRUE /\ draining = FALSE /\ conn_closed = FALSE
  /\ aborted = FALSE /\ ngh3_dead = FALSE /\ goaway_sent = FALSE
  /\ grace_left = NoDeadline /\ stream_errors = 0 /\ active_tasks = 0
  /\ blocked_streams = 0 /\ pending_free = <<>> /\ stream_drain_cursor = 0
  /\ idle_age = 0
  /\ st = [s \in Sids |->
       [tracked |-> FALSE, reclaimed |-> FALSE, qstream |-> FALSE, open |-> FALSE,
        user_data |-> FALSE, headers_complete |-> FALSE, body_complete |-> FALSE,
        done |-> FALSE, dispatched |-> FALSE, worker_done |-> FALSE, write_blocked |-> FALSE,
        response_cancelled |-> FALSE, response |-> "none"]]
  /\ input = [s \in Sids |-> [state |-> "idle", data |-> 0, fin |-> FALSE,
                              finished |-> FALSE, reset |-> FALSE]]
  /\ freed = [s \in Sids |-> 0]
  /\ pc = "top" /\ ret = "drain" /\ snapshot = <<>> /\ offset = 0
  /\ reads_remaining = 0 /\ completed = <<>> /\ had_activity = FALSE
  /\ tasks = [s \in Sids |-> [p \in TaskStates |-> 0]]
-----------------------------------------------------------------------------
(* The peer, the clock and the child's main thread.                        *)

\* Input arrives when OpenSSL processes datagrams: in h3q_engine_pump, or
\* while the event thread calls into the connection.  What arrives before the
\* stream is accepted is not read before it is, so it may as well come later.
Arrival(s, rec) ==
  /\ pc \in {"top", "drain"}
  /\ input' = [input EXCEPT ![s] = rec]
  /\ UNCHANGED <<ioVars, abortVars, drainVars, ngh3_dead, stream_errors, active_tasks,
                 blocked_streams, pending_free, idle_age, st, freed, pc, ret,
                 had_activity, tasks>>

Peer(s) ==
  LET in == input[s]
  IN
  \/ in.state = "idle" /\ Arrival(s, [in EXCEPT !.state = "incoming"])
  \/ /\ in.state = "open" /\ ~in.fin /\ ~in.reset /\ in.data < RecvCap
     /\ Arrival(s, [in EXCEPT !.data = @ + 1])
  \/ /\ in.state = "open" /\ ~in.fin /\ ~in.reset
     /\ Arrival(s, [in EXCEPT !.fin = TRUE])
  \/ /\ in.state = "open" /\ ~in.finished /\ ~in.reset
     /\ Arrival(s, [in EXCEPT !.reset = TRUE])

\* the peer closes the connection, or its idle timeout or an error does
ConnClose ==
  /\ pc \in {"top", "drain"} /\ ~conn_closed
  /\ conn_closed' = TRUE
  /\ UNCHANGED <<thread_running, draining, abortVars, drainVars, ngh3_dead,
                 stream_errors, active_tasks, blocked_streams, pending_free, idle_age,
                 st, input, freed, pc, ret, had_activity, tasks>>

Tick ==
  /\ idle_age < IdleTimeout \/ grace_left > 0
  /\ idle_age' = IF idle_age < IdleTimeout THEN idle_age + 1 ELSE idle_age
  /\ grace_left' = IF grace_left > 0 THEN grace_left - 1 ELSE grace_left
  /\ UNCHANGED <<ioVars, aborted, goaway_sent, drainVars, ngh3_dead, stream_errors,
                 active_tasks, blocked_streams, pending_free, st, input, freed, pc,
                 ret, had_activity, tasks>>

\* h3_io_listen_drain, and teardown clearing thread_running
Listener ==
  /\ MayStop
  /\ \/ ~draining /\ draining' = TRUE /\ UNCHANGED thread_running
     \/ thread_running /\ thread_running' = FALSE /\ UNCHANGED draining
  /\ UNCHANGED <<conn_closed, abortVars, drainVars, ngh3_dead, stream_errors, active_tasks,
                 blocked_streams, pending_free, idle_age, st, input, freed, pc, ret,
                 had_activity, tasks>>
-----------------------------------------------------------------------------
(* The event thread: service_session_pass up to the drain.                 *)

\* entry of the pass
BeginPass ==
  /\ pc = "top"
  /\ \/ aborted /\ pc' = "close" /\ UNCHANGED ret
     \/ ~aborted /\ (draining \/ ~thread_running) /\ pc' = "unblock" /\ ret' = "goaway"
     \/ ~aborted /\ ~draining /\ thread_running /\ pc' = "check" /\ UNCHANGED ret
  /\ UNCHANGED <<ioVars, abortVars, drainVars, ngh3_dead, stream_errors, active_tasks,
                 blocked_streams, pending_free, idle_age, st, input, freed,
                 had_activity, tasks>>

GraceLeft_Rearmed == IF ~thread_running THEN Grace ELSE grace_left

\* goaway_deadline is set once, by the first pass that sees the thread stopped
GraceLeft == IF ~thread_running /\ grace_left = NoDeadline THEN Grace ELSE grace_left

\* after the flush that carries the GOAWAY.  nghttp3_conn_is_drained2 is true
\* only once no request stream is left.
Goaway ==
  /\ pc = "goaway"
  /\ goaway_sent' = TRUE
  /\ grace_left' = GraceLeft
  /\ \/ /\ grace_left' = 0 \/ \A s \in Bidi : ~st[s].open
        /\ pc' = "unblock" /\ ret' = "shutdown"
     \/ grace_left' # 0 /\ pc' = "check" /\ UNCHANGED ret
  /\ UNCHANGED <<ioVars, aborted, drainVars, ngh3_dead, stream_errors, active_tasks,
                 blocked_streams, pending_free, idle_age, st, input, freed,
                 had_activity, tasks>>

CheckConnection ==
  /\ pc = "check"
  /\ aborted' = conn_closed
  /\ pc' = IF conn_closed THEN "close" ELSE "accept"
  /\ had_activity' = FALSE
  /\ UNCHANGED <<ioVars, goaway_sent, grace_left, drainVars, ngh3_dead, stream_errors,
                 active_tasks, blocked_streams, pending_free, idle_age, st, input,
                 freed, ret, tasks>>

\* the scratch pool of the pass cannot be created
ScratchFails ==
  /\ pc = "check" /\ ~conn_closed
  /\ pc' = "close"
  /\ UNCHANGED <<ioVars, abortVars, drainVars, ngh3_dead, stream_errors, active_tasks,
                 blocked_streams, pending_free, idle_age, st, input, freed, ret,
                 had_activity, tasks>>

\* one turn of the accept loop; track_stream may fail
AcceptStream(s) ==
  /\ pc = "accept" /\ input[s].state = "incoming"
  /\ input' = [input EXCEPT ![s].state = "open"]
  /\ had_activity' = TRUE
  /\ \/ /\ st' = [st EXCEPT ![s].tracked = TRUE, ![s].qstream = TRUE]
        /\ UNCHANGED freed
     \/ freed' = [freed EXCEPT ![s] = @ + 1] /\ UNCHANGED st
  /\ UNCHANGED <<ioVars, abortVars, drainVars, ngh3_dead, stream_errors, active_tasks,
                 blocked_streams, pending_free, idle_age, pc, ret, tasks>>
-----------------------------------------------------------------------------
(* drain_ready_streams.                                                    *)

Tracked == {s \in Sids : st[s].tracked}

\* the snapshot of the table lists it once; apr_hash has a fixed order, here the ids'
Lists(q) == \A i, j \in DOMAIN q : i < j => q[i] < q[j]

BeginDrain ==
  /\ pc = "accept" /\ \A s \in Sids : input[s].state # "incoming"
  /\ pc' = "drain"
  /\ \E q \in [1..Cardinality(Tracked) -> Tracked] : Lists(q) /\ snapshot' = q
  /\ offset' = 0 /\ reads_remaining' = ReadBudget /\ completed' = <<>>
  /\ UNCHANGED <<ioVars, abortVars, stream_drain_cursor, ngh3_dead, stream_errors,
                 active_tasks, blocked_streams, pending_free, idle_age, st, input,
                 freed, ret, had_activity, tasks>>

\* the stream at (start + offset) % nelts
Index   == (stream_drain_cursor + offset) % Len(snapshot)
Current == snapshot[Index + 1]

Visiting == pc = "drain" /\ offset < Len(snapshot) /\ ~ngh3_dead

\* what drain_one_stream returns for stream s left as r
Ready_NoDone(s, r) ==
  s \in Bidi /\ r.headers_complete /\ r.body_complete /\ ~r.dispatched

Ready(s, r) ==
  /\ s \in Bidi /\ ~r.done
  /\ r.headers_complete /\ r.body_complete /\ ~r.dispatched

CursorAfter_Same == stream_drain_cursor

\* budget spent: resume from the next stream on the following pass
CursorAfter == (Index + 1) % Len(snapshot)

\* What nghttp3 and the callbacks it runs did to a stream: the stream after
\* it, whether a stream error was counted and whether nghttp3 is dead.
Outcome(r, err, dead) == [stream |-> r, err |-> err, dead |-> dead]

\* nghttp3_conn_close_stream: nghttp3 forgets the stream; on_stream_close
\* reaches the h3_stream only through its user data
Closed(r) ==
  IF r.user_data
  THEN [r EXCEPT !.open = FALSE, !.response_cancelled = TRUE, !.done = TRUE, !.qstream = FALSE]
  ELSE [r EXCEPT !.open = FALSE]

TooManyErrors == stream_errors + 1 > MaxErrors

\* reject_malformed_stream
Rejected(r) ==
  Outcome([Closed(r) EXCEPT !.done = TRUE, !.body_complete = TRUE], TRUE, TooManyErrors)

\* feed_stream_fin
FinOutcomes(r) ==
  {Rejected(r)} \cup
  {Outcome([r EXCEPT !.body_complete = TRUE, !.open = TRUE], FALSE, dead) : dead \in BOOLEAN}

\* a header block may begin (on_begin_headers) and end (on_end_headers)
Parsed(s, r) ==
  {[r EXCEPT !.open = TRUE, !.user_data = u, !.headers_complete = h] :
     u \in {r.user_data, s \in Bidi}, h \in {r.headers_complete, s \in Bidi}}

\* nghttp3_conn_read_stream with data, for a stream whose headers it parsed so
\* far as q says: plain progress, a malformed message, a fatal error, and
\* on_stop_sending and on_reset_stream
ReadOutcomes(q) ==
  {Outcome(q, FALSE, FALSE), Rejected(q), Outcome([q EXCEPT !.done = TRUE], FALSE, TRUE)} \cup
  (IF ~q.user_data THEN {} ELSE
   {Outcome([q EXCEPT !.response_cancelled = TRUE, !.done = TRUE, !.body_complete = TRUE,
                      !.qstream = FALSE], FALSE, FALSE),
    Outcome([q EXCEPT !.response_cancelled = TRUE, !.done = TRUE], FALSE, FALSE)})

QueueFree_Twice(s, r) ==
  IF st[s].qstream /\ r.done THEN Append(pending_free, s) ELSE pending_free

\* h3_session_queue_free, for a stream whose qstream a callback cleared
QueueFree(s, r) ==
  IF st[s].qstream /\ ~r.qstream THEN Append(pending_free, s) ELSE pending_free

Apply(s, o) ==
  /\ st' = [st EXCEPT ![s] = o.stream]
  /\ pending_free' = QueueFree(s, o.stream)
  /\ stream_errors' = stream_errors + (IF o.err THEN 1 ELSE 0)
  /\ ngh3_dead' = o.dead

\* drain_one_stream returned and left stream s as r
NextVisit(s, r) ==
  /\ completed' = IF Ready(s, r) /\ ~ngh3_dead' THEN Append(completed, s) ELSE completed
  /\ IF reads_remaining' = 0
       THEN stream_drain_cursor' = CursorAfter /\ offset' = Len(snapshot)
       ELSE offset' = offset + 1 /\ UNCHANGED stream_drain_cursor

SkipStream ==
  /\ Visiting /\ (st[Current].done \/ ~st[Current].qstream)
  /\ offset' = offset + 1
  /\ UNCHANGED <<ioVars, abortVars, snapshot, reads_remaining, completed,
                 stream_drain_cursor, ngh3_dead, stream_errors, active_tasks,
                 blocked_streams, pending_free, idle_age, st, input, freed, pc, ret,
                 had_activity, tasks>>

\* the drain_one_stream steps leave this alone
DrainFrame ==
  UNCHANGED <<ioVars, abortVars, snapshot, active_tasks, blocked_streams, idle_age,
              freed, pc, ret, tasks>>

\* h3q_stream_is_read_finished: a reset or a lost connection finishes both sides
ReadFinished(s)  == input[s].finished \/ input[s].reset \/ conn_closed
WriteFinished(s) == input[s].reset \/ conn_closed \/ st[s].response = "written"

\* the receive side was finished before this visit: feed the FIN once, and
\* close the stream when its send side is finished too
DrainFinished ==
  LET s == Current
      r == st[s]
      closing(o) == IF o.stream.qstream /\ WriteFinished(s)
                    THEN [o EXCEPT !.stream = Closed(@)] ELSE o
  IN
  /\ Visiting /\ ~r.done /\ r.qstream /\ ReadFinished(s)
  /\ UNCHANGED <<input, reads_remaining, had_activity>>
  /\ \E o \in IF r.body_complete THEN {Outcome(r, FALSE, FALSE)} ELSE FinOutcomes(r) :
       Apply(s, closing(o)) /\ NextVisit(s, closing(o).stream)
  /\ DrainFrame

\* one turn of the read loop that reads a piece; done, an error or the end
\* of the budget ends the visit
DrainRead ==
  LET s == Current
      r == st[s]
  IN
  /\ Visiting /\ ~r.done /\ r.qstream /\ ~ReadFinished(s)
  /\ input[s].data > 0
  /\ input' = [input EXCEPT ![s].data = @ - 1]
  /\ reads_remaining' = reads_remaining - 1
  /\ had_activity' = TRUE
  /\ \E q \in {q \in Parsed(s, r) : q.headers_complete => q.user_data} :
     \E o \in ReadOutcomes(q) :
       /\ Apply(s, o)
       /\ IF o.stream.done \/ reads_remaining' = 0 THEN NextVisit(s, o.stream)
          ELSE UNCHANGED <<offset, completed, stream_drain_cursor>>
  /\ DrainFrame

\* the read loop finds the FIN, or nothing to read
DrainEnd ==
  LET s == Current
      r == st[s]
  IN
  /\ Visiting /\ ~r.done /\ r.qstream /\ ~ReadFinished(s)
  /\ input[s].data = 0
  /\ UNCHANGED <<reads_remaining, had_activity>>
  /\ IF input[s].fin
       THEN /\ input' = [input EXCEPT ![s].finished = TRUE]
            /\ \E o \in FinOutcomes(r) : Apply(s, o) /\ NextVisit(s, o.stream)
       ELSE /\ NextVisit(s, r)
            /\ UNCHANGED <<input, st, pending_free, stream_errors, ngh3_dead>>
  /\ DrainFrame

Reclaimable_NoWorker(s) ==
  s \in Bidi /\ st[s].tracked /\ st[s].done /\ ~st[s].qstream /\ st[s].dispatched

\* closed, QUIC stream freed, worker returned
Reclaimable(s) ==
  /\ s \in Bidi /\ st[s].tracked /\ st[s].done /\ ~st[s].qstream
  /\ st[s].dispatched /\ st[s].worker_done

BlockedAfterReclaim_Kept(gone) == blocked_streams

BlockedAfterReclaim(gone) ==
  blocked_streams - Cardinality({s \in gone : st[s].write_blocked})

\* the reclaim loop over the snapshot, then flush_nghttp3 starts
EndDrain ==
  LET gone == {s \in Tracked : Reclaimable(s)}
  IN
  /\ pc = "drain" /\ (offset = Len(snapshot) \/ ngh3_dead)
  /\ pc' = "unblock" /\ ret' = "drain"
  /\ st' = [s \in Sids |-> IF s \in gone THEN
              [st[s] EXCEPT !.tracked = FALSE, !.reclaimed = TRUE, !.write_blocked = FALSE]
              ELSE st[s]]
  /\ blocked_streams' = BlockedAfterReclaim(gone)
  /\ snapshot' = <<>> /\ offset' = 0 /\ reads_remaining' = 0
  /\ UNCHANGED <<ioVars, abortVars, completed, stream_drain_cursor, ngh3_dead,
                 stream_errors, active_tasks, pending_free, idle_age, input, freed,
                 had_activity, tasks>>
-----------------------------------------------------------------------------
(* flush_nghttp3.                                                          *)

\* unblock_writable_streams: a stream stays blocked while it has a QUIC
\* stream whose send buffer is full
Unblock ==
  /\ pc = "unblock" /\ ~ngh3_dead
  /\ pc' = "flush"
  /\ \E full \in SUBSET {s \in Tracked : st[s].qstream} :
       LET freeable == {s \in Tracked : st[s].write_blocked /\ s \notin full}
       IN IF blocked_streams <= 0 THEN UNCHANGED <<st, blocked_streams>>
          ELSE /\ st' = [s \in Sids |-> IF s \in freeable
                                        THEN [st[s] EXCEPT !.write_blocked = FALSE] ELSE st[s]]
               /\ blocked_streams' = blocked_streams - Cardinality(freeable)
  /\ UNCHANGED <<ioVars, abortVars, drainVars, ngh3_dead, stream_errors, active_tasks,
                 pending_free, idle_age, input, freed, ret, had_activity, tasks>>

Sendable(s) == st[s].open /\ st[s].response = "pending" /\ ~st[s].write_blocked

\* nghttp3 writes what it has of stream s: the QUIC stream takes all of it,
\* or some and is full, or is gone or broken and the bytes are swallowed
FlushStream(s) ==
  /\ pc = "flush" /\ Sendable(s)
  /\ \/ /\ st' = [st EXCEPT ![s].response = "written"]
        /\ UNCHANGED blocked_streams
        /\ idle_age' = IF st[s].qstream /\ st[s].tracked THEN 0 ELSE idle_age
     \/ /\ st[s].qstream /\ st[s].tracked
        /\ st' = [st EXCEPT ![s].write_blocked = TRUE]
        /\ blocked_streams' = blocked_streams + 1
        /\ idle_age' \in {0, idle_age}
  /\ UNCHANGED <<ioVars, abortVars, drainVars, ngh3_dead, stream_errors, active_tasks,
                 pending_free, input, freed, pc, ret, had_activity, tasks>>

\* the pass goes on after the flush; abandon_stalled_responses may cancel
\* responses whose worker still produces them
AfterFlush ==
  /\ pc' = CASE ret = "goaway" -> "goaway" [] ret = "shutdown" -> "close"
             [] ret = "drain" /\ ngh3_dead' -> "close"
             [] ret = "drain" /\ ~ngh3_dead' -> "dispatch"
             [] ret = "service" -> "idle"
  /\ aborted' = (aborted \/ ret = "shutdown" \/ (ret = "drain" /\ ngh3_dead'))
  /\ \E stalled \in SUBSET {s \in Tracked : ret = "service" /\ tasks[s]["run"] > 0} :
       st' = [s \in Sids |-> IF s \in stalled
                             THEN [st[s] EXCEPT !.response_cancelled = TRUE] ELSE st[s]]
  /\ UNCHANGED <<ioVars, goaway_sent, grace_left, drainVars, stream_errors,
                 active_tasks, blocked_streams, idle_age, input, ret, had_activity, tasks>>

Occurrences(s) == Cardinality({i \in 1..Len(pending_free) : pending_free[i] = s})

\* the loop ends, with or without an error, and the queued QUIC streams are freed
EndFlush ==
  /\ pc = "flush"
  /\ ngh3_dead' \in BOOLEAN
  /\ ngh3_dead' \/ \A s \in Sids : ~Sendable(s)
  /\ freed' = [s \in Sids |-> freed[s] + Occurrences(s)]
  /\ pending_free' = <<>>
  /\ AfterFlush

\* flush_nghttp3 returns at once when nghttp3 is dead
NoFlush ==
  /\ pc = "unblock" /\ ngh3_dead
  /\ UNCHANGED <<ngh3_dead, freed, pending_free>> /\ AfterFlush
-----------------------------------------------------------------------------
(* Dispatch, the idle check and the end of the session.                    *)

Reserved_Forgotten(s) == st

Reserved(s) == [st EXCEPT ![s].dispatched = TRUE]

\* h3_process_request: reserve the stream, count and push the task; on a
\* failure of the pool or of the push everything is taken back
Dispatch ==
  LET s == Head(completed)
  IN
  /\ pc = "dispatch" /\ completed # <<>>
  /\ completed' = Tail(completed)
  /\ had_activity' = TRUE
  /\ \/ /\ ~st[s].dispatched /\ active_tasks < MaxTasks
        /\ st' = Reserved(s)
        /\ active_tasks' = active_tasks + 1
        /\ tasks' = [tasks EXCEPT ![s]["queued"] = @ + 1]
     \/ UNCHANGED <<st, active_tasks, tasks>>
  /\ UNCHANGED <<ioVars, abortVars, snapshot, offset, reads_remaining,
                 stream_drain_cursor, ngh3_dead, stream_errors, blocked_streams,
                 pending_free, idle_age, input, freed, pc, ret>>

EndDispatch ==
  /\ pc = "dispatch" /\ completed = <<>>
  /\ pc' = "unblock" /\ ret' = "service"
  /\ UNCHANGED <<ioVars, abortVars, drainVars, ngh3_dead, stream_errors, active_tasks,
                 blocked_streams, pending_free, idle_age, st, input, freed,
                 had_activity, tasks>>

Idle == thread_running /\ active_tasks = 0 /\ idle_age >= IdleTimeout

IdleCheck ==
  /\ pc = "idle"
  /\ pc' = "close"
  /\ idle_age' = IF had_activity THEN 0 ELSE idle_age
  /\ aborted' = (aborted \/ (~had_activity /\ Idle))
  /\ UNCHANGED <<ioVars, goaway_sent, grace_left, drainVars, ngh3_dead, stream_errors,
                 active_tasks, blocked_streams, pending_free, st, input, freed, ret,
                 had_activity, tasks>>

\* h3_event_thread after the pass: h3q_conn_shutdown is done and no task is
\* active, so the session is destroyed
Destroy ==
  /\ pc = "close" /\ aborted /\ active_tasks = 0
  /\ pc' = "gone"
  /\ freed' = [s \in Sids |-> freed[s] + Occurrences(s)]
  /\ pending_free' = <<>>
  /\ st' = [s \in Sids |-> IF s \in Tracked THEN
              [st[s] EXCEPT !.tracked = FALSE, !.response_cancelled = TRUE, !.open = FALSE]
              ELSE [st[s] EXCEPT !.open = FALSE]]
  /\ UNCHANGED <<ioVars, abortVars, drainVars, ngh3_dead, stream_errors, active_tasks,
                 blocked_streams, idle_age, input, ret, had_activity, tasks>>

\* not aborted, or not shut down or not idle yet: to the next pass
EndPass ==
  /\ pc = "close"
  /\ pc' = "top" /\ completed' = <<>> /\ had_activity' = FALSE /\ ret' = "drain"
  /\ UNCHANGED <<ioVars, abortVars, snapshot, offset, reads_remaining,
                 stream_drain_cursor, ngh3_dead, stream_errors, active_tasks,
                 blocked_streams, pending_free, idle_age, st, input, freed, tasks>>
-----------------------------------------------------------------------------
(* stream_worker.                                                          *)

Move(s, p, q) == [tasks EXCEPT ![s][p] = @ - 1, ![s][q] = @ + 1]

\* the worker leaves what TaskStep does not name alone
TaskFrame ==
  UNCHANGED <<ioVars, abortVars, drainVars, ngh3_dead, stream_errors, blocked_streams,
              pending_free, idle_age, input, freed, pc, ret, had_activity>>

\* a pool thread takes the task; ap_create_request succeeds
TaskRun(s) ==
  /\ tasks[s]["queued"] > 0
  /\ tasks' = Move(s, "queued", "run")
  /\ UNCHANGED <<st, active_tasks>> /\ TaskFrame

\* ap_create_request or a pool failed: the stream may be dispatched again
TaskFail(s) ==
  /\ tasks[s]["queued"] > 0 /\ ~LockHeld
  /\ st' = [st EXCEPT ![s].dispatched = FALSE]
  /\ tasks' = Move(s, "queued", "failed")
  /\ UNCHANGED active_tasks /\ TaskFrame

\* the response is submitted, queued and completed, or no longer wanted, or
\* nghttp3 refuses it
TaskReply(s) ==
  /\ tasks[s]["run"] > 0 /\ ~LockHeld
  /\ IF st[s].response_cancelled \/ aborted \/ ngh3_dead THEN UNCHANGED st
     ELSE \/ st' = [st EXCEPT ![s].response = "pending"]
          \/ st' = [st EXCEPT ![s].response_cancelled = TRUE]
  /\ tasks' = Move(s, "run", "replied")
  /\ UNCHANGED active_tasks /\ TaskFrame

TaskDone_NoLeave(s) ==
  /\ tasks[s]["replied"] > 0 /\ ~LockHeld
  /\ st' = [st EXCEPT ![s].worker_done = TRUE]
  /\ tasks' = [tasks EXCEPT ![s]["replied"] = @ - 1]
  /\ UNCHANGED active_tasks /\ TaskFrame

\* worker_done, under the lock
TaskDone(s) ==
  /\ tasks[s]["replied"] > 0 /\ ~LockHeld
  /\ st' = [st EXCEPT ![s].worker_done = TRUE]
  /\ tasks' = Move(s, "replied", "leaving")
  /\ UNCHANGED active_tasks /\ TaskFrame

\* the atomic decrement, the task's last access to the session
TaskLeave(s) ==
  /\ \E p \in {"failed", "leaving"} :
       tasks[s][p] > 0 /\ tasks' = [tasks EXCEPT ![s][p] = @ - 1]
  /\ active_tasks' = active_tasks - 1
  /\ UNCHANGED st /\ TaskFrame

EventThread ==
  \/ BeginPass \/ Goaway \/ CheckConnection \/ ScratchFails \/ (\E s \in Sids : AcceptStream(s))
  \/ BeginDrain \/ SkipStream \/ DrainFinished \/ DrainRead \/ DrainEnd \/ EndDrain
  \/ Unblock \/ (\E s \in Sids : FlushStream(s)) \/ EndFlush \/ NoFlush
  \/ Dispatch \/ EndDispatch \/ IdleCheck \/ Destroy \/ EndPass

Worker(s) == TaskRun(s) \/ TaskFail(s) \/ TaskReply(s) \/ TaskDone(s) \/ TaskLeave(s)

Next ==
  \/ EventThread \/ ConnClose \/ Tick \/ Listener
  \/ \E s \in Sids : Worker(s) \/ Peer(s)

Spec == Init /\ [][Next]_vars

(***************************************************************************)
(* Fairness.  The event thread never blocks for longer than its one-second *)
(* poll, so its passes go on.  SF of Destroy: h3q_conn_shutdown, tried in  *)
(* every pass, ends at last.  SF of CheckConnection: the scratch pool does *)
(* not fail in every pass.  A worker competes for session->lock, which     *)
(* every pass releases, and its handler ends: httpd's own timeouts, and    *)
(* ResponseQueue!ProducerReleased for the response, bound it.  ThreadSpec  *)
(* is what the event thread alone does.                                    *)
(***************************************************************************)
ThreadSpec == Spec /\ WF_vars(EventThread) /\ SF_vars(CheckConnection)

FairSpec ==
  /\ ThreadSpec /\ WF_vars(Tick) /\ SF_vars(Destroy)
  /\ \A s \in Sids : SF_vars(Worker(s))
-----------------------------------------------------------------------------
(* Properties.                                                             *)

InUse(s) == tasks[s]["queued"] + tasks[s]["run"] + tasks[s]["replied"]

\* drain_ready_streams destroys a stream's pool, and h3_session_destroy the
\* session, only when no worker can reach them any more.
NoUseAfterFree ==
  /\ \A s \in Sids : st[s].reclaimed => InUse(s) = 0
  /\ pc = "gone" => \A s \in Sids : \A p \in TaskStates : tasks[s][p] = 0

\* A request is handled by one worker at a time, also when stream_worker fails
\* and its stream is dispatched again, and never after a worker finished it.
OneWorkerPerStream ==
  \A s \in Sids : InUse(s) <= 1 /\ (InUse(s) = 1 => st[s].dispatched /\ ~st[s].worker_done)

\* A QUIC stream object is in one place: with its stream, once in pending_free,
\* or freed once; and while nghttp3 lives, pending_free is empty whenever the
\* session lock is released.
QstreamOwnedOnce ==
  /\ \A s \in Sids :
       freed[s] + Occurrences(s) + (IF st[s].qstream THEN 1 ELSE 0) =
         IF input[s].state = "open" THEN 1 ELSE 0
  /\ ~LockHeld /\ ~ngh3_dead /\ pc # "gone" => pending_free = <<>>

\* blocked_streams counts the write-blocked streams of the table, across
\* block, unblock, close and reclaim; unblock_writable_streams relies on it.
BlockedCounted ==
  pc # "gone" => blocked_streams = Cardinality({s \in Tracked : st[s].write_blocked})

\* Only a request whose FIN was read is dispatched: one that the peer reset or
\* that nghttp3 stopped never reaches a handler.
WholeRequestDispatched ==
  \A s \in Sids : st[s].dispatched => s \in Bidi /\ input[s].finished

\* An aborted session is destroyed once its workers have returned.
AbortedIsDestroyed == aborted ~> pc = "gone"

\* When the child stops, every session is closed: by draining or by the grace
\* period.
StopEndsSession == ~thread_running ~> pc = "gone"

\* Every stream's end of input is processed, however much data the other
\* streams keep sending: the drain budget starves no stream.
FinIsProcessed ==
  \A s \in Sids :
    st[s].tracked /\ input[s].fin ~> st[s].body_complete \/ st[s].done \/ aborted

\* The idle check closes no connection while a response waits that the QUIC
\* stream was not yet offered.
IdleKeepsResponses ==
  [][pc = "idle" /\ aborted' # aborted =>
       \A s \in Sids : ~Sendable(s) \/ st[s].response_cancelled]_vars
=============================================================================
