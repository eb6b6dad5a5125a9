--------------------------- MODULE ResponseQueue ---------------------------
(***************************************************************************)
(* The bounded queue between the request worker that produces a response   *)
(* and the QUIC event thread that consumes it: h3_session.c (append,       *)
(* complete, ack, cancel, cleanup, read_data), submit_response_nva and the *)
(* tail of stream_worker in h3_request.c, flush_nghttp3 in h3_stream.c and *)
(* abandon_stalled_responses in h3_io.c, for one stream.                   *)
(*                                                                         *)
(* A byte of the response is its offset in the body, so a queued chunk is  *)
(* the offset of its first byte (data), its length and how much of it was  *)
(* acknowledged.  What nghttp3 was handed and has not written yet is the   *)
(* interval sent .. handed - 1 of offsets; the pointers in its vectors are *)
(* pointers into the chunks that hold those offsets.                       *)
(*                                                                         *)
(* session->lock is held by the event thread exactly while event is        *)
(* "drain", "flush" or "service"; a worker's critical section is one step  *)
(* taken while it does not hold the lock.  Times are kept as ages that     *)
(* saturate at the stall timeout, the only value they are compared with.   *)
(*                                                                         *)
(* A response captured whole (H3MaxResponseBodySize) is queued by          *)
(* stream_worker with the same calls in the same order, start, append,     *)
(* complete, so it is the behaviour that appends once and skips FilterEos. *)
(***************************************************************************)
EXTENDS Integers, Sequences

CONSTANTS
  BufferLimit,   \* response_buffer_limit (H3StreamBufferSize)
  ChunkBytes,    \* STREAM_CHUNK_BYTES
  SizeMax,       \* SIZE_MAX, the bound on response_len
  MaxWrite,      \* longest data passed to one call of append
  VecCnt,        \* vectors nghttp3 offers to read_data
  SendBuf,       \* bytes the QUIC send buffer of the stream holds
  StallTimeout   \* H3StreamTimeout, in ticks

ASSUME ConstantsAssumption ==
  /\ BufferLimit \in Nat \ {0}
  /\ ChunkBytes \in Nat \ {0}
  /\ SizeMax \in Nat
  /\ MaxWrite \in Nat \ {0}
  /\ VecCnt \in Nat \ {0}
  /\ SendBuf \in Nat \ {0}
  /\ StallTimeout \in Nat \ {0}

VARIABLES
  chunks,              \* response_head .. response_tail
  submit_chunk,        \* data of the first chunk not handed out yet, or NoChunk
  response_buffered,
  response_len,
  response_submitted,
  response_complete,
  response_cancelled,
  write_blocked,
  qstream,             \* the stream still has its QUIC stream object
  done,
  tracked,             \* the stream is in session->streams
  ngh3,                \* nghttp3's side: [open, ready, eof, handed, sent, fin]
  ackleft,             \* bytes acked_stream_data still has to account for
  aborted,
  ngh3_dead,
  worker,              \* where the request worker is
  todo,                \* len - offset of the append in progress
  event,               \* where the event thread is
  inflight,            \* bytes in the QUIC send buffer
  broken,              \* the stream was reset, by either side: writes fail
  abandoned,           \* abandon_stalled_responses cancelled the response
  progress_age,        \* now - response_progress_at
  peer_age,            \* time since the peer last freed send buffer space
  seen_age             \* the same, of what the last flush saw when it began

queueVars  == <<chunks, submit_chunk, response_buffered, response_len>>
flagVars   == <<response_submitted, response_complete, response_cancelled>>
streamVars == <<write_blocked, qstream, done, tracked>>
sessVars   == <<aborted, ngh3_dead>>
netVars    == <<inflight, peer_age, seen_age>>
vars == <<queueVars, flagVars, streamVars, sessVars, netVars, ngh3, ackleft,
          worker, todo, event, broken, abandoned, progress_age>>

NoChunk == -1

WorkerStates == {"run", "append", "wait", "eos", "final", "closing", "done"}
EventStates  == {"poll", "drain", "flush", "dispatch", "service", "gone"}

LockHeld == event \in {"drain", "flush", "service"}

Least(a, b) == IF a <= b THEN a ELSE b
Older(age)  == IF age < StallTimeout THEN age + 1 ELSE age

End(c)     == c.data + c.len
IndexOf(d) == CHOOSE i \in 1..Len(chunks) : chunks[i].data = d

Chunk == [data : Nat, len : Nat, acked : Nat]
Ngh3Stream == [open : BOOLEAN, ready : BOOLEAN, eof : BOOLEAN, handed : Nat,
               sent : Nat, fin : {"none", "concluded", "swallowed"}]

TypeOK ==
  /\ chunks \in Seq(Chunk)
  /\ submit_chunk \in Nat \cup {NoChunk}
  /\ response_buffered \in Nat /\ response_len \in Nat
  /\ response_submitted \in BOOLEAN /\ response_complete \in BOOLEAN
  /\ response_cancelled \in BOOLEAN
  /\ write_blocked \in BOOLEAN /\ qstream \in BOOLEAN /\ done \in BOOLEAN
  /\ tracked \in BOOLEAN
  /\ ngh3 \in Ngh3Stream
  /\ ackleft \in Nat
  /\ aborted \in BOOLEAN /\ ngh3_dead \in BOOLEAN
  /\ worker \in WorkerStates /\ todo \in 0..MaxWrite
  /\ event \in EventStates
  /\ inflight \in 0..SendBuf
  /\ broken \in BOOLEAN /\ abandoned \in BOOLEAN
  /\ progress_age \in 0..StallTimeout /\ peer_age \in 0..StallTimeout
  /\ seen_age \in 0..StallTimeout

\* The worker starts when service_session_pass dispatches the request.  The
\* progress clock was started by track_stream, before the request arrived.
Init ==
  /\ chunks = <<>> /\ submit_chunk = NoChunk
  /\ response_buffered = 0 /\ response_len = 0
  /\ response_submitted = FALSE /\ response_complete = FALSE
  /\ response_cancelled = FALSE
  /\ write_blocked = FALSE /\ qstream = TRUE /\ done = FALSE
  /\ tracked = TRUE
  /\ ngh3 = [open |-> TRUE, ready |-> FALSE, eof |-> FALSE,
             handed |-> 0, sent |-> 0, fin |-> "none"]
  /\ ackleft = 0
  /\ aborted = FALSE /\ ngh3_dead = FALSE
  /\ worker = "run" /\ todo = 0
  /\ event = "dispatch"
  /\ inflight = 0
  /\ broken = FALSE /\ abandoned = FALSE
  /\ progress_age \in 0..StallTimeout /\ peer_age = 0 /\ seen_age = 0
-----------------------------------------------------------------------------
(* Pieces shared by several handlers.                                      *)

Broadcast_Lost == worker' = worker

\* apr_thread_cond_broadcast(response_cond)
Broadcast == worker' = IF worker = "wait" THEN "append" ELSE worker

\* h3_stream_response_cancel_locked, its broadcast left to the caller
CancelFlags == response_cancelled' = TRUE /\ response_complete' = TRUE

\* nghttp3_conn_resume_stream: nghttp3 asks read_data again
Resumed == [ngh3 EXCEPT !.ready = TRUE]

AppendBlocked ==
  /\ response_buffered >= BufferLimit
  /\ ~response_cancelled /\ ~aborted /\ ~ngh3_dead

Gone == response_cancelled \/ aborted \/ ngh3_dead

ChunkLen_NoRoomCheck == Least(todo, ChunkBytes)

\* min(len - offset, room, STREAM_CHUNK_BYTES)
ChunkLen == Least(Least(todo, BufferLimit - response_buffered), ChunkBytes)
-----------------------------------------------------------------------------
(* The request worker.                                                     *)

\* submit_response_nva, called by the filter and at the end of stream_worker
SubmitResponse ==
  /\ ~LockHeld
  /\ \/ /\ response_submitted \/ Gone
        /\ UNCHANGED <<flagVars, ngh3>>
     \/ /\ ~response_submitted /\ ~Gone
        /\ response_submitted' = TRUE
        /\ ngh3' = Resumed
        /\ UNCHANGED <<response_complete, response_cancelled>>
     \/ /\ ~response_submitted /\ ~Gone
        /\ CancelFlags
        /\ UNCHANGED <<response_submitted, ngh3>>
  /\ UNCHANGED <<queueVars, streamVars, sessVars, netVars, ackleft, todo,
                 event, broken, abandoned, progress_age>>

\* h3_response_start from h3_filter_out_proto
StartResponse == worker = "run" /\ SubmitResponse /\ UNCHANGED worker

\* h3_response_start from stream_worker, after ap_process_request returned
FinalStart == worker \in {"run", "eos"} /\ SubmitResponse /\ worker' = "final"

\* h3_stream_response_append is called with len bytes
BeginAppend(len) ==
  /\ worker = "run" /\ response_submitted
  /\ todo' = len /\ worker' = "append"
  /\ UNCHANGED <<queueVars, flagVars, streamVars, sessVars, netVars, ngh3,
                 ackleft, event, broken, abandoned, progress_age>>

\* the queue is full: sleep on response_cond, which releases the lock
AppendWait ==
  /\ worker = "append" /\ ~LockHeld /\ AppendBlocked
  /\ worker' = "wait"
  /\ UNCHANGED <<queueVars, flagVars, streamVars, sessVars, netVars, ngh3,
                 ackleft, todo, event, broken, abandoned, progress_age>>

\* apr_thread_cond_timedwait gives up after 100 ms and the loop test runs again
AppendTimeout ==
  /\ worker = "wait" /\ ~LockHeld
  /\ worker' = "append"
  /\ UNCHANGED <<queueVars, flagVars, streamVars, sessVars, netVars, ngh3,
                 ackleft, todo, event, broken, abandoned, progress_age>>

\* append returns an error: the wait failed, or the stream or session is gone
AppendFail ==
  /\ ~LockHeld
  /\ worker = "wait" \/ (worker = "append" /\ ~AppendBlocked /\ Gone)
  /\ worker' = "run" /\ todo' = 0
  /\ UNCHANGED <<queueVars, flagVars, streamVars, sessVars, netVars, ngh3,
                 ackleft, event, broken, abandoned, progress_age>>

\* append cannot queue the chunk: its length is 0, response_len would
\* overflow, or malloc failed (any time)
AppendCancel ==
  /\ worker = "append" /\ ~LockHeld /\ ~AppendBlocked /\ ~Gone
  /\ CancelFlags
  /\ worker' = "run" /\ todo' = 0
  /\ UNCHANGED <<queueVars, response_submitted, streamVars, sessVars, netVars,
                 ngh3, ackleft, event, broken, abandoned, progress_age>>

\* one turn of the append loop that queues a chunk
AppendChunk ==
  /\ worker = "append" /\ ~LockHeld /\ ~AppendBlocked /\ ~Gone
  /\ ChunkLen > 0 /\ response_len <= SizeMax - ChunkLen
  /\ chunks' = Append(chunks, [data |-> response_len, len |-> ChunkLen, acked |-> 0])
  /\ submit_chunk' = IF submit_chunk = NoChunk THEN response_len ELSE submit_chunk
  /\ response_buffered' = response_buffered + ChunkLen
  /\ response_len' = response_len + ChunkLen
  /\ ngh3' = IF response_submitted THEN Resumed ELSE ngh3
  /\ todo' = todo - ChunkLen
  /\ worker' = IF todo = ChunkLen THEN "run" ELSE "append"
  /\ UNCHANGED <<flagVars, streamVars, sessVars, netVars, ackleft, event,
                 broken, abandoned, progress_age>>

ResumeOnComplete_Forgotten == ngh3

ResumeOnComplete == IF response_submitted /\ ~ngh3_dead THEN Resumed ELSE ngh3

\* h3_stream_response_complete; its broadcast wakes no one, the only thread
\* that sleeps on response_cond is the caller
Complete ==
  /\ ~LockHeld
  /\ response_complete' = TRUE
  /\ ngh3' = ResumeOnComplete
  /\ UNCHANGED <<queueVars, response_submitted, response_cancelled, streamVars,
                 sessVars, netVars, ackleft, todo, event, broken, abandoned,
                 progress_age>>

\* the EOS bucket in h3_filter_out_proto, after h3_response_start succeeded
FilterEos == worker = "run" /\ response_submitted /\ Complete /\ worker' = "eos"

\* the end of stream_worker: complete once more, then worker_done
WorkerComplete == worker = "final" /\ Complete /\ worker' = "closing"

WorkerDone ==
  /\ worker = "closing" /\ ~LockHeld
  /\ worker' = "done"
  /\ UNCHANGED <<queueVars, flagVars, streamVars, sessVars, netVars, ngh3,
                 ackleft, todo, event, broken, abandoned, progress_age>>
-----------------------------------------------------------------------------
(* The event thread.                                                       *)

\* The QUIC stack frees send buffer space when it reads an acknowledgement of
\* the peer.  It reads the socket in h3q_engine_pump and, as OpenSSL's event
\* handling is left implicit, in the calls of a pass as well: in the
\* SSL_read_ex of the drain and in the SSL_write_ex, for this or for another
\* stream, of either flush.
PeerAck ==
  /\ event \in {"poll", "drain", "flush", "service"}
  /\ \E n \in 1..inflight : inflight' = inflight - n
  /\ peer_age' = 0
  /\ UNCHANGED <<queueVars, flagVars, streamVars, sessVars, seen_age, ngh3,
                 ackleft, worker, todo, event, broken, abandoned, progress_age>>

Tick ==
  /\ progress_age < StallTimeout \/ peer_age < StallTimeout
  /\ progress_age' = Older(progress_age) /\ peer_age' = Older(peer_age)
  /\ seen_age' = Older(seen_age)
  /\ UNCHANGED <<queueVars, flagVars, streamVars, sessVars, inflight, ngh3,
                 ackleft, worker, todo, event, broken, abandoned>>

\* service_session_pass takes the lock and drains the streams
BeginDrain ==
  /\ event = "poll" /\ ~aborted
  /\ event' = "drain"
  /\ UNCHANGED <<queueVars, flagVars, streamVars, sessVars, netVars, ngh3,
                 ackleft, worker, todo, broken, abandoned, progress_age>>

\* on_stream_close: nghttp3 forgets the stream
OnStreamClose ==
  /\ event = "drain" /\ ~ngh3_dead /\ ngh3.open /\ tracked
  /\ CancelFlags /\ Broadcast
  /\ done' = TRUE /\ qstream' = FALSE
  /\ ngh3' = [ngh3 EXCEPT !.open = FALSE]
  /\ UNCHANGED <<queueVars, response_submitted, write_blocked, tracked, sessVars,
                 netVars, ackleft, todo, event, broken, abandoned, progress_age>>

\* on_stop_sending: nghttp3 keeps the stream, the QUIC stream goes
OnStopSending ==
  /\ event = "drain" /\ ~ngh3_dead /\ ngh3.open /\ tracked
  /\ CancelFlags /\ Broadcast
  /\ done' = TRUE /\ qstream' = FALSE
  /\ UNCHANGED <<queueVars, response_submitted, write_blocked, tracked, sessVars,
                 netVars, ngh3, ackleft, todo, event, broken, abandoned, progress_age>>

\* on_reset_stream: the QUIC stream is reset but kept
OnResetStream ==
  /\ event = "drain" /\ ~ngh3_dead /\ ngh3.open /\ tracked
  /\ CancelFlags /\ Broadcast
  /\ done' = TRUE /\ broken' = (broken \/ qstream)
  /\ UNCHANGED <<queueVars, response_submitted, write_blocked, qstream, tracked,
                 sessVars, netVars, ngh3, ackleft, todo, event, abandoned,
                 progress_age>>

\* flush_nghttp3 starts: it returns at once when nghttp3 is dead, else
\* unblock_writable_streams re-enables the stream if it has room or is gone
BeginFlush ==
  /\ event \in {"drain", "dispatch"} /\ ~ngh3_dead
  /\ event' = IF event = "drain" THEN "flush" ELSE "service"
  /\ write_blocked' = (write_blocked /\ qstream /\ inflight = SendBuf)
  /\ seen_age' = peer_age
  /\ UNCHANGED <<queueVars, flagVars, qstream, done, tracked, sessVars, inflight,
                 peer_age, ngh3, ackleft, worker, todo, broken, abandoned,
                 progress_age>>

Flushing  == event \in {"flush", "service"} /\ ackleft = 0
Scheduled == ngh3.open /\ response_submitted /\ ~write_blocked
CanRead   == Scheduled /\ ngh3.ready /\ ~ngh3.eof
CanWrite  == /\ Scheduled /\ ngh3.fin = "none"
             /\ ngh3.sent < ngh3.handed \/ ngh3.eof

NextToSubmit_KeepsLast(last) ==
  IF last = Len(chunks) THEN NoChunk ELSE chunks[last].data

\* chunk->next of the last chunk read_data put into a vector
NextToSubmit(last) ==
  IF last = Len(chunks) THEN NoChunk ELSE chunks[last + 1].data

AtEof_IgnoresQueue(last) == response_complete

\* read_data flags EOF with the vectors when they were the last ones
AtEof(last) == last = Len(chunks) /\ response_complete

\* h3_session_read_data, called by nghttp3_conn_writev_stream
ReadData ==
  /\ Flushing /\ CanRead
  /\ \/ /\ ~response_cancelled /\ submit_chunk # NoChunk
        /\ LET first == IndexOf(submit_chunk)
               last  == Least(Len(chunks), first + VecCnt - 1)
           IN  /\ ngh3' = [ngh3 EXCEPT !.handed = End(chunks[last]),
                                       !.eof = AtEof(last)]
               /\ submit_chunk' = NextToSubmit(last)
     \/ /\ response_cancelled \/ (submit_chunk = NoChunk /\ response_complete)
        /\ ngh3' = [ngh3 EXCEPT !.eof = TRUE]
        /\ UNCHANGED submit_chunk
     \/ /\ ~response_cancelled /\ submit_chunk = NoChunk /\ ~response_complete
        /\ ngh3' = [ngh3 EXCEPT !.ready = FALSE]
        /\ UNCHANGED submit_chunk
  /\ UNCHANGED <<chunks, response_buffered, response_len, flagVars, streamVars,
                 sessVars, netVars, ackleft, worker, todo, event, broken, abandoned,
                 progress_age>>

\* what nghttp3 has to write
Expected == ngh3.handed - ngh3.sent

Room == SendBuf - inflight

\* a vector ends within the room, so that an SSL_write_ex for the next follows
Rewrites ==
  \E i \in 1..Len(chunks) :
    /\ ngh3.sent < End(chunks[i]) /\ End(chunks[i]) < ngh3.handed
    /\ End(chunks[i]) <= ngh3.sent + Room

\* h3q_stream_write: the QUIC stream takes what fits, and more if the peer made
\* room between two calls of SSL_write_ex; fin concludes it when all was taken
WriteStream(accepted) ==
  /\ Flushing /\ CanWrite /\ qstream /\ ~broken
  /\ accepted >= Least(Expected, Room) /\ (accepted > Room => Rewrites)
  /\ ngh3' = [ngh3 EXCEPT
       !.sent = @ + accepted,
       !.fin = IF ngh3.eof /\ accepted = Expected THEN "concluded" ELSE "none"]
  /\ ackleft' = accepted
  /\ inflight' = Least(SendBuf, inflight + accepted)
  /\ peer_age' = IF accepted > Room THEN 0 ELSE peer_age
  /\ write_blocked' = (accepted < Expected)
  /\ UNCHANGED <<queueVars, flagVars, qstream, done, tracked, sessVars, seen_age,
                 worker, todo, event, broken, abandoned, progress_age>>

\* the stream has no QUIC stream, or writing to it fails: swallow the bytes
SwallowStream ==
  /\ Flushing /\ CanWrite
  /\ ngh3' = [ngh3 EXCEPT !.sent = ngh3.handed,
                          !.fin = IF ngh3.eof THEN "swallowed" ELSE "none"]
  /\ ackleft' = Expected
  /\ broken' = (broken \/ qstream)
  /\ UNCHANGED <<queueVars, flagVars, streamVars, sessVars, netVars, worker, todo,
                 event, abandoned, progress_age>>

\* one turn of the loop of h3_stream_response_ack_locked
AckChunk ==
  LET head     == chunks[1]
      consumed == Least(ackleft, head.len - head.acked)
  IN
  /\ ackleft > 0 /\ chunks # <<>>
  /\ chunks' = IF head.acked + consumed = head.len THEN Tail(chunks)
               ELSE [chunks EXCEPT ![1].acked = @ + consumed]
  /\ response_buffered' = response_buffered - consumed
  /\ ackleft' = ackleft - consumed
  /\ progress_age' = 0
  /\ Broadcast
  /\ UNCHANGED <<submit_chunk, response_len, flagVars, streamVars, sessVars,
                 netVars, ngh3, todo, event, broken, abandoned>>

\* the loop ends with nothing queued: the rest of the acknowledgement is ignored
AckNothing ==
  /\ ackleft > 0 /\ chunks = <<>>
  /\ ackleft' = 0
  /\ UNCHANGED <<queueVars, flagVars, streamVars, sessVars, netVars, ngh3, worker,
                 todo, event, broken, abandoned, progress_age>>

Stalled_NoClock ==
  ~response_cancelled /\ ~response_complete /\ response_buffered >= BufferLimit

Stalled_Never == FALSE

\* abandon_stalled_responses, run under the lock that flushed last
Stalled ==
  /\ ~response_cancelled /\ ~response_complete
  /\ response_buffered >= BufferLimit
  /\ progress_age >= StallTimeout

\* the flush loop ends: nothing left to send, or writev_stream failed
EndFlush(dead) ==
  /\ Flushing
  /\ dead \/ ~(CanRead \/ CanWrite)
  /\ ngh3_dead' = dead
  /\ aborted' = (aborted \/ (dead /\ event = "flush"))
  /\ event' = IF event = "flush" /\ ~dead THEN "dispatch" ELSE "poll"
  /\ IF event = "service" /\ Stalled
       THEN CancelFlags /\ Broadcast /\ abandoned' = TRUE
       ELSE UNCHANGED <<response_complete, response_cancelled, worker, abandoned>>
  /\ UNCHANGED <<queueVars, response_submitted, streamVars, netVars, ngh3, ackleft,
                 todo, broken, progress_age>>

\* a pass finds the connection closed, drained or idle
Abort ==
  /\ event = "poll" /\ ~aborted
  /\ aborted' = TRUE
  /\ UNCHANGED <<queueVars, flagVars, streamVars, ngh3_dead, netVars, ngh3, ackleft,
                 worker, todo, event, broken, abandoned, progress_age>>

\* nghttp3_conn_read_stream fails, or there were too many stream errors
MarkDead ==
  /\ event = "drain"
  /\ ngh3_dead' = TRUE
  /\ UNCHANGED <<queueVars, flagVars, streamVars, aborted, netVars, ngh3, ackleft,
                 worker, todo, event, broken, abandoned, progress_age>>

\* after the drain of a session whose nghttp3 is dead
AbortDead ==
  /\ event = "drain" /\ ngh3_dead
  /\ aborted' = TRUE /\ event' = "poll"
  /\ UNCHANGED <<queueVars, flagVars, streamVars, ngh3_dead, netVars, ngh3, ackleft,
                 worker, todo, broken, abandoned, progress_age>>

\* h3_stream_response_cleanup_locked
CleanupLocked == chunks' = <<>> /\ submit_chunk' = NoChunk /\ response_buffered' = 0

\* drain_ready_streams reclaims a stream nothing uses any more
Reclaim ==
  /\ event = "drain" /\ tracked /\ done /\ ~qstream /\ worker = "done"
  /\ CleanupLocked
  /\ tracked' = FALSE /\ write_blocked' = FALSE
  /\ UNCHANGED <<response_len, flagVars, qstream, done, sessVars, netVars, ngh3,
                 ackleft, worker, todo, event, broken, abandoned, progress_age>>

\* h3_session_destroy, once the session is aborted and no task is active
Destroy ==
  /\ event = "poll" /\ aborted /\ worker = "done"
  /\ ngh3' = [ngh3 EXCEPT !.open = FALSE]
  /\ IF tracked THEN CancelFlags /\ CleanupLocked
     ELSE UNCHANGED <<chunks, submit_chunk, response_buffered, response_complete,
                      response_cancelled>>
  /\ event' = "gone" /\ tracked' = FALSE /\ qstream' = FALSE
  /\ UNCHANGED <<response_len, response_submitted, write_blocked, done, sessVars,
                 netVars, ackleft, worker, todo, broken, abandoned, progress_age>>

Worker ==
  \/ StartResponse \/ FinalStart
  \/ \E len \in 1..MaxWrite : BeginAppend(len)
  \/ AppendWait \/ AppendTimeout \/ AppendFail \/ AppendCancel \/ AppendChunk
  \/ FilterEos \/ WorkerComplete \/ WorkerDone

EventThread ==
  \/ BeginDrain \/ OnStreamClose \/ OnStopSending \/ OnResetStream
  \/ BeginFlush \/ ReadData \/ SwallowStream
  \/ \E accepted \in 0..Expected : WriteStream(accepted)
  \/ AckChunk \/ AckNothing
  \/ EndFlush(FALSE) \/ EndFlush(TRUE)
  \/ Abort \/ MarkDead \/ AbortDead \/ Reclaim \/ Destroy

Next == Worker \/ EventThread \/ PeerAck \/ Tick

Spec == Init /\ [][Next]_vars

(***************************************************************************)
(* Fairness.  The event thread keeps passing over its sessions: each pass  *)
(* starts after at most one second of poll and nothing in it blocks.  A    *)
(* worker inside append, or past the handler, keeps competing for          *)
(* session->lock, which the event thread releases in every pass, so it     *)
(* gets the lock infinitely often.  Time passes.  Nothing is assumed of    *)
(* the handler, of the peer, of the nghttp3 callbacks or of failures.      *)
(***************************************************************************)
EventProgress ==
  \/ BeginDrain \/ BeginFlush \/ ReadData \/ SwallowStream
  \/ \E accepted \in 0..Expected : WriteStream(accepted)
  \/ AckChunk \/ AckNothing \/ EndFlush(FALSE) \/ AbortDead

WorkerProgress ==
  \/ AppendWait \/ AppendTimeout \/ AppendFail \/ AppendCancel \/ AppendChunk
  \/ (worker = "eos" /\ FinalStart) \/ WorkerComplete \/ WorkerDone

FairSpec ==
  Spec /\ WF_vars(EventProgress) /\ SF_vars(WorkerProgress) /\ WF_vars(Tick)
-----------------------------------------------------------------------------
(* Properties.                                                             *)

\* the offset of the first byte h3_stream_response_ack_locked has not counted
AckPos == IF chunks = <<>> THEN response_len ELSE chunks[1].data + chunks[1].acked

\* The chunks of append and ack_locked hold the response without gap or
\* overlap from the first unacknowledged byte to the last one appended, only
\* the head is partly acknowledged, and response_buffered is exactly what they
\* hold and never exceeds H3StreamBufferSize, however append, ack and cleanup
\* interleave.
BufferAccounting ==
  /\ \A i \in 1..Len(chunks) :
       /\ chunks[i].acked < chunks[i].len
       /\ i > 1 => chunks[i].acked = 0
       /\ End(chunks[i]) = IF i = Len(chunks) THEN response_len
                           ELSE chunks[i + 1].data
  /\ response_buffered = response_len - AckPos
  /\ response_buffered <= BufferLimit

\* What flush_nghttp3 may pass to h3q_stream_write is memory that is still
\* allocated: every byte nghttp3 was handed and has not written lies in a
\* queued chunk, and response_submit_chunk is a queued chunk.
LiveVectors ==
  tracked =>
    /\ \A o \in ngh3.sent..(ngh3.handed - 1) :
         \E i \in 1..Len(chunks) : chunks[i].data <= o /\ o < End(chunks[i])
    /\ submit_chunk # NoChunk =>
         \E i \in 1..Len(chunks) : chunks[i].data = submit_chunk

\* read_data hands out every byte once and in order: the next chunk it will
\* hand out starts where the last vector ended, whatever was acknowledged and
\* appended meanwhile.
HandedInOrder ==
  tracked =>
    /\ ngh3.sent <= ngh3.handed
    /\ ngh3.handed = IF submit_chunk = NoChunk THEN response_len ELSE submit_chunk

\* A stream that h3q_stream_write concluded carried the whole response, unless
\* the response was cancelled.
FinMeansAll ==
  ngh3.fin = "concluded" /\ ~response_cancelled =>
    response_complete /\ ngh3.sent = response_len /\ ~broken

\* The producer sleeps on response_cond only while its queue is full and the
\* response is wanted: no acknowledgement and no cancellation is missed.
NoMissedWakeup ==
  worker = "wait" => response_buffered >= BufferLimit /\ ~response_cancelled

\* abandon_stalled_responses gives a response up only if, at the time
\* unblock_writable_streams last looked for room, the peer had freed none for
\* what is now the whole timeout, or if nghttp3 died in the flush before it and
\* the session is about to be closed: the room a pass finds is used, and resets
\* response_progress_at, before the clock is read.
AbandonOnlyStalled ==
  [][abandoned' # abandoned => seen_age = StallTimeout \/ ngh3_dead']_vars

\* A handler blocked in h3_stream_response_append is released even if the peer
\* never reads again: by room, by the stall timeout or by the session's end.
ProducerReleased == worker \in {"append", "wait"} ~> worker \notin {"append", "wait"}

\* Once stream_worker has completed a submitted response, the stream is ended
\* if the peer keeps reading: no resume is lost between the threads.
CompletedIsEnded ==
  SF_vars(PeerAck) =>
    (worker = "done" /\ response_submitted ~>
       ngh3.fin # "none" \/ ~ngh3.open \/ aborted \/ ngh3_dead)

(***************************************************************************)
(* The queue implements a bounded pipe.  What the transport took is what   *)
(* nghttp3 wrote; reclaiming or destroying the stream drops the rest.      *)
(***************************************************************************)
Pipe == INSTANCE ResponsePipe WITH
  Capacity <- BufferLimit,
  written  <- response_len,
  taken    <- IF tracked THEN ngh3.sent ELSE response_len,
  phase    <- IF response_cancelled THEN "cut"
              ELSE IF response_complete THEN "closed" ELSE "open",
  ended    <- ngh3.fin = "concluded"

\* The response queue of h3_session.c implements the bounded pipe.
ImplementsPipe == Pipe!Spec

\* H3StreamTimeout is documented to abort the stream of a response that makes
\* no progress; a stream that is aborted is not ended with a clean FIN.
AbandonedNotConcluded == ~(abandoned /\ ngh3.fin = "concluded")
=============================================================================
