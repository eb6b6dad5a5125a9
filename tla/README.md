# mod_http3 in TLA+

mod_http3 is an Apache httpd module that serves HTTP/3: OpenSSL speaks QUIC,
nghttp3 speaks HTTP/3, and the module connects both with httpd's request
processing. This directory models the parts of it in which several threads,
processes or peers meet, and the two in which many small decisions must add up
(limits and filters of an exchange, configuration). TLC checks the models on small
instances; TLAPS proves the central safety properties of every part for every
instance.

Paths below are relative to `src/mod_http3/src/`.

## The system

One child process binds the UDP port and runs one **event thread**. It waits for
datagrams, timers and workers, pumps the QUIC engine, accepts connections, completes
handshakes and services every session in turn. A request that has arrived whole is
given to a **worker** of a thread pool, which runs httpd's handlers and queues the
response; the event thread hands the queue to nghttp3 and writes it to QUIC. The
child's **main thread** starts the listener and runs the stop hooks; a **port
acquirer** thread waits for a port that another child still owns. The parent process
reads the configuration that all of them work with.

| part | source | its state | its operations | module |
|---|---|---|---|---|
| response queue | `h3_session.c`, `h3_request.c`, `h3_stream.c`, `h3_io.c` | chunks, counters, flags of one response | append, complete, ack, cancel, cleanup, read_data, submit, flush, stall timeout | `ResponseQueue` |
| session servicing | `h3_io.c`, `h3_stream.c`, `h3_threads.c` | stream table, budget cursor, blocked and pending-free streams, abort and GOAWAY flags | accept, drain, reclaim, flush, dispatch, idle check, shut down, destroy | `Session` |
| dispatch and worker | `h3_request.c` | dispatched, worker_done, active_tasks; the worker's place | reserve, start, fail, answer, leave | `Session`, `Exchange`, `ResponseQueue` |
| nghttp3 callbacks | `h3_callbacks.c` | header table, body buffer, stream flags | header, data, end, stop, reset, close, ack | `RequestBody`, `Session`, `ResponseQueue` |
| input filter, access checker | `h3_filter.c`, `h3_hooks.c` | read offset, verdict | read in four modes, 413, 431, 400 | `RequestBody` |
| output filter, end of a worker | `h3_filter.c`, `h3_request.c` | captured body, header section, what was submitted | pass buckets, capture, finalize, submit, append, complete | `Exchange` |
| listener | `h3_threads.c`, `h3_io.c` | pending handshakes, active sessions, MPM notes | accept, progress, service, drain, stop, tear down | `Listener` |
| event loop, wakeup channel | `h3_threads.c`, `h3_io.c`, `h3_socket.c`, `quic/h3q.c` | wakeup socket, timeout, work_pending | wait, wake, drain, pump, pass | `EventLoop` |
| datagram filter | `quic/detail/h3q_addr.c`, `quic/h3q.c` | batch queue, current peer | receive, pump, attribute | `DatagramQueue` |
| child and port | `h3_server.c`, `h3_socket.c`, `h3_io.c`, `quic/h3q.c` | socket, listener, acquirer, what a start has made | init, start step by step, acquire, stop, tear down | `ChildPort` |
| configuration, Alt-Svc | `h3_config.c`, `h3_server.c`, `h3_hooks.c` | one `h3_server_conf` per server | directives, merge, post_config, restart, advertise | `Config` |
| status page, TLS set-up, registration | `h3_hooks.c`, `quic/detail/h3q_tls.c`, `mod_http3.c` | none of their own | text and library calls | not modelled |

What makes it hard: the worker and the event thread share a queue under one lock
with a condition variable; nghttp3 keeps pointers into chunks that an
acknowledgement frees; callbacks take a stream apart while a worker uses it; a
session may end only after its last worker; connections move between arrays while
an external counter must never miss one; a wakeup that is lost or taken early must
not leave work behind; a process holds a socket another one is waiting for, and its
start may fail at each of eleven steps. `hazards` in `PROJECT.json` lists each at its
line.

## Modules

**ResponseQueue** models one response. A byte is its offset, so a chunk is
`[data, len, acked]`, and nghttp3's vectors are the interval `sent .. handed - 1`.
The event thread holds `session->lock` while `event` is `drain`, `flush` or
`service`; a worker's critical section is one step outside them.
`SubmitResponse`, `BeginAppend` to `AppendChunk`, `Complete` and `WorkerDone` are
the worker; `BeginDrain`, the three callbacks, `BeginFlush`, `ReadData`,
`WriteStream`, `SwallowStream`, `AckChunk` and `EndFlush` (which ends with
`abandon_stalled_responses`) are a pass of the event thread. Failures of malloc,
of nghttp3 and of the wait are choices. OpenSSL handles network events inside most of
its calls, so acknowledgements (`PeerAck`) are processed at any place of a pass that
makes such calls, also after `unblock_writable_streams` looked for room, and between
two `SSL_write_ex` of one `h3q_stream_write` (`WriteStream`, which otherwise takes
what fits). `peer_age` is the time since the peer freed room, `seen_age` the same as
the pass saw it when it looked.

**MCSlowTransfer** adds a history variable to it, whether the peer has freed room
within every timeout so far.

**ResponsePipe** is what the queue promises: a bounded pipe of bytes that is
closed, or cut, and signals its end once, on a closed pipe only when it is empty.
`ResponseQueue` implements it; `Exchange` is its writer.

**Session** models one connection with its stream table, pass by pass, and the
workers of its requests. Input comes in pieces and nghttp3's reaction to it is a
choice among its callbacks and errors. A response is only "pending" or not: its
inside is `ResponseQueue`. QPACK is taken with its default of no blocked streams, so
a callback concerns the stream being read. The streams of a drain's snapshot are in
ascending order: `apr_hash` iterates in an order given by the keys, and one fixed
order stands for it.

**RequestBody** models one request from the header and data callbacks through the
limits to a handler that reads the body in any mix of modes. Bytes are numbered as
the peer sends them. Here a header section may be blocked on the QPACK table, and
its callbacks then run while the encoder stream is read.

**Exchange** extends it with the answer: httpd passes buckets (response, data, meta,
error, end of stream) to `h3_filter_out_proto` in any order and number it may, in
both builds of httpd's response API (`build`), captured or streamed. The filter
finalizes and submits the header section, captures or appends the bytes;
`stream_worker` submits and appends what the filter did not, and completes the
response. Header fields are names; the conversions that drop, add or replace one are
modelled, the text is not.

**Listener** models the loop of `h3_event_thread` with its connections, a session
abstracted to aborted or not, and the main thread's drain and stop. The MPM is
external: it counts notes and waits for them.

**DatagramQueue** models the BIO that takes datagrams in batches, hands them to
OpenSSL one by one and records whose datagram is being processed, and the address a
connection's requests are given. `SSL_handle_events` in the pump reads through it
(`HandleEvents`), and so does any other call that does network work (`CallTicks`).

**EventLoop** extends it with the rest of the loop: the timeout computed from
OpenSSL's timer, `poll`, the wakeup socket with a bounded buffer and a bounded drain,
the pump, and a pass over the sessions. Workers and the stopper first do their work
and then signal, in two steps. Between the steps of a pass its OpenSSL calls may read
(`Calls`) and leave a part of a batch in the filter's queue. That queue does not make
the socket readable, so the thread can wait in `poll` with datagrams there; they stay
until `poll` returns, which its timeout makes it do within a second, and the pump
hands them on. The clock has `Ms` ticks in a millisecond, for the timer has a finer
resolution than `poll`.

**ChildPort** models several child processes that open the port, start a listener
step by step, retry in the background, stop or are killed. One descriptor number per
child is followed, since another thread may be given it after a close, and the set
of things the steps of a start have made (`held`).

**Config** models the reading of a configuration, line by line, into one structure
per server, `h3_merge_server_config`, `h3_post_config`, the children's own search for
the server to listen for, `h3_hook_fixups` and restarts. The reference it is checked
against (`Documented`) is written on the file alone: own setting, else the main
server's, else the default. Settings are the numbers of the C structure, so 0, "not
set" and `H3_FLAG_UNSET` are the same value, as in the code.

`MC*` modules instantiate these for TLC. `map` in `PROJECT.json` gives the source
lines of every definition. `*Proofs` and `SessionInvariant` hold the proofs.

## Runs

| run | instance | what it checks |
|---|---|---|
| `response` | limit 2, chunks of 2, writes up to 3, 3 bytes in all, one vector, send buffer 1, timeout 1 | accounting, live vectors, no missed wakeup, only stalled responses abandoned, `ResponsePipe` implemented; a blocked worker is released, whatever the peer does; a completed response is ended if the peer reads |
| `session` | a request and another stream that both keep sending, one read per pass, two tasks, no error tolerated | one worker per request, QUIC streams owned once, blocked streams counted; no stream starves |
| `session_ends` | one request, idle timeout and grace of 1 tick, drain and stop at any time | no use after free, whole requests only; aborted and stopped sessions are destroyed |
| `exchange` | 4 request bytes where 3 are allowed, 2 fields where 1 is, one blocked stream; answers of up to 3 bytes where 2 are captured, room for 3 header fields | buffers, the verdict of the limits, reading in order; the answer is whole and its announced length right; the filter uses the queue as a pipe's writer |
| `listener` | three connections, room for two | notes, ownership, one service per turn; stop returns, a serving child resolves handshakes |
| `event_loop` | one worker, two peers, two datagrams in batches of up to two, room for two wakeups of which a drain takes one, waits of up to two milliseconds of two ticks each | attribution, order, no sleep on work, timers; a worker's work and queued datagrams are served |
| `child_port` | two children, all failures | socket, listener and everything a start made are gone when they should be; the hook returns, the port is served again |
| `config` | a main server and a virtual host, every directive at and just outside the ends of its range, two lines besides the paths | the settings the children work with are those written, in range, and advertised |

`response_abandoned`, `response_slow`, `session_idle` and `listener_drain` show where
the code differs from what is written about it; see Findings. `response_slow` has a
timeout of 2 ticks, so that a peer can be silent for less than all of it.

**Why the bounds are enough.** In `response` a write is longer than the limit, so
appends wait in the middle of one; chunks of 2 and a write of 3 leave a short chunk
behind a full one; the send buffer is smaller than a chunk, so writes are partial and
end inside it; the total exceeds the limit, so chunks are freed while others are
appended, and `SIZE_MAX` is reached. Two streams are the least with which a budget is
shared, a cursor moves or a counter covers more than one; a budget of one read ends
every pass in the middle of the table. In `session` the idle timeout is 0, so a pass
without activity may close the session at once; `session_ends` has the passes that
only wait. In `exchange` a request body of 4 with a limit of 3 and an initial buffer
of 1 doubles, is clamped and overflows; `MCAnswers` has a page of unknown length, an
empty one, one larger than the capture limit and a 304. Three connections with room
for two reach the limit, and removing one of two sessions swaps. In `event_loop` the
wakeup socket can be full, so that signals are lost, and a drain leaves one behind;
two datagrams of two peers in one batch are what attribution is about. With two ticks
in a millisecond a timer can be due within less than one, which is where truncation
and the clamp matter. Two lines and the paths give a setting of the main server, one
of the virtual host, both, or one twice. Ages saturate at the timeout they are compared with, which loses nothing.
`MaxTasks`, `MaxBytes`, `MaxData`, `MaxFields`, `MaxOut`, `MaxDatagrams`, `MaxLines`
and `RecvCap` cap what is unbounded; where a part is proved, the proof has them
arbitrary.

`CHECK_DEADLOCK FALSE` is set everywhere since every part may really come to
rest: a session destroyed, a listener torn down, a peer that sends no more, an
exchange that is over.

## Fairness

- The event thread is weakly fair: `poll` returns after at most a second and
  nothing in a pass blocks. `EventLoop` does without the second: it assumes only that
  `poll` returns when a socket is readable, so that `WorkIsServed` shows the wakeup
  channel at work and not the timeout; its second part, about datagrams left in the
  filter's queue, is stated for a `poll` that does time out, `WF(PollOther)`. A pass
  makes finitely many OpenSSL calls, so its next step is strongly fair although each
  call may read.
- A worker inside append or past its handler is strongly fair: it competes for
  `session->lock`, which every pass releases. In `ResponseQueue` the handler itself
  may run for ever. `Session` assumes that handlers end, since httpd's own timeouts
  and `ProducerReleased` bound them, that `h3q_conn_shutdown`, tried in every pass,
  ends at last, and that the scratch pool of a pass is not refused in every pass.
  `session` needs only what concerns the event thread (`ThreadSpec`).
- Time passes. Nothing is assumed of the peer; `CompletedIsEnded` is stated for a
  peer that keeps reading, `SF(PeerAck)`.
- In `Listener`, `EndSession` is strongly fair after a stop, which is what
  `StopEndsSession` shows of `Session`. The MPM is fair only in noticing that no
  connection is noted: its own limit on the wait is off by default.
- In `ChildPort` the threads of a child run; nothing makes the MPM start, stop or
  kill one, or end a drain.
- `Exchange` and `Config` have safety properties only.

## Proofs

Every proof is for all values of the constants that the module's `ASSUME` allows:
limits, sizes and timeouts are natural numbers (positive where a 0 is refused by the
configuration), sets of connections, children and streams are finite. Each module
proves `Spec => []Inv` for an inductive invariant (theorem `Invariance`) and the
properties from it.

**ResponseQueueProofs**: `TypeCorrect`, `BufferAccountingHolds`, `LiveVectorsHolds`,
`HandedInOrderHolds`, `FinMeansAllHolds`, and `NoMissedWakeupHolds`, which is
inductive by itself. `IInv` is `TypeOK /\ Shape /\ Window /\ Flags`; none of the
others is inductive alone. That a vector points into live memory depends on what
acknowledgements may free, so `Window` ties the acknowledged position to what nghttp3
wrote (`AckPos + ackleft = sent`) and what it was handed to the next chunk to hand
out. That this is a chunk needs the order of the chunks (`Shape`). And that FIN means
everything needs the order in which the flags are set (`Flags`: no append after
completion, EOF only with an empty queue).

`ImplementsPipeHolds` is the refinement of `ResponsePipe`, from the same invariant. A
lemma for each step of the pipe says what has to be shown (`PipeWrite`, `PipeTake`,
`PipeClose`, `PipeCut`, `PipeStutter`); `PipeWorker` and `PipeEvent` go through the
actions of the two threads. That the pipe's end is not signalled before its last byte
is `Flags`. `AbandonOnlyStalledHolds` is an action property and needs two more
invariants. `Offered`: what is queued has been offered to nghttp3, which has not
forgotten the stream. `Pace`: a stream that is write blocked when a pass looks for
room has a full send buffer, and since it filled the peer's age, as seen by that look,
is at least the age of the last progress. So a response that is found with bytes queued
and no progress for the timeout was blocked when the pass looked
(`FullBecauseBlocked`), because its peer had been silent until then. The theorem cannot
say "is still silent": `response_slow` is the counterexample.

**SessionInvariant, SessionProofs**: `NoUseAfterFreeHolds`, `OneWorkerPerStreamHolds`,
`QstreamOwnedOnceHolds`, `BlockedCountedHolds`, `WholeRequestDispatchedHolds`. The
invariant has a part for each thing that is counted or owned. `WorkInv`: a stream in
use is dispatched and not done, and only a done one is reclaimed. `TaskInv`:
`active_tasks` is the number of tasks there are; the tasks are numbered within their
stream, so that this is the cardinality of a set and a task that moves changes one
element. `OwnInv`: an accepted QUIC stream object is with its stream, in
`pending_free` or freed, once. `BlockInv`: `blocked_streams` is the cardinality of
the set of blocked streams, all of them in the table. `WholeInv` says why a body that
nghttp3 did not declare done is complete: the FIN was read. A lemma per part says
which steps leave it alone (`WorkKept`, `TaskKept`, ...), one per kind of step says
what that step does. `SessionInvariant` has the workers, dispatch, peer and accept;
`SessionProofs` has drain, reclaim, flush, destruction and the theorems.

**ExchangeProofs**: for the request `ServedWholeHolds`, `LimitsDecideHolds` and
`ReadsInOrderHolds`; for the answer `AnswerIsWholeHolds`; and `UsesPipeHolds`, a
refinement: every step of the exchange is a step or a stutter of `ResponsePipe`.
`RequestInv` says that until a limit is passed the table and the buffer have
everything, and that a request a worker has is read no more. `AnswerInv` adds where
an unfinished append may be (`PendingInv`), the status (`StatusInv`), that a header
section precedes the first byte (`SubmitInv`), and that what is queued followed by
what is left of the call is the body so far, or what was captured of it
(`ContentInv`). The sequence facts needed (splitting a sequence in two and joining it
again) are lemmas.

`BufferFitsHolds` and `CaptureFitsHolds` rest on `DoubledSuffices`: the least power of
two times the first capacity that is large enough exists, because a power of two is at
least its exponent (`PowerOfTwo`, which counts the subsets of `1..n` with the library's
`FS_SUBSET`; its proof there takes `2^(n+1) = 2^n + 2^n` as given, since the provers
have no rule for exponents). The invariants
(`CapacityInv`, `CaptureInv`) say that the length is within the capacity and the
capacity within the limit. `LengthAgreesHolds` follows a field through the tables:
`AnnounceInv` says that, until something goes wrong, a `Content-Length` in the
finalized or submitted section is one of the answer's own that `h3_response_finalize`
does not unset, `ReturnInv` that an undisturbed handler produced as much as it
announced. That filtering a table brings in no field is `WithoutFields`, an induction
over the table; the library's induction theorems cannot be instantiated, so
`SetInduction` states it for a set of naturals, from its least element.

**EventLoopProofs**: `TypeCorrect` (of the datagram filter), `AttributedToSenderHolds`,
`InOrderHolds`, `SleepsOnlyIdleHolds`, `TimersKeptHolds`, `PumpEmptiesHolds`. `WakeInv` is the heart: work
no pass has seen is announced by a signal to come or a datagram in the wakeup socket,
or the thread is where it will see it (before the pass, or in the pass with that
session still to do). `SleepsOnlyIdle` is that at one place of the loop. `QueueInv` keeps delivered, queued and waiting
datagrams in one line, whichever call reads; `ClockInv` says that what has passed and
what is left of a wait are together the timeout made of the timer. `PumpEmpties` is
inductive: the pump may find a queue that a pass left, and returns when it is empty.

**ChildPortProofs**: `TypeCorrect`, `SocketDisciplineHolds`, `NothingHeldHolds`. The
invariant says, for each child, which places of its two threads go together
(`Places`), when the socket is open (`Socket`), and that a start under way has made
exactly the first n of the eleven things (`Holdings`), which is what its failure at
the next step has to release.

**ListenerProofs**: `TypeCorrect`, `NotesBalancedHolds`, `LimitKeptHolds`. Beyond them
`IInv` says that between `spawn_serviced_session` and `remove_pending_handshake` the
handshake at the loop index is still in the array. Without it the removal could leave
the array as it is while a note is taken away.

`ConnOwnedOnceHolds` and `EverySessionServedHolds` come from a second invariant on top
of it, `OwnInv` (theorem `Ownership`). A connection is at one place of an array
(`PendingOnce`, `ActiveOnce`) and in both arrays only as the handshake at the loop index
and the last session, after `spawn_serviced_session` (`Apart`, `Moving`); it is freed
once, when it is in neither (`FreedOnce`); and the counts of sessions serviced are 0
when a turn reaches them (`Unserved`). `SwapOnce` says that removal by swapping keeps
an array free of repetitions, `OnceCount` that such an array is as long as its set of
connections is large.

**ConfigProofs**: `ListensAsWrittenHolds`, `LimitsInRangeHolds`,
`AdvertisesListenerHolds`, for any number of servers and lines. `IInv` says what the
structures hold in each phase: the file while it is read, the inherited settings once
merged, with a QPACK setting told from its absence by its own flag.

**Only model-checked.** Liveness, which needs `ENABLED`: `ProducerReleased`,
`CompletedIsEnded`, `AbortedIsDestroyed`, `StopEndsSession`, `FinIsProcessed`,
`StopReturns`, `ServingResolvesHandshake`, `StopJoins`, `PortReacquired` and
`WorkIsServed`. Every safety property of a passing run is proved. `HandedInOrder`,
`FinMeansAll`, `LimitKept` and `PumpEmpties` are proved and need no run.

## Findings

- `response_abandoned`: a response given up by `H3StreamTimeout` is cancelled but
  its stream ends with a clean FIN, so the peer takes a truncated body for a
  complete one; the directive is documented to abort the stream.
- `response_slow`: `unblock_writable_streams` looks for room at the start of a flush
  and `abandon_stalled_responses` reads the clock at its end. An acknowledgement that
  an OpenSSL call in between processes frees the send buffer but resets no clock, and
  the response is given up although its peer is advancing;
  `docs/configuration_httpd.md:163` says "a slow but advancing transfer is never cut
  off". It takes an acknowledgement in that window of the pass in which the timeout
  expires.
- `session_idle`: a worker that finishes between the last flush and the idle check
  of a pass lets the connection be closed as idle with its response unsent.
- `listener_drain`: pending handshakes are neither completed nor timed out while
  the child drains, and their notes keep the graceful stop waiting.

Some smaller ones are exceptions in properties that hold otherwise, or choices that
the properties leave room for:

- `QstreamOwnedOnce` excepts a dead nghttp3: `flush_nghttp3` then returns before it
  frees `pending_free`, which waits for the session's end although `h3_session.h` says
  it is freed when the lock is next released.
- `SocketDiscipline` excepts a failed `h3_io_listen_start`: its teardown has closed the
  socket and `h3_child_init` or the acquirer closes the same number again, by then
  perhaps another thread's descriptor.
- `ServedWhole` excepts a request found malformed while the encoder stream is read:
  with `H3QpackBlockedStreams` above 0 it is dispatched all the same.
- `AnswerIsWhole` is stated for an undisturbed worker (`~fault`). Otherwise a captured
  answer lacks the bucket that could not be read and is sent as complete, a streamed
  one that a failed append cut short is completed normally, and an error bucket after
  the first data leaves the status as it was.
- `LimitsInRange` excepts `H3MaxConcurrentStreams`: `h3.h:37` announces "Directives
  default and maximum values." and has `H3_MAX_CONCURRENT_STREAMS_MAX 1000`, which
  nothing uses; `h3_config.c:162` accepts up to 65535.
- `ListensAsWritten` takes the default of `H3Port` from the server that listens, as
  `h3_post_config`, `docs/configuration_httpd.md:38` and `test_009` do; the help string
  at `h3_config.c:732` still says "default: same as main server".
- `AdvertisesListener` is about the server that listens. Another virtual host
  advertises from its own settings, which `h3_post_config` does not complete: without
  a setting of its own or of the main server the age is 0.

## Not modelled

The text of headers, requests, the status page and of `Vary` and date fields; the
parsing of numbers in directives, abstracted to the number or a refusal; the server's
own control streams, which are made once when a session begins; QPACK-blocked streams
inside `Session` (they are in `RequestBody`); the guard of `drain_ready_streams`
against a hash table that yields more streams than it counts; memory of APR pools; TLS
settings; module registration and the wrappers of system calls. The inside of OpenSSL
and nghttp3 appears as choices among what they may return. The programs under
`src/examples` are not part of the module.

`Session` and `Listener` are not composed in one state space, nor `Session` and
`ResponseQueue`: each relies on the other's properties as its fairness or
abstraction says above. `session` has 630 thousand states by itself, and a product
would be out of TLC's reach on instances where the interesting cases still happen.
