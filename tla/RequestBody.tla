----------------------------- MODULE RequestBody -----------------------------
(***************************************************************************)
(* One request on its way from nghttp3's callbacks (h3_callbacks.c) through *)
(* the limits on header fields and body bytes to the handler that reads it *)
(* in a worker (stream_worker, h3_hook_access_checker, serve_request_body). *)
(*                                                                         *)
(* The bytes the peer sends in DATA frames are numbered from 1, so a       *)
(* sequence of bytes shows where each one came from.  When a stream is read *)
(* and dispatched is module Session.  Callbacks of a stream run while that  *)
(* stream is read, or, for a header section that was blocked on the QPACK  *)
(* table, while the peer's encoder stream is.                              *)
(***************************************************************************)
EXTENDS Integers, Sequences, FiniteSetsExt

CONSTANTS
  LimitRequestFields,   \* 0: no limit
  MaxRequestBodySize,   \* H3MaxRequestBodySize
  BlockedStreams,       \* H3QpackBlockedStreams
  InitCap,              \* H3_BODY_BUF_INIT_CAP
  MaxData,              \* bound: bytes of one DATA callback
  MaxBytes,             \* bound: bytes the peer sends
  MaxFields,            \* bound: fields the peer sends
  NewLines              \* the bytes that are line feeds

ASSUME RequestBodyAssumption ==
  /\ {LimitRequestFields, BlockedStreams, MaxBytes, MaxFields} \subseteq Nat
  /\ {MaxRequestBodySize, InitCap, MaxData} \subseteq Nat \ {0}
  /\ NewLines \subseteq 1..MaxBytes

VARIABLES
  fields,                  \* how many fields the peer sent
  headers,                 \* how many of them are in the table
  header_count, headers_too_large, malformed, headers_complete,
  sent,                    \* how many bytes the peer sent
  request_body,            \* the bytes in the buffer
  request_body_capacity, request_body_overflow, request_body_offset,
  body_complete, body_truncated, done,
  reading,                 \* nghttp3_conn_read_stream runs: "none", "own" or "encoder" stream
  blocked,                 \* nghttp3 keeps the header section until the table has its entries
  late,                    \* it was found malformed while the encoder stream was read
  worker,                  \* "none", "start", or the Verdict
  got,                     \* the bytes the handler consumed
  eos                      \* the handler was given an end of stream

headerVars == <<fields, headers, header_count, headers_too_large, malformed, headers_complete>>
bodyVars   == <<sent, request_body, request_body_capacity, request_body_overflow>>
readVars   == <<request_body_offset, got, eos>>
qpackVars  == <<blocked, late>>
requestVars == <<headerVars, bodyVars, readVars, qpackVars, body_complete, body_truncated,
                 done, reading, worker>>

RequestTypeOK ==
  /\ fields \in 0..MaxFields /\ headers \in 0..MaxFields /\ header_count \in 0..MaxFields
  /\ headers_too_large \in BOOLEAN /\ malformed \in BOOLEAN
  /\ headers_complete \in BOOLEAN /\ body_complete \in BOOLEAN /\ done \in BOOLEAN
  /\ body_truncated \in BOOLEAN /\ reading \in {"none", "own", "encoder"}
  /\ blocked \in BOOLEAN /\ late \in BOOLEAN
  /\ sent \in 0..MaxBytes /\ request_body \in Seq(1..MaxBytes)
  /\ request_body_capacity \in 0..MaxRequestBodySize
  /\ request_body_overflow \in BOOLEAN
  /\ request_body_offset \in Nat
  /\ worker \in {"none", "start", "handler", "400", "413", "431"}
  /\ got \in Seq(1..MaxBytes) /\ eos \in BOOLEAN

\* track_stream made the stream and on_begin_headers its table
RequestInit ==
  /\ fields = 0 /\ headers = 0 /\ header_count = 0
  /\ headers_too_large = FALSE /\ malformed = FALSE /\ headers_complete = FALSE
  /\ sent = 0 /\ request_body = <<>> /\ request_body_capacity = 0
  /\ request_body_overflow = FALSE
  /\ request_body_offset = 0 /\ got = <<>> /\ eos = FALSE
  /\ body_complete = FALSE /\ body_truncated = FALSE /\ done = FALSE
  /\ reading = "none" /\ blocked = FALSE /\ late = FALSE /\ worker = "none"
-----------------------------------------------------------------------------
(* drain_one_stream reads the stream: with data, or its end.               *)

BeginRead ==
  /\ reading = "none" /\ ~done /\ ~body_complete
  /\ reading' = "own"
  /\ UNCHANGED <<headerVars, bodyVars, readVars, qpackVars, body_complete, body_truncated,
                 done, worker>>

\* a callback found fault with the request
Refused == malformed /\ ~done

\* nghttp3_conn_read_stream returned, with or without an error of its own: the
\* stream is rejected, or its end (feed_stream_fin) completes the request
EndRead(fin, error) ==
  /\ reading = "own" /\ reading' = "none"
  /\ done' = (done \/ error \/ Refused)
  /\ body_complete' = (body_complete \/ fin \/ error \/ Refused)
  /\ UNCHANGED <<headerVars, bodyVars, readVars, qpackVars, body_truncated, worker>>

\* the header section needs entries the peer's encoder stream has not brought;
\* nghttp3 keeps it and what follows it on the stream
Block ==
  /\ BlockedStreams > 0 /\ reading = "own" /\ ~headers_complete /\ fields = 0 /\ ~malformed
  /\ blocked' = TRUE
  /\ UNCHANGED <<headerVars, bodyVars, readVars, late, body_complete, body_truncated, done,
                 reading, worker>>

\* drain_one_stream reads the encoder stream, which brings them
BeginEncoder ==
  /\ reading = "none" /\ blocked /\ ~done
  /\ reading' = "encoder" /\ blocked' = FALSE
  /\ UNCHANGED <<headerVars, bodyVars, readVars, late, body_complete, body_truncated, done,
                 worker>>

\* what it then finds fault with is the encoder stream
EndEncoder ==
  /\ reading = "encoder" /\ reading' = "none"
  /\ UNCHANGED <<headerVars, bodyVars, readVars, qpackVars, body_complete, body_truncated,
                 done, worker>>

\* callbacks of the stream may run
Decoding == reading # "none" /\ ~blocked
-----------------------------------------------------------------------------
(* nghttp3's callbacks.                                                    *)

\* on_recv_header for a pseudo-header that is oversized or that set_pseudo
\* refuses; one that is kept changes nothing here
RecvPseudo ==
  /\ Decoding /\ ~headers_complete /\ ~malformed
  /\ malformed' = TRUE
  /\ late' = (reading = "encoder")
  /\ UNCHANGED <<fields, headers, header_count, headers_too_large, headers_complete,
                 bodyVars, readVars, blocked, body_complete, body_truncated, done, reading,
                 worker>>

TooManyFields_OffByOne(n) == LimitRequestFields > 0 /\ n > LimitRequestFields + 1

TooManyFields(n) == LimitRequestFields > 0 /\ n > LimitRequestFields

\* on_recv_header for a field, after which no field is added to the table
\* once one was refused
RecvField(oversized) ==
  LET counted == ~headers_too_large /\ LimitRequestFields > 0
      count   == IF counted THEN header_count + 1 ELSE header_count
      refused == headers_too_large \/ TooManyFields(count) \/ oversized
  IN
  /\ Decoding /\ ~headers_complete /\ fields < MaxFields
  /\ fields' = fields + 1
  /\ header_count' = count
  /\ headers_too_large' = refused
  /\ headers' = IF refused THEN headers ELSE headers + 1
  /\ UNCHANGED <<malformed, headers_complete, bodyVars, readVars, qpackVars, body_complete,
                 body_truncated, done, reading, worker>>

\* on_end_headers; with fin the request has no body
EndHeaders(fin) ==
  /\ Decoding /\ ~headers_complete
  /\ headers_complete' = TRUE /\ body_complete' = (body_complete \/ fin)
  /\ UNCHANGED <<fields, headers, header_count, headers_too_large, malformed, bodyVars,
                 readVars, qpackVars, body_truncated, done, reading, worker>>

Fits(needed) == needed <= MaxRequestBodySize

Clamp_Unclamped(cap) == cap

Clamp(cap) == IF cap > MaxRequestBodySize THEN MaxRequestBodySize ELSE cap

\* the buffer doubles until the data fits, never past the limit
Grown(cap, needed) ==
  LET start == IF cap = 0 THEN InitCap ELSE cap
  IN IF needed <= cap THEN cap
     ELSE Clamp(Min({start * 2^k : k \in {j \in 0..needed : start * 2^j >= needed}}))

\* on_recv_data: over budget, or appended to a buffer that has grown
RecvData(n) ==
  LET needed == Len(request_body) + n IN
  /\ Decoding /\ headers_complete /\ sent + n <= MaxBytes
  /\ sent' = sent + n
  /\ IF request_body_overflow \/ ~Fits(needed)
       THEN /\ request_body_overflow' = TRUE
            /\ UNCHANGED <<request_body, request_body_capacity>>
       ELSE /\ request_body' = request_body \o [k \in 1..n |-> sent + k]
            /\ request_body_capacity' = Grown(request_body_capacity, needed)
            /\ UNCHANGED request_body_overflow
  /\ UNCHANGED <<headerVars, readVars, qpackVars, body_complete, body_truncated, done, reading,
                 worker>>

\* on_stop_sending: nghttp3 gives up the rest of the request
StopSending ==
  /\ Decoding /\ ~done
  /\ done' = TRUE /\ body_complete' = TRUE /\ body_truncated' = TRUE
  /\ UNCHANGED <<headerVars, bodyVars, readVars, qpackVars, reading, worker>>

\* on_reset_stream
ResetStream ==
  /\ Decoding /\ ~done
  /\ done' = TRUE
  /\ UNCHANGED <<headerVars, bodyVars, readVars, qpackVars, body_complete, body_truncated,
                 reading, worker>>
-----------------------------------------------------------------------------
(* The event thread after the read.                                        *)

Dispatchable_Done == headers_complete /\ body_complete

\* what drain_one_stream returns
Dispatchable == ~done /\ headers_complete /\ body_complete

Dispatch ==
  /\ reading = "none" /\ Dispatchable /\ worker = "none"
  /\ worker' = "start"
  /\ UNCHANGED <<headerVars, bodyVars, readVars, qpackVars, body_complete, body_truncated, done,
                 reading>>
-----------------------------------------------------------------------------
(* The worker.                                                             *)

\* stream_worker refuses a request whose URI does not parse, and a body that
\* was cut with 413; h3_hook_access_checker refuses the rest
Verdict(unparsed) ==
  IF unparsed THEN "400"
  ELSE IF request_body_overflow THEN "413"
  ELSE IF headers_too_large THEN "431"
  ELSE IF body_truncated THEN "400" ELSE "handler"

StartRequest(unparsed) ==
  /\ worker = "start"
  /\ worker' = Verdict(unparsed)
  /\ UNCHANGED <<headerVars, bodyVars, readVars, qpackVars, body_complete, body_truncated, done,
                 reading>>

\* how many bytes a read takes of the avail ones that are left
Want(mode, readbytes) ==
  LET avail == Len(request_body) - request_body_offset
      lines == {k \in 1..avail : request_body[request_body_offset + k] \in NewLines}
  IN CASE mode \in {"READBYTES", "SPECULATIVE"} ->
            IF readbytes > 0 /\ readbytes < avail THEN readbytes ELSE avail
       [] mode = "GETLINE" -> IF lines # {} THEN Min(lines) ELSE avail
       [] mode = "EXHAUSTIVE" -> avail

OffsetAfter_Peeked(mode, want) == request_body_offset + want

\* a speculative read consumes nothing
OffsetAfter(mode, want) ==
  IF mode = "SPECULATIVE" THEN request_body_offset ELSE request_body_offset + want

\* an end of stream follows the last byte
AtEnd(offset) == offset >= Len(request_body)

\* serve_request_body
ReadBody(mode, readbytes) ==
  LET want   == Want(mode, readbytes)
      offset == OffsetAfter(mode, want)
  IN
  /\ worker = "handler"
  /\ request_body_offset' = offset
  /\ got' = IF mode = "SPECULATIVE" THEN got
            ELSE got \o SubSeq(request_body, request_body_offset + 1,
                               request_body_offset + want)
  /\ eos' = (eos \/ AtEnd(offset))
  /\ UNCHANGED <<headerVars, bodyVars, qpackVars, body_complete, body_truncated, done, reading,
                 worker>>

Modes == {"READBYTES", "SPECULATIVE", "GETLINE", "EXHAUSTIVE"}

\* the event thread's part of a request
Receive ==
  \/ BeginRead \/ (\E f, e \in BOOLEAN : EndRead(f, e)) \/ Block \/ BeginEncoder \/ EndEncoder
  \/ RecvPseudo \/ (\E o \in BOOLEAN : RecvField(o)) \/ (\E f \in BOOLEAN : EndHeaders(f))
  \/ (\E n \in 1..MaxData : RecvData(n)) \/ StopSending \/ ResetStream \/ Dispatch

RequestNext ==
  \/ Receive \/ (\E u \in BOOLEAN : StartRequest(u))
  \/ (\E m \in Modes, n \in 0..MaxData : ReadBody(m, n))

RequestSpec == RequestInit /\ [][RequestNext]_requestVars
-----------------------------------------------------------------------------
(* Properties.                                                             *)

\* on_recv_data writes inside the buffer it allocated, and the buffer never
\* grows past H3MaxRequestBodySize, whatever sizes the callbacks come in.
BufferFits ==
  Len(request_body) <= request_body_capacity /\ request_body_capacity <= MaxRequestBodySize

\* A request that was given up never reaches a worker, so the body_truncated a
\* worker reads without the lock cannot change under it.  Neither does one that
\* was found malformed, unless that was found while the encoder stream was read
\* after the request's own end: drain_one_stream looks at malformed of the
\* stream it reads.  And a handler is only ever run on a request of which
\* nothing was dropped: all the fields the peer sent are in the table, all the
\* bytes in the buffer.
ServedWhole ==
  /\ worker # "none" => ~body_truncated /\ (malformed => late /\ BlockedStreams > 0)
  /\ worker = "handler" => headers = fields /\ request_body = [k \in 1..sent |-> k]

\* The limits decide, not the way the request was cut into callbacks: 413
\* exactly for a body larger than H3MaxRequestBodySize, and no handler runs
\* on more than LimitRequestFields fields.
LimitsDecide ==
  worker \in {"handler", "413", "431"} =>
    /\ worker = "413" <=> sent > MaxRequestBodySize
    /\ worker = "handler" => ~(LimitRequestFields > 0 /\ fields > LimitRequestFields)

\* Whatever mix of reads the handler makes, what it consumed is the beginning
\* of the peer's bytes, each once and in order, and it is told of the end of
\* the body only when it has consumed all of it.
ReadsInOrder ==
  worker = "handler" =>
    /\ got = [k \in 1..request_body_offset |-> k]
    /\ eos => Len(got) = sent
=============================================================================
