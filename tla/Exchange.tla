------------------------------ MODULE Exchange ------------------------------
(***************************************************************************)
(* One request and its answer.  A worker (stream_worker, h3_request.c) has *)
(* the request of module RequestBody processed; what httpd answers comes   *)
(* down the output filter as buckets (h3_filter_out_proto, h3_filter.c)    *)
(* and ends in the stream's response queue.  With H3MaxResponseBodySize    *)
(* the filter captures the body and stream_worker queues it at the end;    *)
(* without, the filter queues it as it comes.                              *)
(*                                                                         *)
(* The bytes of an answer are numbered from 1 in the order they are        *)
(* produced.  The queue is the producer's side of module ResponsePipe,     *)
(* which module ResponseQueue implements.  A cancelled response stands for *)
(* an aborted session and a dead nghttp3 as well: both calls that look     *)
(* treat the three alike.  Subrequests pass the filter untouched.          *)
(***************************************************************************)
EXTENDS RequestBody

CONSTANTS
  MaxResponseBodySize,   \* H3MaxResponseBodySize, where it is set
  NvaCap,                \* entries of nva
  Answers,               \* what handlers answer with: status, names of fields, length
  Listed,                \* the names a Connection field lists
  MaxOut                 \* bound: bytes of an answer

ASSUME ExchangeAssumption ==
  /\ MaxResponseBodySize \in Nat \ {0} /\ NvaCap \in Nat \ {0} /\ MaxOut \in Nat
  /\ Answers \subseteq [status : {"200", "304"}, table : Seq(STRING), clength : 0..MaxOut]

VARIABLES
  build,                 \* "stable" or "devel"
  streaming,
  r,                     \* the request_rec: status, header_only, headers_out, clength
  resp,                  \* ctx->resp_status and resp_headers
  given,                 \* how many bytes were produced
  ended,                 \* the filter was given an end of stream
  fault,                 \* a bucket was unreadable, a pass failed or an error came
  dataheap, dataheapcap, response_too_large,
  response_submitted,    \* what nghttp3 was given: status and fields
  queued,                \* the bytes appended to the response queue
  rest,                  \* what a call of h3_stream_response_append has left
  response_complete, response_cancelled,
  out                    \* "none", "handler", "tail", "last", "done"

captureVars == <<dataheap, dataheapcap, response_too_large>>
startVars   == <<response_submitted, response_cancelled>>
queueVars   == <<queued, rest, response_complete>>
answerVars  == <<build, streaming, r, resp, given, ended, fault, captureVars, startVars,
                 queueVars, out>>
vars        == <<requestVars, answerVars>>

Nothing == [status |-> "none", fields |-> <<>>]
NoRequest == [status |-> "none", header_only |-> FALSE, headers_out |-> <<>>, clength |-> 0]

Init ==
  /\ RequestInit
  /\ build \in {"stable", "devel"} /\ streaming \in BOOLEAN
  /\ r = NoRequest /\ resp = Nothing /\ given = 0 /\ ended = FALSE /\ fault = FALSE
  /\ dataheap = <<>> /\ dataheapcap = 0 /\ response_too_large = FALSE
  /\ response_submitted = Nothing /\ response_cancelled = FALSE
  /\ queued = <<>> /\ rest = <<>> /\ response_complete = FALSE
  /\ out = "none"
-----------------------------------------------------------------------------
(* The header section.                                                     *)

\* AP_STATUS_IS_HEADER_ONLY
HeaderOnlyStatus(status) == status = "304"

\* apr_table_get finds the name
Has(t, k) == \E i \in DOMAIN t : t[i] = k

\* apr_table_setn for a name that is there at most once
WithField(t, k) == IF Has(t, k) THEN t ELSE Append(t, k)

\* the fields of a table that are not taken away, in their order
Without(t, S) ==
  LET kept[i \in 0..Len(t)] ==
        IF i = 0 THEN <<>>
        ELSE IF t[i] \in S THEN kept[i - 1] ELSE Append(kept[i - 1], t[i])
  IN  kept[Len(t)]

Unset_HeadOnly ==
  IF r.header_only /\ r.clength = 0 THEN {"Content-Length"} ELSE {}

\* the fields h3_response_finalize takes away
Unset ==
  (IF HeaderOnlyStatus(r.status) THEN {"Transfer-Encoding", "Content-Length"} ELSE {})
    \cup (IF r.header_only /\ r.clength = 0 THEN {"Content-Length"} ELSE {})

\* h3_response_finalize, once; on trunk httpd does the same before it makes
\* the RESPONSE bucket
h3_response_finalize ==
  IF resp # Nothing THEN resp
  ELSE [status |-> r.status,
        fields |-> WithField(WithField(Without(r.headers_out, Unset), "Date"), "Server")]

is_connection_specific(k) ==
  k \in {"Connection", "Keep-Alive", "Proxy-Connection", "Transfer-Encoding", "Upgrade", "TE"}

\* build_response_nva: :status is an entry too
build_response_nva(h) ==
  LET listed == IF Has(h.fields, "Connection") THEN Listed ELSE {}
      hop == {k \in {h.fields[i] : i \in DOMAIN h.fields} :
                is_connection_specific(k) \/ k \in listed}
      kept == Without(h.fields, hop)
  IN  [status |-> h.status,
       fields |-> SubSeq(kept, 1, Min({Len(kept), NvaCap - 1}))]

\* submit_response_nva: done already, or done now
Submitted(nva) ==
  \/ response_submitted # Nothing /\ UNCHANGED startVars
  \/ /\ response_submitted = Nothing /\ ~response_cancelled
     /\ response_submitted' = nva /\ UNCHANGED response_cancelled

\* refused, or nghttp3 fails
SubmitFails ==
  /\ response_submitted = Nothing
  /\ response_cancelled' = TRUE /\ UNCHANGED response_submitted

\* h3_response_start, with what it finds or makes of the header section
Started(h) == Submitted(build_response_nva(h))
-----------------------------------------------------------------------------
(* The worker.                                                             *)

\* stream_worker has made the request and hands it to httpd; from here on r
\* has what the handler, or the page for the verdict, answers with
Begin(unparsed, head, answer) ==
  /\ StartRequest(unparsed)
  /\ r' = [status |-> IF worker' = "handler" THEN answer.status ELSE worker',
           header_only |-> head, headers_out |-> answer.table, clength |-> answer.clength]
  /\ out' = "handler"
  /\ UNCHANGED <<build, streaming, resp, given, ended, fault, captureVars, startVars, queueVars>>

Read == (\E m \in Modes, n \in 0..MaxData : ReadBody(m, n)) /\ UNCHANGED answerVars

\* the filter is called by the worker, which is in no append of the last call
Called == out = "handler" /\ rest = <<>>

\* trunk puts a RESPONSE bucket before everything else
Announced == build = "stable" \/ resp # Nothing

\* a RESPONSE bucket (H3_DEVEL)
FilterResponse ==
  /\ Called /\ build = "devel" /\ resp = Nothing
  /\ resp' = h3_response_finalize
  /\ IF streaming THEN \/ Started(resp') /\ UNCHANGED fault
                       \/ SubmitFails /\ fault' = TRUE
                  ELSE UNCHANGED <<startVars, fault>>
  /\ UNCHANGED <<requestVars, build, streaming, r, given, ended, captureVars, queueVars, out>>

\* h3_filter_out_proto drops data (H3_STABLE), or httpd did before it (H3_DEVEL)
BodyDropped == r.header_only \/ HeaderOnlyStatus(r.status)

Produced(n) == [k \in 1..n |-> given + k]

CapAfter_OneDoubling(cap, needed) ==
  IF needed <= cap THEN cap ELSE IF cap = 0 THEN InitCap ELSE 2 * cap

\* the capture buffer doubles until the data fits
CapAfter(cap, needed) ==
  LET start == IF cap = 0 THEN InitCap ELSE 2 * cap
  IN IF needed <= cap THEN cap
     ELSE Min({start * 2^k : k \in {j \in 0..needed : start * 2^j >= needed}})

\* capture_body_bucket for n bytes
capture_body_bucket(n, readable) ==
  LET needed == Len(dataheap) + n IN
  CASE response_too_large -> UNCHANGED <<captureVars, fault>>
    [] ~response_too_large /\ ~readable -> fault' = TRUE /\ UNCHANGED captureVars
    [] ~response_too_large /\ readable /\ needed > MaxResponseBodySize ->
         response_too_large' = TRUE /\ UNCHANGED <<dataheap, dataheapcap, fault>>
    [] OTHER -> /\ dataheap' = dataheap \o Produced(n)
                /\ dataheapcap' = CapAfter(dataheapcap, needed)
                /\ UNCHANGED <<response_too_large, fault>>

\* a bucket with n bytes; a failed pass drops what follows in the brigade
FilterData(n, readable) ==
  /\ Called /\ Announced /\ ~ended /\ given + n <= MaxOut
  /\ given' = given + n
  /\ resp' = h3_response_finalize
  /\ CASE BodyDropped -> UNCHANGED <<captureVars, startVars, rest, fault>>
       [] ~BodyDropped /\ ~streaming ->
            capture_body_bucket(n, readable) /\ UNCHANGED <<startVars, rest>>
       [] ~BodyDropped /\ streaming ->
            /\ UNCHANGED captureVars
            /\ \/ /\ Started(resp')
                  /\ rest' = IF readable THEN Produced(n) ELSE <<>>
                  /\ fault' = (fault \/ ~readable)
               \/ SubmitFails /\ fault' = TRUE /\ UNCHANGED rest
  /\ UNCHANGED <<requestVars, build, streaming, r, ended, queued, response_complete, out>>

\* a FLUSH or EOS bucket
FilterMeta(eos_bucket) ==
  /\ Called /\ Announced /\ ~ended
  /\ ended' = eos_bucket
  /\ resp' = h3_response_finalize
  /\ IF streaming THEN \/ /\ Started(resp')
                          /\ response_complete' = (response_complete \/ eos_bucket)
                          /\ UNCHANGED fault
                       \/ SubmitFails /\ fault' = TRUE /\ UNCHANGED response_complete
                  ELSE UNCHANGED <<startVars, fault, response_complete>>
  /\ UNCHANGED <<requestVars, build, streaming, r, given, captureVars, queued, rest, out>>

\* an ERROR bucket: httpd starts the answer over (external), clears the header
\* table the finalized section may be, and sends a page and EOS down the filter
FilterError ==
  /\ Called /\ ~ended /\ ~fault
  /\ fault' = TRUE
  /\ r' = [r EXCEPT !.headers_out = <<>>]
  /\ resp' = IF build = "stable" /\ resp # Nothing THEN [resp EXCEPT !.fields = <<>>] ELSE resp
  /\ UNCHANGED <<requestVars, build, streaming, given, ended, captureVars, startVars,
                 queueVars, out>>

\* h3_stream_response_append queues the next n bytes
AppendChunk(n) ==
  /\ rest # <<>> /\ ~response_cancelled
  /\ queued' = queued \o SubSeq(rest, 1, n)
  /\ rest' = SubSeq(rest, n + 1, Len(rest))
  /\ UNCHANGED <<requestVars, build, streaming, r, resp, given, ended, fault, captureVars,
                 startVars, response_complete, out>>

\* it finds the response cancelled, cancels it, or cannot wait
AppendFails ==
  /\ rest # <<>>
  /\ rest' = <<>> /\ fault' = TRUE
  /\ response_cancelled' \in {response_cancelled, TRUE}
  /\ UNCHANGED <<requestVars, build, streaming, r, resp, given, ended, captureVars,
                 response_submitted, queued, response_complete, out>>

\* httpd is done with the request.  A handler that announced a length and was
\* not disturbed produced as many bytes.
HandlerReturns ==
  /\ Called /\ ended
  /\ fault \/ BodyDropped \/ given = r.clength \/ ~Has(r.headers_out, "Content-Length")
  /\ out' = "tail"
  /\ UNCHANGED <<requestVars, build, streaming, r, resp, given, ended, fault, captureVars,
                 startVars, queueVars>>

\* oversized_msg
Message == <<0, 0>>
Oversized == [status |-> "500", fields |-> <<"content-type">>]

SubmitAtEnd_Reused(h) == Submitted(build_response_nva(h))

\* the submission of stream_worker's last part
SubmitAtEnd(h) == Submitted(IF response_too_large THEN Oversized ELSE build_response_nva(h))

FinishResponse ==
  /\ out = "tail" /\ out' = "last"
  /\ resp' = IF response_too_large THEN resp ELSE h3_response_finalize
  /\ \/ /\ SubmitAtEnd(resp')
        /\ rest' = IF response_too_large THEN Message
                   ELSE IF streaming THEN <<>> ELSE dataheap
     \/ SubmitFails /\ UNCHANGED rest
  /\ UNCHANGED <<requestVars, build, streaming, r, given, ended, fault, captureVars, queued,
                 response_complete>>

CompleteWhen_AtOnce == out = "last"

\* h3_stream_response_complete, after the append
CompleteWhen == out = "last" /\ rest = <<>>

CompleteResponse ==
  /\ CompleteWhen
  /\ response_complete' = TRUE /\ out' = "done"
  /\ UNCHANGED <<requestVars, build, streaming, r, resp, given, ended, fault, captureVars,
                 startVars, queued, rest>>

\* the event thread cancels the response: the peer or the session is gone, or
\* the peer does not read
Cancel ==
  /\ out \notin {"none", "done"} /\ ~response_cancelled
  /\ response_cancelled' = TRUE
  /\ UNCHANGED <<requestVars, build, streaming, r, resp, given, ended, fault, captureVars,
                 response_submitted, queueVars, out>>

Next ==
  \/ Receive /\ UNCHANGED answerVars
  \/ (\E u, h \in BOOLEAN, a \in Answers : Begin(u, h, a)) \/ Read
  \/ FilterResponse \/ (\E n \in 1..MaxOut, b \in BOOLEAN : FilterData(n, b))
  \/ (\E b \in BOOLEAN : FilterMeta(b)) \/ FilterError
  \/ (\E n \in 1..Len(rest) : AppendChunk(n)) \/ AppendFails
  \/ HandlerReturns \/ FinishResponse \/ CompleteResponse \/ Cancel

Spec == Init /\ [][Next]_vars
-----------------------------------------------------------------------------
(* Properties.                                                             *)

\* capture_body_bucket writes inside the buffer it allocated, and a captured
\* body is never larger than H3MaxResponseBodySize nor mixed with a streamed one.
CaptureFits ==
  /\ Len(dataheap) <= dataheapcap /\ Len(dataheap) <= MaxResponseBodySize
  /\ streaming => dataheap = <<>> /\ ~response_too_large

\* What is queued is the handler's body from its beginning, in order, or the
\* oversized_msg alone.  A worker that ends undisturbed has queued all of the
\* body with the status of the verdict on the request, or, exactly if a
\* captured body is larger than H3MaxResponseBodySize, the message with a 500.
AnswerIsWhole ==
  LET body == IF BodyDropped THEN <<>> ELSE [k \in 1..given |-> k]
      oversized == response_submitted = Oversized
  IN
  /\ queued # <<>> => response_submitted # Nothing
  /\ ~fault => \/ queued = SubSeq(body, 1, Len(queued))
               \/ oversized /\ queued = SubSeq(Message, 1, Len(queued))
  /\ out = "done" /\ ~fault /\ ~response_cancelled =>
       /\ oversized <=> ~streaming /\ Len(body) > MaxResponseBodySize
       /\ ~oversized => queued = body
       /\ ~oversized => response_submitted.status \in
                          IF worker = "handler" THEN {"200", "304"} ELSE {worker}
       /\ oversized => queued = Message

\* A length announced to the peer is the length of the body it is sent,
\* except that an answer to HEAD has none and a 304 announces none.
LengthAgrees ==
  out = "done" /\ ~fault /\ ~response_cancelled
    /\ Has(response_submitted.fields, "Content-Length")
  => /\ ~HeaderOnlyStatus(response_submitted.status)
     /\ IF r.header_only THEN r.clength > 0 ELSE Len(queued) = r.clength

Pipe == INSTANCE ResponsePipe WITH
  Capacity <- MaxOut + Len(Message), written <- Len(queued), taken <- 0, ended <- FALSE,
  phase <- IF response_cancelled THEN "cut" ELSE IF response_complete THEN "closed" ELSE "open"

\* The filter and stream_worker use the queue as its consumer relies on:
\* nothing is appended to a response that was completed or cancelled,
\* although both of them append and both of them complete it.
UsesPipe == Pipe!Spec
=============================================================================
