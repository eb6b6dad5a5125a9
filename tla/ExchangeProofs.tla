--------------------------- MODULE ExchangeProofs ---------------------------
(***************************************************************************)
(* Proofs about RequestBody and Exchange, for every limit and every way in *)
(* which a request and its answer are cut into callbacks, reads, buckets   *)
(* and chunks.                                                             *)
(***************************************************************************)
EXTENDS Exchange, FiniteSetTheorems, SequenceTheorems, WellFoundedInduction, TLAPS

\* A set of naturals has a least element.
LEMMA MinIsLeast ==
  ASSUME NEW S \in SUBSET Nat, S # {}
  PROVE  Min(S) \in S /\ \A y \in S : Min(S) <= y
<1> DEFINE R == OpToRel(<, Nat)
<1>1. PICK x \in S : \A y \in S : ~(<<y, x>> \in R)
  BY NatLessThanWellFounded, WFMin, Zenon
<1>2. \A y \in Nat : y < x => <<y, x>> \in R
  BY x \in Nat, Zenon DEF OpToRel
<1> HIDE DEF R
<1>3. \A y \in S : ~(y < x)
  BY <1>1, <1>2
<1>4. \A y \in S : x <= y
  BY <1>3
<1> QED BY <1>4 DEF Min

\* The bytes 1..n, the peer's or the handler's.
Bytes(n) == [k \in 1..n |-> k]

\* They are a sequence.
LEMMA BytesSeq ==
  ASSUME NEW n \in Nat
  PROVE  /\ Bytes(n) \in Seq(Nat) /\ Len(Bytes(n)) = n
         /\ \A k \in 1..n : Bytes(n)[k] = k
  BY DEF Bytes

\* The next bytes continue them.
LEMMA BytesAppend ==
  ASSUME NEW m \in Nat, NEW n \in Nat
  PROVE  Bytes(m) \o [k \in 1..n |-> m + k] = Bytes(m + n)
<1> DEFINE s == Bytes(m)
           t == [k \in 1..n |-> m + k]
<1>1. s \in Seq(Nat) /\ Len(s) = m /\ \A k \in 1..m : s[k] = k
  BY BytesSeq
<1>2. t \in Seq(Nat) /\ Len(t) = n /\ \A k \in 1..n : t[k] = m + k
  OBVIOUS
<1>3. /\ Bytes(m + n) \in Seq(Nat) /\ Len(Bytes(m + n)) = m + n
      /\ \A k \in 1..(m + n) : Bytes(m + n)[k] = k
  BY BytesSeq
<1> HIDE DEF s, t
<1>4. s \o t \in Seq(Nat) /\ Len(s \o t) = m + n
  BY <1>1, <1>2
<1>5. \A i \in 1..(m + n) : (s \o t)[i] = IF i <= m THEN s[i] ELSE t[i - m]
  BY <1>1, <1>2, ConcatProperties
<1>6. \A i \in 1..(m + n) : (s \o t)[i] = i
  <2> SUFFICES ASSUME NEW i \in 1..(m + n) PROVE (s \o t)[i] = i
    OBVIOUS
  <2>1. CASE i <= m
    BY <1>1, <1>5, <2>1
  <2>2. CASE i > m
    <3>1. i - m \in 1..n
      BY <2>2
    <3>2. t[i - m] = m + (i - m)
      BY <1>2, <3>1
    <3>3. (s \o t)[i] = t[i - m]
      <4>1. ~(i <= m)
        BY <2>2
      <4> QED BY <1>5, <4>1, Zenon
    <3>4. m + (i - m) = i
      OBVIOUS
    <3> QED BY <3>2, <3>3, <3>4
  <2>3. i <= m \/ i > m
    OBVIOUS
  <2> QED BY <2>1, <2>2, <2>3
<1>7. s \o t = Bytes(m + n)
  BY <1>3, <1>4, <1>6, SeqEqual
<1> QED BY <1>7 DEF s, t

\* A part of them.
LEMMA BytesPart ==
  ASSUME NEW n \in Nat, NEW o \in Nat, NEW w \in Nat, o + w <= n
  PROVE  SubSeq(Bytes(n), o + 1, o + w) = [k \in 1..w |-> o + k]
<1> DEFINE s == Bytes(n)
           p == SubSeq(s, o + 1, o + w)
           q == [k \in 1..w |-> o + k]
<1>1. \A i \in (o + 1)..(o + w) : s[i] = i /\ s[i] \in Nat
  BY BytesSeq
<1>2. q \in Seq(Nat) /\ Len(q) = w /\ \A k \in 1..w : q[k] = o + k
  OBVIOUS
<1> HIDE DEF s, q
<1>3. /\ p \in Seq(Nat) /\ Len(p) = IF o + 1 <= o + w THEN (o + w) - (o + 1) + 1 ELSE 0
      /\ \A i \in 1..((o + w) - (o + 1) + 1) : p[i] = s[(o + 1) + i - 1]
  BY <1>1, SubSeqProperties
<1> HIDE DEF p
<1>4. Len(p) = w
  BY <1>3
<1>5. \A i \in 1..w : p[i] = s[o + i] /\ o + i \in (o + 1)..(o + w)
  BY <1>3
<1>6. \A i \in 1..w : p[i] = q[i]
  BY <1>1, <1>2, <1>5
<1>7. p = q
  BY <1>2, <1>3, <1>4, <1>6, SeqEqual
<1> QED BY <1>7 DEF p, q, s
-----------------------------------------------------------------------------
(* The request.                                                            *)

\* Until a field is refused the table has every field, and counts them.
FieldsInv ==
  /\ fields \in Nat /\ headers \in Nat /\ header_count \in Nat
  /\ headers_too_large \in BOOLEAN
  /\ ~headers_too_large => /\ headers = fields
                           /\ LimitRequestFields > 0 =>
                                header_count = fields /\ fields <= LimitRequestFields

\* Until the limit is passed the buffer has every byte.
BodyInv ==
  /\ sent \in Nat /\ request_body_overflow \in BOOLEAN
  /\ IF request_body_overflow THEN sent > MaxRequestBodySize
     ELSE request_body = Bytes(sent) /\ sent <= MaxRequestBodySize

\* A request that a worker has is read no more; one that was given up or
\* found malformed gets none.
StageInv ==
  /\ reading \in {"none", "own", "encoder"}
  /\ body_truncated => done
  /\ malformed => done \/ (late /\ BlockedStreams > 0) \/ reading = "own"
  /\ reading = "encoder" => BlockedStreams > 0
  /\ blocked => ~headers_complete /\ BlockedStreams > 0
  /\ worker # "none" => reading = "none" /\ ~done /\ headers_complete /\ body_complete

\* The verdict stands, and the handler has the bytes up to the offset.
ServeInv ==
  /\ worker = "handler" => ~request_body_overflow /\ ~headers_too_large
  /\ worker = "413" => request_body_overflow
  /\ worker = "431" => ~request_body_overflow
  /\ request_body_offset \in Nat /\ got = Bytes(request_body_offset)
  /\ worker = "handler" => /\ request_body_offset <= sent
                           /\ eos => request_body_offset = sent
  /\ worker # "handler" => request_body_offset = 0 /\ ~eos

RequestInv == FieldsInv /\ BodyInv /\ StageInv /\ ServeInv

\* RequestInv holds of a stream that track_stream made.
LEMMA RequestInitInv == RequestInit => RequestInv
<1>1. Bytes(0) = <<>>
  BY DEF Bytes
<1> SUFFICES ASSUME RequestInit PROVE RequestInv
  OBVIOUS
<1>3. 0 \in Nat /\ 0 <= MaxRequestBodySize /\ 0 <= LimitRequestFields
  BY RequestBodyAssumption
<1>2. FieldsInv /\ StageInv
  BY <1>3, Zenon DEF RequestInit, FieldsInv, StageInv
<1>4. BodyInv
  BY <1>1, <1>3, Zenon DEF RequestInit, BodyInv
<1>5. ServeInv
  BY <1>1, <1>3, Zenon DEF RequestInit, ServeInv
<1> QED BY <1>2, <1>4, <1>5 DEF RequestInv

\* on_recv_header keeps FieldsInv; nothing else counts or adds fields.
LEMMA FieldsStep == FieldsInv /\ [RequestNext]_requestVars => FieldsInv'
<1> SUFFICES ASSUME FieldsInv, [RequestNext]_requestVars PROVE FieldsInv'
  OBVIOUS
<1>1. ASSUME NEW o \in BOOLEAN, RecvField(o) PROVE FieldsInv'
  <2>1. CASE headers_too_large
    <3>1. headers_too_large' = TRUE
      BY <1>1, <2>1, Zenon DEF RecvField
    <3>2. fields' = fields + 1 /\ header_count' = header_count /\ headers' = headers
      BY <1>1, <2>1, Zenon DEF RecvField
    <3> QED BY <3>1, <3>2 DEF FieldsInv
  <2>2. CASE ~headers_too_large
    <3> DEFINE count == IF LimitRequestFields > 0 THEN header_count + 1 ELSE header_count
    <3>1. /\ fields' = fields + 1 /\ header_count' = count
          /\ headers_too_large' = (TooManyFields(count) \/ o)
          /\ headers' = IF TooManyFields(count) \/ o THEN headers ELSE headers + 1
      BY <1>1, <2>2, Zenon DEF RecvField
    <3>2. count \in Nat /\ LimitRequestFields \in Nat
      BY RequestBodyAssumption DEF FieldsInv
    <3>3. CASE TooManyFields(count) \/ o
      <4>1. headers_too_large' = TRUE /\ headers' = headers
        BY <3>1, <3>3, Zenon
      <4> QED BY <3>1, <3>2, <4>1 DEF FieldsInv
    <3>4. CASE ~(TooManyFields(count) \/ o)
      BY <2>2, <3>1, <3>2, <3>4 DEF FieldsInv, TooManyFields
    <3> QED BY <3>3, <3>4
  <2> QED BY <2>1, <2>2
<1>2. CASE UNCHANGED <<fields, headers, header_count, headers_too_large>>
  BY <1>2 DEF FieldsInv
<1>3. (\E o \in BOOLEAN : RecvField(o)) \/ UNCHANGED <<fields, headers, header_count, headers_too_large>>
  BY Zenon DEF RequestNext, Receive, BeginRead, EndRead, Block, BeginEncoder, EndEncoder, RecvPseudo,
     EndHeaders, RecvData, StopSending, ResetStream, Dispatch, StartRequest, ReadBody,
     requestVars, headerVars
<1> QED BY <1>1, <1>2, <1>3

\* on_recv_data keeps BodyInv; nothing else touches the buffer.
LEMMA BodyStep == BodyInv /\ [RequestNext]_requestVars => BodyInv'
<1> SUFFICES ASSUME BodyInv, [RequestNext]_requestVars PROVE BodyInv'
  OBVIOUS
<1>1. ASSUME NEW n \in 1..MaxData, RecvData(n) PROVE BodyInv'
  <2>1. n \in Nat /\ n > 0 /\ MaxRequestBodySize \in Nat /\ sent \in Nat
    BY RequestBodyAssumption DEF BodyInv
  <2>2. CASE request_body_overflow
    BY <1>1, <2>1, <2>2 DEF BodyInv, RecvData
  <2>3. CASE ~request_body_overflow
    <3>1. request_body = Bytes(sent) /\ Len(request_body) = sent
      BY <2>1, <2>3, BytesSeq DEF BodyInv
    <3>2. Bytes(sent) \o [k \in 1..n |-> sent + k] = Bytes(sent + n)
      BY <2>1, BytesAppend
    <3>3. CASE Fits(Len(request_body) + n)
      <4>1. /\ sent' = sent + n /\ request_body' = request_body \o [k \in 1..n |-> sent + k]
            /\ request_body_overflow' = request_body_overflow
        BY <1>1, <2>3, <3>3, Zenon DEF RecvData
      <4>2. request_body' = Bytes(sent')
        BY <3>1, <3>2, <4>1, Zenon
      <4>3. sent' \in Nat /\ sent' <= MaxRequestBodySize
        BY <2>1, <3>1, <3>3, <4>1 DEF Fits
      <4> QED BY <2>3, <4>1, <4>2, <4>3, Zenon DEF BodyInv
    <3>4. CASE ~Fits(Len(request_body) + n)
      <4>1. sent' = sent + n /\ request_body_overflow' = TRUE
        BY <1>1, <3>4, Zenon DEF RecvData
      <4>2. sent' > MaxRequestBodySize
        BY <2>1, <3>1, <3>4, <4>1 DEF Fits
      <4> QED BY <2>1, <4>1, <4>2 DEF BodyInv
    <3> QED BY <3>3, <3>4
  <2> QED BY <2>2, <2>3 DEF BodyInv
<1>2. CASE UNCHANGED <<sent, request_body, request_body_overflow>>
  BY <1>2 DEF BodyInv
<1>3. \/ \E n \in 1..MaxData : RecvData(n)
      \/ UNCHANGED <<sent, request_body, request_body_overflow>>
  BY Zenon DEF RequestNext, Receive, BeginRead, EndRead, Block, BeginEncoder, EndEncoder,
     RecvPseudo, RecvField, EndHeaders, StopSending, ResetStream, Dispatch, StartRequest,
     ReadBody, requestVars, bodyVars
<1> QED BY <1>1, <1>2, <1>3

\* Every step keeps StageInv: EndRead rejects what was found malformed, and
\* Dispatch is the last step of the event thread for a request.
LEMMA StageStep == StageInv /\ [RequestNext]_requestVars => StageInv'
<1> SUFFICES ASSUME StageInv, [RequestNext]_requestVars PROVE StageInv'
  OBVIOUS
<1> USE DEF StageInv
<1>1. CASE BeginRead
  BY <1>1 DEF BeginRead, headerVars, qpackVars
<1>2. ASSUME NEW f \in BOOLEAN, NEW e \in BOOLEAN, EndRead(f, e) PROVE StageInv'
  <2>1. /\ reading = "own" /\ reading' = "none"
        /\ done => done'
        /\ malformed => done'
        /\ UNCHANGED <<malformed, headers_complete, late, blocked, body_truncated, worker>>
    BY <1>2, Zenon DEF EndRead, Refused, headerVars, qpackVars
  <2> QED BY <2>1
<1>3. CASE Block
  BY <1>3 DEF Block, headerVars
<1>4. CASE BeginEncoder
  BY <1>4 DEF BeginEncoder, headerVars
<1>5. CASE EndEncoder
  BY <1>5 DEF EndEncoder, headerVars, qpackVars
<1>6. CASE RecvPseudo
  <2>1. /\ ~headers_complete /\ reading # "none"
        /\ reading = "encoder" => late'
        /\ UNCHANGED <<headers_complete, blocked, body_truncated, done, reading, worker>>
    BY <1>6, Zenon DEF RecvPseudo, Decoding
  <2> QED BY <2>1
<1>7. ASSUME NEW o \in BOOLEAN, RecvField(o) PROVE StageInv'
  <2>1. UNCHANGED <<malformed, headers_complete, late, blocked, body_complete, body_truncated,
                    done, reading, worker>>
    BY <1>7, Zenon DEF RecvField, qpackVars
  <2> QED BY <2>1
<1>8. ASSUME NEW f \in BOOLEAN, EndHeaders(f) PROVE StageInv'
  <2>1. /\ ~blocked /\ reading # "none" /\ headers_complete'
        /\ UNCHANGED <<malformed, late, blocked, body_truncated, done, reading, worker>>
    BY <1>8, Zenon DEF EndHeaders, Decoding, qpackVars
  <2> QED BY <2>1
<1>9. ASSUME NEW n \in 1..MaxData, RecvData(n) PROVE StageInv'
  <2>1. UNCHANGED <<malformed, headers_complete, late, blocked, body_complete, body_truncated,
                    done, reading, worker>>
    BY <1>9, Zenon DEF RecvData, headerVars, qpackVars
  <2> QED BY <2>1
<1>10. CASE StopSending
  BY <1>10 DEF StopSending, Decoding, headerVars, qpackVars
<1>11. CASE ResetStream
  BY <1>11 DEF ResetStream, Decoding, headerVars, qpackVars
<1>12. CASE Dispatch
  BY <1>12 DEF Dispatch, Dispatchable, headerVars, qpackVars
<1>13. ASSUME NEW u \in BOOLEAN, StartRequest(u) PROVE StageInv'
  <2>1. /\ worker = "start"
        /\ UNCHANGED <<malformed, headers_complete, late, blocked, body_complete, body_truncated,
                       done, reading>>
    BY <1>13, Zenon DEF StartRequest, headerVars, qpackVars
  <2> QED BY <2>1
<1>14. ASSUME NEW m \in Modes, NEW n \in 0..MaxData, ReadBody(m, n) PROVE StageInv'
  <2>1. UNCHANGED <<malformed, headers_complete, late, blocked, body_complete, body_truncated,
                    done, reading, worker>>
    BY <1>14, Zenon DEF ReadBody, headerVars, qpackVars
  <2> QED BY <2>1
<1>15. CASE UNCHANGED requestVars
  BY <1>15 DEF requestVars, headerVars, qpackVars
<1> QED BY <1>1, <1>2, <1>3, <1>4, <1>5, <1>6, <1>7, <1>8, <1>9, <1>10, <1>11, <1>12, <1>13,
           <1>14, <1>15, Zenon DEF RequestNext, Receive

\* A read takes no more bytes than are left.
LEMMA WantBounded ==
  ASSUME Len(request_body) \in Nat, request_body_offset \in 0..Len(request_body),
         NEW m \in Modes, NEW n \in 0..MaxData
  PROVE  Want(m, n) \in 0..(Len(request_body) - request_body_offset)
<1> DEFINE avail == Len(request_body) - request_body_offset
           lines == {k \in 1..avail : request_body[request_body_offset + k] \in NewLines}
<1>1. avail \in Nat
  OBVIOUS
<1>3. lines \subseteq 1..avail
  OBVIOUS
<1> HIDE DEF lines
<1>2. lines # {} => Min(lines) \in lines
  <2>1. lines \in SUBSET Nat
    BY <1>1, <1>3
  <2> QED BY <2>1, MinIsLeast, Zenon
<1>4. CASE m = "READBYTES" \/ m = "SPECULATIVE"
  BY <1>1, <1>4, RequestBodyAssumption DEF Want
<1>5. CASE m = "GETLINE"
  <2>1. Want(m, n) = IF lines # {} THEN Min(lines) ELSE avail
    BY <1>5 DEF Want, lines
  <2>2. CASE lines # {}
    <3>1. Want(m, n) = Min(lines) /\ Min(lines) \in 1..avail
      BY <1>2, <1>3, <2>1, <2>2, Zenon
    <3> HIDE DEF avail
    <3>2. Want(m, n) \in 0..avail
      BY <1>1, <3>1
    <3> QED BY <3>2 DEF avail
  <2>3. CASE lines = {}
    BY <1>1, <2>1, <2>3
  <2> QED BY <2>2, <2>3
<1>6. CASE m = "EXHAUSTIVE"
  BY <1>1, <1>6 DEF Want
<1> QED BY <1>4, <1>5, <1>6 DEF Modes

\* The worker's steps keep ServeInv; a step of the event thread finds no
\* worker, or changes nothing that ServeInv speaks of.
LEMMA ServeStep ==
  BodyInv /\ StageInv /\ ServeInv /\ [RequestNext]_requestVars => ServeInv'
<1> SUFFICES ASSUME BodyInv, StageInv, ServeInv, [RequestNext]_requestVars PROVE ServeInv'
  OBVIOUS
<1> DEFINE same == UNCHANGED <<request_body_overflow, headers_too_large, sent,
                               request_body_offset, got, eos>>
<1>1. ASSUME NEW u \in BOOLEAN, StartRequest(u) PROVE ServeInv'
  <2>1. worker = "start" /\ worker' = Verdict(u) /\ same
    BY <1>1, Zenon DEF StartRequest, headerVars, bodyVars, readVars
  <2>2. request_body_offset = 0 /\ ~eos /\ sent \in Nat
    BY <2>1 DEF ServeInv, BodyInv
  <2>3. worker' = "handler" => ~request_body_overflow /\ ~headers_too_large
    BY <2>1 DEF Verdict
  <2>4. worker' = "413" => request_body_overflow
    BY <2>1 DEF Verdict
  <2>5. worker' = "431" => ~request_body_overflow
    BY <2>1 DEF Verdict
  <2> QED BY <2>1, <2>2, <2>3, <2>4, <2>5 DEF ServeInv
<1>2. ASSUME NEW m \in Modes, NEW n \in 0..MaxData, ReadBody(m, n) PROVE ServeInv'
  <2> DEFINE o == request_body_offset
             w == Want(m, n)
  <2>1. /\ worker = "handler"
        /\ request_body_offset' = OffsetAfter(m, w)
        /\ got' = IF m = "SPECULATIVE" THEN got ELSE got \o SubSeq(request_body, o + 1, o + w)
        /\ eos' = (eos \/ AtEnd(OffsetAfter(m, w)))
        /\ UNCHANGED <<request_body_overflow, headers_too_large, sent, request_body, worker>>
    BY <1>2, Zenon DEF ReadBody, headerVars, bodyVars
  <2>2. /\ ~request_body_overflow /\ ~headers_too_large
        /\ o \in Nat /\ o <= sent /\ got = Bytes(o) /\ (eos => o = sent)
    BY <2>1, Zenon DEF ServeInv
  <2>3. sent \in Nat /\ request_body = Bytes(sent) /\ Len(request_body) = sent
    BY <2>2, BytesSeq DEF BodyInv
  <2>4. o \in 0..Len(request_body) /\ Len(request_body) \in Nat
    BY <2>2, <2>3
  <2>5. w \in 0..(Len(request_body) - o)
    BY <2>4, WantBounded
  <2>6. w \in Nat /\ o + w <= sent /\ o + w \in Nat
    BY <2>2, <2>3, <2>5
  <2> HIDE DEF o, w
  <2>7. CASE m = "SPECULATIVE"
    <3>1. request_body_offset' = o /\ got' = got
      BY <2>1, <2>7, Zenon DEF OffsetAfter, o
    <3>2. eos' => eos \/ o >= Len(request_body)
      BY <2>1, <2>7, Zenon DEF OffsetAfter, AtEnd, o
    <3>3. eos' => o = sent
      BY <2>2, <2>3, <3>2
    <3> QED BY <2>1, <2>2, <3>1, <3>3, Zenon DEF ServeInv
  <2>8. CASE m # "SPECULATIVE"
    <3>1. /\ request_body_offset' = o + w
          /\ got' = got \o SubSeq(request_body, o + 1, o + w)
      BY <2>1, <2>8, Zenon DEF OffsetAfter, o
    <3>2. eos' => eos \/ o + w >= Len(request_body)
      BY <2>1, <2>8, Zenon DEF OffsetAfter, AtEnd, o
    <3>3. eos' => o + w = sent
      BY <2>2, <2>3, <2>6, <3>2
    <3>4. SubSeq(Bytes(sent), o + 1, o + w) = [k \in 1..w |-> o + k]
      BY <2>2, <2>3, <2>6, BytesPart
    <3>5. got' = Bytes(o + w)
      BY <2>2, <2>3, <2>6, <3>1, <3>4, BytesAppend, Zenon
    <3> QED BY <2>1, <2>2, <2>6, <3>1, <3>3, <3>5, Zenon DEF ServeInv
  <2> QED BY <2>7, <2>8
<1>3. CASE Dispatch
  BY <1>3 DEF Dispatch, headerVars, bodyVars, readVars, ServeInv
<1>4. CASE same /\ UNCHANGED worker
  BY <1>4 DEF ServeInv
<1>5. CASE reading # "none" /\ UNCHANGED <<readVars, worker>>
  BY <1>5 DEF StageInv, ServeInv, readVars
<1>6. \/ \E u \in BOOLEAN : StartRequest(u)
      \/ \E m \in Modes, n \in 0..MaxData : ReadBody(m, n)
      \/ Dispatch \/ (same /\ UNCHANGED worker)
      \/ reading # "none" /\ UNCHANGED <<readVars, worker>>
  BY Zenon DEF RequestNext, Receive, BeginRead, EndRead, Block, BeginEncoder, EndEncoder,
     RecvPseudo, RecvField, EndHeaders, RecvData, StopSending, ResetStream, Decoding,
     requestVars, headerVars, bodyVars, readVars
<1> QED BY <1>1, <1>2, <1>3, <1>4, <1>5, <1>6

\* RequestInv is inductive.
LEMMA RequestStep == RequestInv /\ [RequestNext]_requestVars => RequestInv'
  BY FieldsStep, BodyStep, StageStep, ServeStep, Zenon DEF RequestInv

\* RequestInv is an invariant of the request, for every limit and every
\* sequence of callbacks and reads.
THEOREM RequestInvariance == RequestSpec => []RequestInv
  BY RequestInitInv, RequestStep, PTL DEF RequestSpec

\* What a handler runs on is the whole request (ServedWhole).
LEMMA InvServedWhole == RequestInv => ServedWhole
  BY Zenon DEF RequestInv, FieldsInv, BodyInv, StageInv, ServeInv, ServedWhole, Bytes

\* The limits decide, not the way the request was cut (LimitsDecide).
LEMMA InvLimitsDecide == RequestInv => LimitsDecide
<1> SUFFICES ASSUME RequestInv, worker \in {"handler", "413", "431"}
             PROVE  /\ worker = "413" <=> sent > MaxRequestBodySize
                    /\ worker = "handler" =>
                         ~(LimitRequestFields > 0 /\ fields > LimitRequestFields)
  BY DEF LimitsDecide
<1>1. sent \in Nat /\ fields \in Nat /\ MaxRequestBodySize \in Nat /\ LimitRequestFields \in Nat
  BY RequestBodyAssumption DEF RequestInv, FieldsInv, BodyInv
<1>2. request_body_overflow => sent > MaxRequestBodySize
  BY DEF RequestInv, BodyInv
<1>3. ~request_body_overflow => sent <= MaxRequestBodySize
  BY DEF RequestInv, BodyInv
<1>4. worker = "handler" => ~request_body_overflow /\ ~headers_too_large
  BY DEF RequestInv, ServeInv
<1>5. /\ worker = "413" => request_body_overflow
      /\ worker = "431" => ~request_body_overflow
  BY DEF RequestInv, ServeInv
<1>6. ~headers_too_large /\ LimitRequestFields > 0 => fields <= LimitRequestFields
  BY DEF RequestInv, FieldsInv
<1> QED BY <1>1, <1>2, <1>3, <1>4, <1>5, <1>6

\* Reads are in order and end at the end (ReadsInOrder).
LEMMA InvReadsInOrder == RequestInv => ReadsInOrder
<1> SUFFICES ASSUME RequestInv, worker = "handler"
             PROVE  /\ got = [k \in 1..request_body_offset |-> k]
                    /\ eos => Len(got) = sent
  BY DEF ReadsInOrder
<1>1. /\ request_body_offset \in Nat /\ got = Bytes(request_body_offset)
      /\ eos => request_body_offset = sent
  BY DEF RequestInv, ServeInv
<1> QED BY <1>1, BytesSeq DEF Bytes
-----------------------------------------------------------------------------
(* The request within the exchange.                                        *)

\* A step of the exchange is a step of the request or leaves it alone.
LEMMA RequestWithin == [Next]_vars => [RequestNext]_requestVars
  BY Zenon DEF Next, vars, RequestNext, Begin, Read, FilterResponse, FilterData, FilterMeta,
     FilterError, AppendChunk, AppendFails, HandlerReturns, FinishResponse, CompleteResponse,
     Cancel

\* RequestInv is an invariant of the exchange.
THEOREM RequestInvHolds == Spec => []RequestInv
<1>1. Init => RequestInv
  BY RequestInitInv, Zenon DEF Init
<1> QED BY <1>1, RequestStep, RequestWithin, PTL DEF Spec

\* drain_one_stream never dispatches a request that was given up, and a
\* handler runs only on a request of which on_recv_header and on_recv_data
\* dropped nothing.
THEOREM ServedWholeHolds == Spec => []ServedWhole
  BY RequestInvHolds, InvServedWhole, PTL

\* stream_worker and h3_hook_access_checker answer 413 exactly for a body over
\* H3MaxRequestBodySize and let no handler run on more than LimitRequestFields
\* fields.
THEOREM LimitsDecideHolds == Spec => []LimitsDecide
  BY RequestInvHolds, InvLimitsDecide, PTL

\* serve_request_body gives every byte once and in order, whatever the modes
\* and sizes of the reads, and the end of stream at the end.
THEOREM ReadsInOrderHolds == Spec => []ReadsInOrder
  BY RequestInvHolds, InvReadsInOrder, PTL
-----------------------------------------------------------------------------
(* The answer as a producer of the pipe.                                   *)

\* A call of h3_stream_response_append that has bytes left is the filter's
\* before the end of stream, or stream_worker's last; the response is not
\* complete.
PendingInv ==
  /\ rest # <<>> => \/ out = "handler" /\ ~ended /\ streaming
                    \/ out = "last" /\ ~streaming
  /\ response_complete => (streaming /\ ended) \/ out = "done"
  /\ streaming => ~response_too_large
  /\ worker \in {"none", "start"} => out = "none"

\* A call of the append leaves no more in the queue than the answer has.
SizeInv ==
  /\ given \in Nat /\ given <= MaxOut
  /\ queued \in Seq(Nat) /\ rest \in Seq(Nat) /\ dataheap \in Seq(Nat)
  /\ Len(dataheap) <= given
  /\ streaming => Len(queued) + Len(rest) <= given
  /\ ~streaming => Len(queued) + Len(rest) <= MaxOut + 2
  /\ ~streaming /\ out \notin {"last", "done"} => queued = <<>>

\* Both hold at the beginning.
LEMMA PipeInitInv == Init => PendingInv /\ SizeInv
<1> SUFFICES ASSUME Init PROVE PendingInv /\ SizeInv
  OBVIOUS
<1>1. PendingInv
  BY DEF Init, RequestInit, PendingInv
<1>2. <<>> \in Seq(Nat) /\ Len(<<>>) = 0 /\ MaxOut \in Nat
  BY ExchangeAssumption
<1> QED BY <1>1, <1>2 DEF Init, SizeInv

\* Every step keeps PendingInv.
LEMMA PendingStep == PendingInv /\ [Next]_vars => PendingInv'
<1> SUFFICES ASSUME PendingInv, [Next]_vars PROVE PendingInv'
  OBVIOUS
<1> USE DEF PendingInv
<1>1. CASE UNCHANGED answerVars /\ (Receive \/ UNCHANGED worker)
  <2>1. UNCHANGED <<streaming, ended, response_too_large, rest, response_complete, out>>
    BY <1>1, Zenon DEF answerVars, captureVars, queueVars
  <2>2. worker' = worker \/ (worker = "none" /\ worker' = "start")
    BY <1>1, Zenon DEF Receive, BeginRead, EndRead, Block, BeginEncoder, EndEncoder, RecvPseudo,
       RecvField, EndHeaders, RecvData, StopSending, ResetStream, Dispatch
  <2> QED BY <2>1, <2>2
<1>2. ASSUME NEW u, NEW h, NEW a, Begin(u, h, a) PROVE PendingInv'
  <2>1. /\ UNCHANGED <<streaming, ended, response_too_large, rest, response_complete>>
        /\ worker = "start" /\ worker' = Verdict(u)
    BY <1>2, Zenon DEF Begin, StartRequest, captureVars, queueVars
  <2>2. Verdict(u) \notin {"none", "start"}
    BY DEF Verdict
  <2> QED BY <2>1, <2>2
<1>3. CASE FilterResponse
  <2>1. UNCHANGED <<streaming, ended, response_too_large, rest, response_complete, out, worker>>
    BY <1>3, Zenon DEF FilterResponse, captureVars, queueVars, requestVars
  <2> QED BY <2>1
<1>4. ASSUME NEW n, NEW b, FilterData(n, b) PROVE PendingInv'
  <2>1. /\ UNCHANGED <<streaming, ended, response_complete, out, worker>>
        /\ out = "handler" /\ ~ended /\ rest = <<>>
        /\ streaming \/ rest' = rest
        /\ streaming => response_too_large' = response_too_large
    BY <1>4, Zenon DEF FilterData, Called, captureVars, requestVars
  <2> QED BY <2>1
<1>5. ASSUME NEW b \in BOOLEAN, FilterMeta(b) PROVE PendingInv'
  <2>1. /\ UNCHANGED <<streaming, response_too_large, rest, out, worker>>
        /\ out = "handler" /\ ~ended /\ rest = <<>>
        /\ ended' = b /\ (response_complete' => response_complete \/ (streaming /\ b))
    BY <1>5, Zenon DEF FilterMeta, Called, captureVars, requestVars
  <2> QED BY <2>1
<1>6. CASE FilterError \/ Cancel
  <2>1. UNCHANGED <<streaming, ended, response_too_large, rest, response_complete, out, worker>>
    BY <1>6, Zenon DEF FilterError, Cancel, captureVars, queueVars, requestVars
  <2> QED BY <2>1
<1>7. ASSUME NEW n, AppendChunk(n) \/ AppendFails PROVE PendingInv'
  <2>1. /\ UNCHANGED <<streaming, ended, response_too_large, response_complete, out, worker>>
        /\ rest # <<>>
    BY <1>7, Zenon DEF AppendChunk, AppendFails, captureVars, requestVars
  <2> QED BY <2>1
<1>8. CASE HandlerReturns
  <2>1. /\ UNCHANGED <<streaming, ended, response_too_large, rest, response_complete, worker>>
        /\ rest = <<>> /\ out = "handler" /\ out' = "tail"
    BY <1>8, Zenon DEF HandlerReturns, Called, captureVars, queueVars, requestVars
  <2> QED BY <2>1
<1>9. CASE FinishResponse
  <2>1. /\ UNCHANGED <<streaming, ended, response_too_large, response_complete, worker>>
        /\ out = "tail" /\ out' = "last"
        /\ rest' = rest \/ response_too_large \/ ~streaming \/ rest' = <<>>
    BY <1>9, Zenon DEF FinishResponse, captureVars, requestVars
  <2> QED BY <2>1
<1>10. CASE CompleteResponse
  BY <1>10 DEF CompleteResponse, CompleteWhen, captureVars, requestVars
<1>11. CASE UNCHANGED vars
  BY <1>1, <1>11, Zenon DEF vars, requestVars
<1>12. CASE Read
  BY <1>1, <1>12, Zenon DEF Read, ReadBody
<1> QED BY <1>1, <1>2, <1>3, <1>4, <1>5, <1>6, <1>7, <1>8, <1>9, <1>10, <1>11, <1>12, Zenon
        DEF Next

\* The first n elements of a sequence and the others.
LEMMA SplitSeq ==
  ASSUME NEW s \in Seq(Nat), NEW n \in 1..Len(s)
  PROVE  /\ SubSeq(s, 1, n) \in Seq(Nat) /\ Len(SubSeq(s, 1, n)) = n
         /\ SubSeq(s, n + 1, Len(s)) \in Seq(Nat) /\ Len(SubSeq(s, n + 1, Len(s))) = Len(s) - n
  OBVIOUS

\* The bytes of a bucket.
LEMMA ProducedSeq ==
  ASSUME given \in Nat, NEW n \in Nat
  PROVE  Produced(n) \in Seq(Nat) /\ Len(Produced(n)) = n
  BY DEF Produced

\* Every step keeps SizeInv.
LEMMA SizeStep == PendingInv /\ SizeInv /\ [Next]_vars => SizeInv'
<1> SUFFICES ASSUME PendingInv, SizeInv, [Next]_vars PROVE SizeInv'
  OBVIOUS
<1> DEFINE ending == out \in {"last", "done"}
<1>1. CASE /\ UNCHANGED <<streaming, given, queued, rest, dataheap>>
           /\ ending => ending'
  BY <1>1 DEF SizeInv
<1>2. ASSUME NEW n \in 1..MaxOut, NEW b, FilterData(n, b) PROVE SizeInv'
  <2>1. /\ given' = given + n /\ given + n <= MaxOut /\ rest = <<>>
        /\ UNCHANGED <<streaming, queued, out>>
    BY <1>2, Zenon DEF FilterData, Called
  <2>2. /\ rest' = rest \/ (streaming /\ rest' = Produced(n)) \/ (streaming /\ rest' = <<>>)
        /\ dataheap' = dataheap \/ dataheap' = dataheap \o Produced(n)
    BY <1>2, Zenon DEF FilterData, capture_body_bucket, captureVars
  <2>3. given \in Nat /\ n \in Nat /\ MaxOut \in Nat /\ Len(<<>>) = 0 /\ <<>> \in Seq(Nat)
    BY ExchangeAssumption DEF SizeInv
  <2>4. Produced(n) \in Seq(Nat) /\ Len(Produced(n)) = n
    BY <2>3, ProducedSeq
  <2>5. /\ queued \in Seq(Nat) /\ rest \in Seq(Nat) /\ dataheap \in Seq(Nat)
        /\ Len(queued) \in Nat /\ Len(rest) \in Nat /\ Len(dataheap) \in Nat
    BY DEF SizeInv
  <2>6. dataheap' \in Seq(Nat) /\ Len(dataheap') <= given + n
    <3>1. CASE dataheap' = dataheap
      BY <2>3, <2>5, <3>1 DEF SizeInv
    <3>2. CASE dataheap' = dataheap \o Produced(n)
      <4>1. dataheap' \in Seq(Nat) /\ Len(dataheap') = Len(dataheap) + n
        BY <2>4, <2>5, <3>2, ConcatProperties
      <4> QED BY <2>3, <2>5, <4>1 DEF SizeInv
    <3> QED BY <2>2, <3>1, <3>2
  <2>7. rest' \in Seq(Nat) /\ Len(rest') <= n /\ (~streaming => rest' = <<>>) /\ Len(rest') \in Nat
    <3>1. CASE rest' = <<>>
      BY <2>3, <3>1
    <3>2. CASE streaming /\ rest' = Produced(n)
      BY <2>3, <2>4, <3>2
    <3> QED BY <2>1, <2>2, <3>1, <3>2
  <2>8. streaming => Len(queued) <= given
    BY <2>1, <2>3, <2>5 DEF SizeInv
  <2>9. ~streaming => Len(queued) + Len(rest') <= MaxOut + 2
    BY <2>1, <2>3, <2>5, <2>7 DEF SizeInv
  <2>10. ~streaming /\ ~ending' => queued' = <<>>
    BY <2>1 DEF SizeInv
  <2>11. streaming => Len(queued) + Len(rest') <= given + n
    BY <2>3, <2>5, <2>7, <2>8
  <2>12. given + n \in Nat
    BY <2>3
  <2> QED BY <2>1, <2>5, <2>6, <2>7, <2>9, <2>10, <2>11, <2>12, Zenon DEF SizeInv
<1>3. ASSUME NEW n \in 1..Len(rest), AppendChunk(n) PROVE SizeInv'
  <2>1. /\ rest # <<>>
        /\ queued' = queued \o SubSeq(rest, 1, n) /\ rest' = SubSeq(rest, n + 1, Len(rest))
        /\ UNCHANGED <<streaming, given, dataheap, out>>
    BY <1>3, Zenon DEF AppendChunk, captureVars
  <2>2. /\ queued \in Seq(Nat) /\ rest \in Seq(Nat)
        /\ Len(queued) \in Nat /\ Len(rest) \in Nat /\ n \in Nat
    BY DEF SizeInv
  <2>3. queued' \in Seq(Nat) /\ rest' \in Seq(Nat)
    BY <2>1, <2>2, SplitSeq
  <2>4. Len(queued') = Len(queued) + n /\ Len(rest') = Len(rest) - n
    BY <2>1, <2>2, SplitSeq
  <2>5. Len(queued') + Len(rest') = Len(queued) + Len(rest)
    BY <2>2, <2>4
  <2>6. ~streaming => ending'
    BY <2>1 DEF PendingInv
  <2> QED BY <2>1, <2>3, <2>5, <2>6, Zenon DEF SizeInv
<1>4. CASE AppendFails
  <2>1. rest' = <<>> /\ UNCHANGED <<streaming, given, queued, dataheap, out>>
    BY <1>4, Zenon DEF AppendFails, captureVars
  <2>2. /\ Len(queued) \in Nat /\ Len(rest) \in Nat
        /\ <<>> \in Seq(Nat) /\ Len(<<>>) = 0
    BY DEF SizeInv
  <2>3. Len(queued) + Len(rest') <= Len(queued) + Len(rest)
    BY <2>1, <2>2
  <2>4. given \in Nat /\ MaxOut \in Nat
    BY ExchangeAssumption DEF SizeInv
  <2> QED BY <2>1, <2>2, <2>3, <2>4 DEF SizeInv
<1>5. CASE FinishResponse
  <2>1. /\ out = "tail" /\ out' = "last" /\ UNCHANGED <<streaming, given, queued, dataheap>>
        /\ rest' = rest \/ (response_too_large /\ rest' = Message) \/ rest' = <<>>
             \/ (~streaming /\ rest' = dataheap)
    BY <1>5, Zenon DEF FinishResponse, captureVars
  <2>2. ~streaming => queued = <<>>
    BY <2>1 DEF SizeInv
  <2>3. Message \in Seq(Nat) /\ Len(Message) = 2 /\ <<>> \in Seq(Nat) /\ Len(<<>>) = 0
    BY DEF Message
  <2>4. rest = <<>> /\ (streaming => ~response_too_large)
    BY <2>1 DEF PendingInv
  <2>5. /\ given \in Nat /\ MaxOut \in Nat /\ given <= MaxOut /\ dataheap \in Seq(Nat)
        /\ Len(dataheap) \in Nat /\ Len(dataheap) <= given /\ Len(queued) \in Nat
        /\ queued \in Seq(Nat)
    BY ExchangeAssumption DEF SizeInv
  <2>6. streaming => Len(queued) <= given
    BY <2>3, <2>4, <2>5 DEF SizeInv
  <2>7. rest' \in Seq(Nat) /\ Len(rest') <= MaxOut + 2 /\ Len(rest') \in Nat
    <3>1. CASE rest' = Message
      <4>1. rest' \in Seq(Nat) /\ Len(rest') = 2
        BY <2>3, <3>1, Zenon
      <4> QED BY <2>5, <4>1
    <3>2. CASE rest' = <<>>
      BY <2>3, <2>5, <3>2
    <3>3. CASE rest' = dataheap
      BY <2>5, <3>3
    <3> QED BY <2>1, <2>4, <3>1, <3>2, <3>3
  <2>8. streaming => rest' = <<>>
    BY <2>1, <2>4
  <2>9. streaming => Len(queued) + Len(rest') <= given
    BY <2>3, <2>5, <2>6, <2>8
  <2>10. ~streaming => Len(queued) + Len(rest') <= MaxOut + 2
    BY <2>2, <2>3, <2>7
  <2> QED BY <2>1, <2>5, <2>7, <2>9, <2>10, Zenon DEF SizeInv
<1>6. \/ UNCHANGED <<streaming, given, queued, rest, dataheap>> /\ (ending => ending')
      \/ \E n \in 1..MaxOut, b \in BOOLEAN : FilterData(n, b)
      \/ \E n \in 1..Len(rest) : AppendChunk(n)
      \/ AppendFails \/ FinishResponse
  <2>1. CASE \E u, h \in BOOLEAN, a \in Answers : Begin(u, h, a)
    <3>1. worker = "start" /\ UNCHANGED <<streaming, given, queued, rest, dataheap>>
      BY <2>1, Zenon DEF Begin, StartRequest, captureVars, queueVars
    <3> QED BY <3>1 DEF PendingInv
  <2>2. CASE HandlerReturns
    <3>1. out = "handler" /\ UNCHANGED <<streaming, given, queued, rest, dataheap>>
      BY <2>2, Zenon DEF HandlerReturns, Called, captureVars, queueVars
    <3> QED BY <3>1
  <2>3. CASE CompleteResponse
    <3>1. out' = "done" /\ UNCHANGED <<streaming, given, queued, rest, dataheap>>
      BY <2>3, Zenon DEF CompleteResponse, captureVars
    <3> QED BY <3>1
  <2>4. CASE \/ UNCHANGED answerVars \/ FilterResponse \/ \E b \in BOOLEAN : FilterMeta(b)
             \/ FilterError \/ Cancel
    <3>1. UNCHANGED <<streaming, given, queued, rest, dataheap, out>>
      BY <2>4, Zenon DEF FilterResponse, FilterMeta, FilterError, Cancel, answerVars, captureVars,
         queueVars
    <3> QED BY <3>1
  <2> QED BY <2>1, <2>2, <2>3, <2>4, Zenon DEF Next, Read, vars
<1> QED BY <1>1, <1>2, <1>3, <1>4, <1>5, <1>6

\* The filter and stream_worker append only to a response that is neither
\* complete nor cancelled, and only as much as the answer has; a response that
\* was completed or cancelled stays so.
THEOREM UsesPipeHolds == Spec => UsesPipe
<1>1. Init => Pipe!Init
  <2>1. Len(<<>>) = 0
    OBVIOUS
  <2> QED BY <2>1 DEF Init, Pipe!Init
<1>2. ASSUME PendingInv, SizeInv, [Next]_vars
      PROVE  [Pipe!Next]_(Pipe!pipeVars)
  <2>1. CASE \E n \in 1..Len(rest) : AppendChunk(n)
    <3>1. PICK n \in 1..Len(rest) : AppendChunk(n)
      BY <2>1
    <3>2. /\ rest # <<>> /\ ~response_cancelled
          /\ queued' = queued \o SubSeq(rest, 1, n)
          /\ UNCHANGED <<response_complete, response_cancelled>>
      BY <3>1, Zenon DEF AppendChunk, startVars
    <3>3. ~response_complete
      BY <1>2, <3>2 DEF PendingInv
    <3>4. /\ queued \in Seq(Nat) /\ rest \in Seq(Nat) /\ n \in Nat /\ n <= Len(rest) /\ n > 0
          /\ Len(queued) \in Nat /\ Len(rest) \in Nat
      BY <1>2 DEF SizeInv
    <3>5. Len(queued') = Len(queued) + n
      BY <3>2, <3>4, SplitSeq, ConcatProperties
    <3>6. Len(queued) + Len(rest) <= MaxOut + 2 /\ MaxOut \in Nat /\ Len(Message) = 2
      BY <1>2, <3>4, ExchangeAssumption DEF SizeInv, Message
    <3>7. n \in 1..(MaxOut + Len(Message)) /\ Len(queued) + n - 0 <= MaxOut + Len(Message)
      BY <3>4, <3>6
    <3>8. Pipe!Write(n)
      BY <3>2, <3>3, <3>5, <3>7, Zenon DEF Pipe!Write
    <3> QED BY <3>7, <3>8, Zenon DEF Pipe!Next
  <2>2. CASE /\ queued' = queued
             /\ response_cancelled => response_cancelled'
             /\ response_complete => response_complete'
    <3>1. CASE response_cancelled'
      <4>1. Pipe!Cut
        BY <2>2, <3>1, Zenon DEF Pipe!Cut
      <4> QED BY <4>1, Zenon DEF Pipe!Next
    <3>2. CASE ~response_cancelled' /\ (response_complete \/ ~response_complete')
      BY <2>2, <3>2, Zenon DEF Pipe!pipeVars
    <3>3. CASE ~response_cancelled' /\ ~response_complete /\ response_complete'
      <4>1. Pipe!Close
        BY <2>2, <3>3, Zenon DEF Pipe!Close
      <4> QED BY <4>1, Zenon DEF Pipe!Next
    <3> QED BY <3>1, <3>2, <3>3, Zenon
  <2>3. \/ \E n \in 1..Len(rest) : AppendChunk(n)
        \/ /\ queued' = queued
           /\ response_cancelled => response_cancelled'
           /\ response_complete => response_complete'
    <3>1. CASE \E n \in 1..MaxOut, b \in BOOLEAN : FilterData(n, b)
      <4>1. PICK n \in 1..MaxOut, b \in BOOLEAN : FilterData(n, b)
        BY <3>1
      <4>2. UNCHANGED startVars \/ Started(resp') \/ SubmitFails
        BY <4>1, Zenon DEF FilterData
      <4>3. response_cancelled => response_cancelled'
        BY <4>2, Zenon DEF Started, Submitted, SubmitFails, startVars
      <4>4. UNCHANGED <<queued, response_complete>>
        BY <4>1, Zenon DEF FilterData
      <4> QED BY <4>3, <4>4
    <3>2. CASE FilterResponse \/ \E b \in BOOLEAN : FilterMeta(b)
      BY <3>2, Zenon DEF FilterResponse, FilterMeta, Started, Submitted, SubmitFails, startVars,
         queueVars
    <3>3. CASE FinishResponse
      BY <3>3, Zenon DEF FinishResponse, SubmitAtEnd, Submitted, SubmitFails, startVars
    <3>4. CASE AppendFails
      BY <3>4, Zenon DEF AppendFails
    <3>5. CASE \/ UNCHANGED answerVars \/ FilterError \/ HandlerReturns \/ CompleteResponse \/ Cancel
               \/ \E u, h \in BOOLEAN, a \in Answers : Begin(u, h, a)
      BY <3>5, Zenon DEF FilterError, HandlerReturns, CompleteResponse, Cancel, Begin, answerVars,
         startVars, queueVars
    <3> QED BY <1>2, <3>1, <3>2, <3>3, <3>4, <3>5, Zenon DEF Next, Read, vars
  <2> QED BY <2>1, <2>2, <2>3
<1>3. Spec => [](PendingInv /\ SizeInv)
  BY PipeInitInv, PendingStep, SizeStep, PTL DEF Spec
<1> QED BY <1>1, <1>2, <1>3, PTL DEF Spec, UsesPipe, Pipe!Spec
-----------------------------------------------------------------------------
(* The answer's content.                                                   *)

\* What the worker answers with is of the verdict's status, and so is what it
\* gave nghttp3, unless that is the 500 of stream_worker.
StatusInv ==
  /\ out # "none" => /\ worker \in {"handler", "400", "413", "431"}
                     /\ r.status \in IF worker = "handler" THEN {"200", "304"} ELSE {worker}
                     /\ "status" \in DOMAIN r
  /\ resp # Nothing => out # "none" /\ resp.status = r.status /\ "status" \in DOMAIN resp
  /\ response_submitted # Nothing =>
       out # "none" /\ (response_submitted = Oversized \/ response_submitted.status = r.status)

\* h3_response_finalize has the request's status.
LEMMA FinalStatus ==
  ASSUME StatusInv, out # "none"
  PROVE  /\ h3_response_finalize # Nothing
         /\ h3_response_finalize.status = r.status
         /\ "status" \in DOMAIN h3_response_finalize
<1>1. CASE resp # Nothing
  BY <1>1 DEF StatusInv, h3_response_finalize
<1>2. CASE resp = Nothing
  <2> DEFINE fs == WithField(WithField(Without(r.headers_out, Unset), "Date"), "Server")
  <2>1. h3_response_finalize = [status |-> r.status, fields |-> fs]
    BY <1>2, Zenon DEF h3_response_finalize
  <2> HIDE DEF fs
  <2>2. r.status # "none"
    BY DEF StatusInv
  <2> QED BY <2>1, <2>2 DEF Nothing
<1> QED BY <1>1, <1>2

\* So has what build_response_nva makes of it.
LEMMA BuiltStatus ==
  ASSUME StatusInv, out # "none", NEW h, h.status = r.status
  PROVE  /\ build_response_nva(h).status = r.status
         /\ build_response_nva(h) # Nothing /\ build_response_nva(h) # Oversized
<1>1. \E x : build_response_nva(h) = [status |-> h.status, fields |-> x]
  BY Zenon DEF build_response_nva
<1>2. PICK x : build_response_nva(h) = [status |-> h.status, fields |-> x]
  BY <1>1
<1>3. r.status # "none" /\ r.status # "500"
  BY DEF StatusInv
<1> QED BY <1>2, <1>3 DEF Nothing, Oversized

\* Every step keeps StatusInv.
LEMMA StatusStep == PendingInv /\ StatusInv /\ [Next]_vars => StatusInv'
<1> SUFFICES ASSUME PendingInv, StatusInv, [Next]_vars PROVE StatusInv'
  OBVIOUS
<1>1. CASE /\ UNCHANGED <<r, out, resp, response_submitted>>
           /\ worker' = worker \/ (worker = "none" /\ worker' = "start")
  BY <1>1 DEF StatusInv
<1>2. ASSUME NEW u \in BOOLEAN, NEW h \in BOOLEAN, NEW a \in Answers, Begin(u, h, a) PROVE StatusInv'
  <2>1. /\ worker = "start" /\ worker' = Verdict(u) /\ out' = "handler"
        /\ r' = [status |-> IF worker' = "handler" THEN a.status ELSE worker',
                 header_only |-> h, headers_out |-> a.table, clength |-> a.clength]
        /\ UNCHANGED <<resp, response_submitted>>
    BY <1>2, Zenon DEF Begin, StartRequest, startVars
  <2>2. resp = Nothing /\ response_submitted = Nothing
    BY <2>1 DEF PendingInv, StatusInv
  <2>3. Verdict(u) \in {"handler", "400", "413", "431"}
    BY DEF Verdict
  <2>4. a.status \in {"200", "304"}
    BY ExchangeAssumption
  <2>5. /\ r'.status = IF worker' = "handler" THEN a.status ELSE worker'
        /\ "status" \in DOMAIN r'
    BY <2>1
  <2> QED BY <2>1, <2>2, <2>3, <2>4, <2>5 DEF StatusInv
<1>3. CASE /\ out # "none" /\ out' # "none" /\ UNCHANGED <<r, worker>>
           /\ resp' = h3_response_finalize \/ resp' = resp
           /\ \/ response_submitted' = response_submitted
              \/ response_submitted' = Oversized
              \/ resp' = h3_response_finalize /\ response_submitted' = build_response_nva(resp')
  <2> DEFINE f == h3_response_finalize
  <2>1. f.status = r.status /\ "status" \in DOMAIN f
    BY <1>3, FinalStatus
  <2>2. build_response_nva(f).status = r.status
    BY <1>3, <2>1, BuiltStatus
  <2> HIDE DEF f
  <2>3. resp' # Nothing => resp'.status = r.status /\ "status" \in DOMAIN resp'
    <3>1. CASE resp' = f
      BY <2>1, <3>1
    <3>2. CASE resp' = resp
      BY <3>2 DEF StatusInv
    <3> QED BY <1>3, <3>1, <3>2 DEF f
  <2>4. resp' = h3_response_finalize /\ response_submitted' = build_response_nva(resp') =>
          response_submitted'.status = r.status
    BY <2>2 DEF f
  <2> QED BY <1>3, <2>3, <2>4, Zenon DEF StatusInv
<1>4. CASE FilterError
  <2>1. /\ UNCHANGED <<worker, out, response_submitted>> /\ out = "handler"
        /\ r' = [r EXCEPT !.headers_out = <<>>]
        /\ resp' = IF build = "stable" /\ resp # Nothing THEN [resp EXCEPT !.fields = <<>>] ELSE resp
    BY <1>4, Zenon DEF FilterError, Called, startVars, requestVars
  <2>2. r'.status = r.status /\ "status" \in DOMAIN r'
    BY <2>1 DEF StatusInv
  <2>3. resp' # Nothing => resp'.status = r.status /\ "status" \in DOMAIN resp'
    <3>1. CASE resp = Nothing
      BY <2>1, <3>1
    <3>2. CASE resp # Nothing
      BY <2>1, <3>2 DEF StatusInv
    <3> QED BY <3>1, <3>2
  <2> QED BY <2>1, <2>2, <2>3, Zenon DEF StatusInv
<1>5. CASE \/ (Receive /\ UNCHANGED answerVars) \/ Read \/ Cancel \/ AppendFails
           \/ \E n \in 1..Len(rest) : AppendChunk(n)
  <2>1. UNCHANGED <<r, out, resp, response_submitted>>
    BY <1>5, Zenon DEF Read, Cancel, AppendFails, AppendChunk, answerVars, startVars
  <2>2. worker' = worker \/ (worker = "none" /\ worker' = "start")
    BY <1>5, Zenon DEF Read, ReadBody, Cancel, AppendFails, AppendChunk, requestVars, Receive,
       BeginRead, EndRead, Block, BeginEncoder, EndEncoder, RecvPseudo, RecvField, EndHeaders,
       RecvData, StopSending, ResetStream, Dispatch
  <2> QED BY <1>1, <2>1, <2>2
<1>6. CASE \/ FilterResponse \/ (\E n \in 1..MaxOut, b \in BOOLEAN : FilterData(n, b))
           \/ \E b \in BOOLEAN : FilterMeta(b)
  <2>1. /\ out = "handler" /\ UNCHANGED <<r, worker, out>> /\ resp' = h3_response_finalize
        /\ UNCHANGED startVars \/ Started(resp') \/ SubmitFails
    BY <1>6, Zenon DEF FilterResponse, FilterData, FilterMeta, Called, requestVars
  <2>2. \/ response_submitted' = response_submitted
        \/ response_submitted' = build_response_nva(resp')
    BY <2>1, Zenon DEF Started, Submitted, SubmitFails, startVars
  <2> QED BY <1>3, <2>1, <2>2
<1>7. CASE FinishResponse
  <2>1. /\ out = "tail" /\ out' = "last" /\ UNCHANGED <<r, worker>>
        /\ resp' = IF response_too_large THEN resp ELSE h3_response_finalize
        /\ SubmitAtEnd(resp') \/ SubmitFails
    BY <1>7, Zenon DEF FinishResponse, requestVars
  <2>2. \/ response_submitted' = response_submitted
        \/ response_submitted' = IF response_too_large THEN Oversized ELSE build_response_nva(resp')
    BY <2>1, Zenon DEF SubmitAtEnd, Submitted, SubmitFails, startVars
  <2> QED BY <1>3, <2>1, <2>2
<1>8. CASE HandlerReturns \/ CompleteResponse
  <2>1. /\ out # "none" /\ out' # "none" /\ UNCHANGED <<r, worker, resp, response_submitted>>
    BY <1>8 DEF HandlerReturns, CompleteResponse, Called, CompleteWhen, requestVars, startVars
  <2> QED BY <1>3, <2>1
<1>9. CASE UNCHANGED vars
  BY <1>1, <1>9, Zenon DEF vars, requestVars, answerVars, startVars
<1> QED BY <1>2, <1>4, <1>5, <1>6, <1>7, <1>8, <1>9, Zenon DEF Next

\* nghttp3 is given a header section before the first byte, by stream_worker
\* at the end at the latest, and the 500 exactly for a captured body that is
\* too large.
SubmitInv ==
  /\ out = "none" => /\ given = 0 /\ queued = <<>> /\ rest = <<>> /\ dataheap = <<>>
                     /\ ~response_too_large
  /\ rest # <<>> \/ queued # <<>> => response_submitted # Nothing
  /\ out \notin {"last", "done"} => /\ response_submitted # Oversized
                                    /\ ~streaming => response_submitted = Nothing
  /\ out \in {"last", "done"} =>
       /\ ~response_cancelled => response_submitted # Nothing
       /\ response_submitted # Nothing => (response_submitted = Oversized <=> response_too_large)

\* What one call of submit_response_nva from the filter does.
LEMMA FilterSubmits ==
  ASSUME StatusInv, out # "none", resp' = h3_response_finalize, Started(resp') \/ SubmitFails
  PROVE  /\ response_submitted' \in {response_submitted, build_response_nva(resp')}
         /\ response_submitted' = Oversized => response_submitted = Oversized
         /\ response_submitted # Nothing => response_submitted' # Nothing
         /\ Started(resp') => response_submitted' # Nothing
<1>1. build_response_nva(resp') # Nothing /\ build_response_nva(resp') # Oversized
  BY FinalStatus, BuiltStatus
<1> QED BY <1>1, Zenon DEF Started, Submitted, SubmitFails, startVars

\* StatusInv and SubmitInv hold at the beginning.
LEMMA SubmitInitInv == Init => StatusInv /\ SubmitInv
  BY DEF Init, RequestInit, StatusInv, SubmitInv, Nothing, Oversized

\* Every step keeps SubmitInv.
LEMMA SubmitStep == PendingInv /\ StatusInv /\ SubmitInv /\ [Next]_vars => SubmitInv'
<1> SUFFICES ASSUME PendingInv, StatusInv, SubmitInv, [Next]_vars PROVE SubmitInv'
  OBVIOUS
<1> DEFINE data == <<streaming, given, queued, rest, dataheap, response_too_large, response_submitted>>
<1>1. CASE UNCHANGED <<data, out>> /\ (response_cancelled => response_cancelled')
  BY <1>1 DEF SubmitInv
<1>2. ASSUME NEW u \in BOOLEAN, NEW h \in BOOLEAN, NEW a \in Answers, Begin(u, h, a) PROVE SubmitInv'
  <2>1. worker = "start" /\ out' = "handler" /\ UNCHANGED data
    BY <1>2, Zenon DEF Begin, StartRequest, captureVars, startVars, queueVars
  <2>2. out = "none"
    BY <2>1 DEF PendingInv
  <2> QED BY <2>1, <2>2 DEF SubmitInv, StatusInv
<1>3. CASE FilterResponse \/ \E b \in BOOLEAN : FilterMeta(b)
  <2>1. /\ out = "handler" /\ resp' = h3_response_finalize /\ rest = <<>>
        /\ UNCHANGED <<streaming, out, given, queued, rest, dataheap, response_too_large>>
        /\ IF streaming THEN Started(resp') \/ SubmitFails ELSE UNCHANGED startVars
    BY <1>3, Zenon DEF FilterResponse, FilterMeta, Called, captureVars, queueVars
  <2>2. CASE streaming
    <3>1. /\ response_submitted' = Oversized => response_submitted = Oversized
          /\ response_submitted # Nothing => response_submitted' # Nothing
      BY <2>1, <2>2, FilterSubmits
    <3> QED BY <2>1, <2>2, <3>1 DEF SubmitInv
  <2>3. CASE ~streaming
    BY <2>1, <2>3 DEF SubmitInv, startVars
  <2> QED BY <2>2, <2>3
<1>4. CASE \E n \in 1..MaxOut, b \in BOOLEAN : FilterData(n, b)
  <2>1. PICK n \in 1..MaxOut, b \in BOOLEAN : FilterData(n, b)
    BY <1>4
  <2>2. /\ out = "handler" /\ resp' = h3_response_finalize /\ rest = <<>>
        /\ UNCHANGED <<streaming, out, queued>>
    BY <2>1, Zenon DEF FilterData, Called
  <2>3. CASE UNCHANGED <<startVars, rest>>
    BY <2>2, <2>3 DEF SubmitInv, startVars
  <2>4. CASE streaming /\ (Started(resp') \/ (SubmitFails /\ rest' = rest))
    <3>1. /\ response_submitted' = Oversized => response_submitted = Oversized
          /\ response_submitted # Nothing => response_submitted' # Nothing
          /\ Started(resp') => response_submitted' # Nothing
      BY <2>2, <2>4, FilterSubmits
    <3> QED BY <2>2, <2>4, <3>1 DEF SubmitInv
  <2>5. \/ UNCHANGED <<startVars, rest>>
        \/ streaming /\ (Started(resp') \/ (SubmitFails /\ rest' = rest))
    BY <2>1, Zenon DEF FilterData
  <2> QED BY <2>3, <2>4, <2>5
<1>5. CASE AppendFails \/ \E n \in 1..Len(rest) : AppendChunk(n)
  <2>1. /\ rest # <<>>
        /\ UNCHANGED <<streaming, out, given, dataheap, response_too_large, response_submitted>>
    BY <1>5, Zenon DEF AppendFails, AppendChunk, captureVars, startVars
  <2>2. response_cancelled => response_cancelled'
    <3>1. CASE AppendFails
      BY <3>1, Zenon DEF AppendFails
    <3>2. CASE \E n \in 1..Len(rest) : AppendChunk(n)
      BY <3>2, Zenon DEF AppendChunk
    <3> QED BY <1>5, <3>1, <3>2
  <2> QED BY <2>1, <2>2 DEF SubmitInv
<1>6. CASE HandlerReturns
  <2>1. out = "handler" /\ out' = "tail" /\ UNCHANGED data
    BY <1>6, Zenon DEF HandlerReturns, Called, captureVars, startVars, queueVars
  <2> QED BY <2>1 DEF SubmitInv
<1>7. CASE CompleteResponse
  <2>1. out = "last" /\ out' = "done" /\ UNCHANGED <<data, response_cancelled>>
    BY <1>7, Zenon DEF CompleteResponse, CompleteWhen, captureVars, startVars
  <2> QED BY <2>1 DEF SubmitInv
<1>8. CASE FinishResponse
  <2>1. /\ out = "tail" /\ out' = "last"
        /\ resp' = IF response_too_large THEN resp ELSE h3_response_finalize
        /\ UNCHANGED <<streaming, given, queued, dataheap, response_too_large>>
        /\ SubmitAtEnd(resp') \/ (SubmitFails /\ rest' = rest)
    BY <1>8, Zenon DEF FinishResponse, captureVars
  <2>2. response_submitted # Oversized /\ (response_too_large => response_submitted = Nothing)
    BY <2>1 DEF SubmitInv, PendingInv
  <2>3. Oversized # Nothing
    BY DEF Oversized, Nothing
  <2>4. CASE SubmitFails /\ rest' = rest
    <3>1. response_submitted = Nothing /\ response_submitted' = Nothing /\ response_cancelled' = TRUE
      BY <2>4, Zenon DEF SubmitFails
    <3> QED BY <2>1, <2>4, <3>1 DEF SubmitInv
  <2>5. CASE SubmitAtEnd(resp') /\ response_submitted # Nothing
    <3>1. response_submitted' = response_submitted
      BY <2>5, Zenon DEF SubmitAtEnd, Submitted, startVars
    <3> QED BY <2>1, <2>2, <2>5, <3>1 DEF SubmitInv
  <2>6. CASE SubmitAtEnd(resp') /\ response_submitted = Nothing
    <3>1. response_submitted' = IF response_too_large THEN Oversized ELSE build_response_nva(resp')
      BY <2>6, Zenon DEF SubmitAtEnd, Submitted
    <3>2. ~response_too_large =>
            build_response_nva(resp') # Nothing /\ build_response_nva(resp') # Oversized
      BY <2>1, FinalStatus, BuiltStatus
    <3> QED BY <2>1, <2>3, <3>1, <3>2 DEF SubmitInv
  <2> QED BY <2>1, <2>4, <2>5, <2>6
<1>9. CASE (Receive /\ UNCHANGED answerVars) \/ Read \/ Cancel \/ FilterError \/ UNCHANGED vars
  <2>1. UNCHANGED <<data, out>>
    BY <1>9, Zenon DEF Read, Cancel, FilterError, vars, answerVars, captureVars, startVars, queueVars
  <2>2. response_cancelled' = response_cancelled \/ ~response_cancelled
    BY <1>9, Zenon DEF Read, Cancel, FilterError, vars, answerVars, startVars
  <2> QED BY <1>1, <2>1, <2>2, Zenon
<1> QED BY <1>2, <1>3, <1>4, <1>5, <1>6, <1>7, <1>8, <1>9, Zenon DEF Next

\* Concatenation is associative.
LEMMA ConcatGroups ==
  ASSUME NEW q \in Seq(Nat), NEW b \in Seq(Nat), NEW e \in Seq(Nat)
  PROVE  (q \o b) \o e = q \o (b \o e)
  OBVIOUS

\* Moving the beginning of rest to the end of queued.
LEMMA MoveChunk ==
  ASSUME NEW q \in Seq(Nat), NEW s \in Seq(Nat), NEW n \in 1..Len(s)
  PROVE  (q \o SubSeq(s, 1, n)) \o SubSeq(s, n + 1, Len(s)) = q \o s
<1> DEFINE b == SubSeq(s, 1, n)
           e == SubSeq(s, n + 1, Len(s))
<1>1. b \in Seq(Nat) /\ e \in Seq(Nat)
  BY SplitSeq
<1>2. b \o e = s
  <2>1. Len(s) \in Nat
    OBVIOUS
  <2>2. 1 \in 1..(Len(s) + 1) /\ n \in (1 - 1)..Len(s) /\ Len(s) \in n..Len(s)
    BY <2>1
  <2>3. b \o e = SubSeq(s, 1, Len(s))
    BY <2>2, ConcatAdjacentSubSeq, Zenon
  <2> QED BY <2>3, SubSeqFull, Zenon
<1> HIDE DEF b, e
<1>3. (q \o b) \o e = q \o (b \o e)
  BY <1>1, ConcatGroups, Zenon
<1> QED BY <1>2, <1>3, Zenon DEF b, e

\* What comes first in a concatenation is its beginning.
LEMMA Beginning ==
  ASSUME NEW q \in Seq(Nat), NEW s \in Seq(Nat)
  PROVE  q = SubSeq(q \o s, 1, Len(q))
<1>1. CASE Len(q) = 0
  <2>1. q = <<>>
    BY <1>1, EmptySeq
  <2>2. SubSeq(q \o s, 1, 0) = <<>>
    BY SubSeqEmpty
  <2> QED BY <1>1, <2>1, <2>2
<1>2. CASE Len(q) # 0
  <2>1. 1 \in 1..Len(q) /\ Len(q) \in 1..Len(q)
    BY <1>2
  <2>2. SubSeq(q \o s, 1, Len(q)) = SubSeq(q, 1, Len(q))
    BY <2>1, SubSeqOfConcat1, Zenon
  <2> QED BY <2>2, SubSeqFull, Zenon
<1> QED BY <1>1, <1>2

\* Undisturbed, the bytes queued and the ones about to be are the body so far,
\* or what was captured of it, or the message.
ContentInv ==
  ~fault =>
    /\ BodyDropped => /\ dataheap = <<>> /\ ~response_too_large
                      /\ streaming => queued = <<>> /\ rest = <<>>
    /\ ~BodyDropped /\ streaming => queued \o rest = Bytes(given)
    /\ ~BodyDropped /\ ~streaming =>
         IF response_too_large THEN given > MaxResponseBodySize
         ELSE dataheap = Bytes(given) /\ given <= MaxResponseBodySize
    /\ ~streaming /\ out \in {"last", "done"} =>
         \/ response_cancelled /\ queued = <<>> /\ rest = <<>>
         \/ queued \o rest = IF response_too_large THEN Message ELSE dataheap

\* With nothing produced there is nothing.
LEMMA ContentEmpty ==
  ASSUME given = 0, queued = <<>>, rest = <<>>, dataheap = <<>>, ~response_too_large,
         out \notin {"last", "done"}
  PROVE  ContentInv
<1>1. Bytes(0) = <<>> /\ <<>> \o <<>> = <<>>
  BY DEF Bytes
<1>2. 0 <= MaxResponseBodySize
  BY ExchangeAssumption
<1> QED BY <1>1, <1>2, Zenon DEF ContentInv

\* A bucket keeps ContentInv.
LEMMA DataContent ==
  ASSUME SizeInv, ContentInv, NEW n \in 1..MaxOut, NEW b \in BOOLEAN, FilterData(n, b)
  PROVE  ContentInv'
<1>1. /\ out = "handler" /\ rest = <<>> /\ given' = given + n
      /\ UNCHANGED <<streaming, r, queued, out>>
  BY Zenon DEF FilterData, Called
<1>2. /\ given \in Nat /\ n \in Nat /\ queued \in Seq(Nat) /\ dataheap \in Seq(Nat)
      /\ MaxResponseBodySize \in Nat /\ n > 0
  BY ExchangeAssumption DEF SizeInv
<1>3. CASE fault'
  BY <1>3, Zenon DEF ContentInv
<1>4. CASE ~fault' /\ BodyDropped
  <2>1. UNCHANGED <<dataheap, response_too_large, rest, fault>>
    BY <1>4, Zenon DEF FilterData, captureVars
  <2> QED BY <1>1, <1>4, <2>1 DEF ContentInv, BodyDropped
<1>5. CASE ~fault' /\ ~BodyDropped /\ ~streaming
  <2>1. capture_body_bucket(n, b)
    BY <1>5, Zenon DEF FilterData
  <2>2. CASE response_too_large
    <3>1. UNCHANGED <<response_too_large, fault>>
      BY <2>1, <2>2, Zenon DEF capture_body_bucket, captureVars
    <3>2. given > MaxResponseBodySize
      BY <1>5, <2>2, <3>1 DEF ContentInv
    <3>3. given' > MaxResponseBodySize
      BY <1>1, <1>2, <3>2
    <3> QED BY <1>1, <1>5, <2>2, <3>1, <3>3 DEF ContentInv, BodyDropped
  <2>3. CASE ~response_too_large /\ ~b
    BY <1>5, <2>1, <2>3, Zenon DEF capture_body_bucket
  <2>4. CASE ~response_too_large /\ b /\ Len(dataheap) + n > MaxResponseBodySize
    <3>1. response_too_large' = TRUE /\ fault' = fault
      BY <2>1, <2>4, Zenon DEF capture_body_bucket
    <3>2. Len(dataheap) = given
      BY <1>2, <1>5, <2>4, <3>1, BytesSeq DEF ContentInv
    <3>3. given' > MaxResponseBodySize
      BY <1>1, <2>4, <3>2
    <3> QED BY <1>1, <1>5, <3>1, <3>3 DEF ContentInv, BodyDropped
  <2>5. CASE ~response_too_large /\ b /\ ~(Len(dataheap) + n > MaxResponseBodySize)
    <3>1. /\ dataheap' = dataheap \o [k \in 1..n |-> given + k]
          /\ UNCHANGED <<response_too_large, fault>>
      BY <2>1, <2>5, Zenon DEF capture_body_bucket, Produced
    <3>2. dataheap = Bytes(given) /\ Len(dataheap) = given
      BY <1>2, <1>5, <2>5, <3>1, BytesSeq DEF ContentInv
    <3>3. dataheap' = Bytes(given')
      BY <1>1, <1>2, <3>1, <3>2, BytesAppend, Zenon
    <3>4. given' <= MaxResponseBodySize
      BY <1>1, <1>2, <2>5, <3>2
    <3> QED BY <1>1, <1>5, <2>5, <3>1, <3>3, <3>4, Zenon DEF ContentInv, BodyDropped
  <2> QED BY <2>2, <2>3, <2>4, <2>5, Zenon
<1>6. CASE ~fault' /\ ~BodyDropped /\ streaming
  <2>1. ~fault /\ rest' = [k \in 1..n |-> given + k]
    BY <1>6, Zenon DEF FilterData, Produced
  <2>2. queued = Bytes(given)
    BY <1>1, <1>2, <1>6, <2>1, ConcatEmptySeq, Zenon DEF ContentInv
  <2>3. queued' \o rest' = Bytes(given')
    BY <1>1, <1>2, <2>1, <2>2, BytesAppend, Zenon
  <2> QED BY <1>1, <1>6, <2>3, Zenon DEF ContentInv, BodyDropped
<1> QED BY <1>3, <1>4, <1>5, <1>6, Zenon

\* Every step keeps ContentInv.
LEMMA ContentStep ==
  PendingInv /\ SizeInv /\ SubmitInv /\ ContentInv /\ [Next]_vars => ContentInv'
<1> SUFFICES ASSUME PendingInv, SizeInv, SubmitInv, ContentInv, [Next]_vars PROVE ContentInv'
  OBVIOUS
<1> DEFINE ending == out \in {"last", "done"}
<1>1. CASE /\ UNCHANGED <<streaming, r, given, queued, rest, dataheap, response_too_large>>
           /\ fault => fault'
           /\ ending' => ending
           /\ response_cancelled => response_cancelled'
  BY <1>1, Zenon DEF ContentInv, BodyDropped
<1>2. CASE fault'
  BY <1>2, Zenon DEF ContentInv
<1>3. ASSUME NEW u \in BOOLEAN, NEW h \in BOOLEAN, NEW a \in Answers, Begin(u, h, a)
      PROVE  ContentInv'
  <2>1. /\ worker = "start" /\ out' = "handler"
        /\ UNCHANGED <<given, queued, rest, dataheap, response_too_large>>
    BY <1>3, Zenon DEF Begin, StartRequest, captureVars, queueVars
  <2>2. out = "none"
    BY <2>1 DEF PendingInv
  <2>3. /\ given' = 0 /\ queued' = <<>> /\ rest' = <<>> /\ dataheap' = <<>>
        /\ ~response_too_large' /\ out' \notin {"last", "done"}
    BY <2>1, <2>2 DEF SubmitInv
  <2>4. Bytes(0) = <<>> /\ <<>> \o <<>> = <<>> /\ 0 <= MaxResponseBodySize
    BY ExchangeAssumption DEF Bytes
  <2> QED BY <2>3, <2>4, Zenon DEF ContentInv
<1>4. ASSUME NEW n \in 1..Len(rest), AppendChunk(n) PROVE ContentInv'
  <2>1. /\ rest # <<>>
        /\ queued' = queued \o SubSeq(rest, 1, n) /\ rest' = SubSeq(rest, n + 1, Len(rest))
        /\ UNCHANGED <<streaming, r, given, dataheap, response_too_large, fault, out,
                       response_cancelled>>
    BY <1>4, Zenon DEF AppendChunk, captureVars, startVars
  <2>2. queued \in Seq(Nat) /\ rest \in Seq(Nat)
    BY DEF SizeInv
  <2>3. queued' \o rest' = queued \o rest
    BY <2>1, <2>2, MoveChunk, Zenon
  <2> QED BY <2>1, <2>3, Zenon DEF ContentInv, BodyDropped
<1>5. CASE FinishResponse
  <2>1. /\ out = "tail" /\ out' = "last"
        /\ UNCHANGED <<streaming, r, given, queued, dataheap, response_too_large, fault>>
    BY <1>5, Zenon DEF FinishResponse, captureVars
  <2>2. \/ response_cancelled' /\ rest' = rest
        \/ rest' = IF response_too_large THEN Message ELSE IF streaming THEN <<>> ELSE dataheap
    BY <1>5, Zenon DEF FinishResponse, SubmitFails
  <2>3. rest = <<>> /\ (streaming => ~response_too_large)
    BY <2>1 DEF PendingInv
  <2>4. CASE streaming
    <3>1. rest' = rest
      BY <2>2, <2>3, <2>4, Zenon
    <3> QED BY <2>1, <2>4, <3>1, Zenon DEF ContentInv, BodyDropped
  <2>5. CASE ~streaming
    <3>1. queued = <<>>
      BY <2>1, <2>5 DEF SizeInv
    <3>2. CASE response_cancelled' /\ rest' = rest
      BY <2>1, <2>3, <2>5, <3>1, <3>2, Zenon DEF ContentInv, BodyDropped
    <3>3. CASE rest' = IF response_too_large THEN Message ELSE dataheap
      <4>1. dataheap \in Seq(Nat) /\ Message \in Seq(Nat)
        BY DEF SizeInv, Message
      <4>2. rest' \in Seq(Nat)
        BY <3>3, <4>1, Zenon
      <4>3. queued' \o rest' = rest'
        BY <2>1, <3>1, <4>2, ConcatEmptySeq, Zenon
      <4> QED BY <2>1, <2>5, <3>3, <4>3, Zenon DEF ContentInv, BodyDropped
    <3> QED BY <2>2, <2>5, <3>2, <3>3, Zenon
  <2> QED BY <2>4, <2>5
<1>6. CASE FilterResponse \/ \E b \in BOOLEAN : FilterMeta(b)
  <2>1. UNCHANGED <<streaming, r, given, queued, rest, dataheap, response_too_large, out>>
    BY <1>6, Zenon DEF FilterResponse, FilterMeta, captureVars, queueVars
  <2>2. out = "handler" /\ (fault => fault')
    BY <1>6, Zenon DEF FilterResponse, FilterMeta, Called
  <2>3. ~ending /\ ~ending'
    BY <2>1, <2>2
  <2> QED BY <2>1, <2>2, <2>3, Zenon DEF ContentInv, BodyDropped
<1>7. CASE FilterError \/ AppendFails
  BY <1>2, <1>7, Zenon DEF FilterError, AppendFails
<1>8. CASE HandlerReturns \/ CompleteResponse
  <2>1. UNCHANGED <<streaming, r, given, queued, rest, dataheap, response_too_large, fault,
                    response_cancelled>>
    BY <1>8, Zenon DEF HandlerReturns, CompleteResponse, captureVars, startVars, queueVars
  <2>2. ending' => ending
    BY <1>8 DEF HandlerReturns, CompleteResponse, CompleteWhen
  <2> QED BY <1>1, <2>1, <2>2, Zenon
<1>9. CASE (Receive /\ UNCHANGED answerVars) \/ Read \/ Cancel \/ UNCHANGED vars
  <2>1. UNCHANGED <<streaming, r, given, queued, rest, dataheap, response_too_large, fault, out>>
    BY <1>9, Zenon DEF Read, Cancel, vars, answerVars, captureVars, queueVars
  <2>2. response_cancelled' = response_cancelled \/ ~response_cancelled
    BY <1>9, Zenon DEF Read, Cancel, vars, answerVars, startVars
  <2> QED BY <1>1, <2>1, <2>2, Zenon
<1> QED BY <1>3, <1>4, <1>5, <1>6, <1>7, <1>8, <1>9, DataContent, Zenon DEF Next

\* The inductive invariant of the answer.
AnswerInv == PendingInv /\ SizeInv /\ StatusInv /\ SubmitInv /\ ContentInv

\* AnswerInv is an invariant of the exchange, for every limit and every
\* sequence of buckets, chunks, cancellations and faults.
THEOREM AnswerInvariance == Spec => []AnswerInv
<1>1. Init => AnswerInv
  <2>1. Init => ContentInv
    BY ContentEmpty DEF Init
  <2> QED BY <2>1, PipeInitInv, SubmitInitInv DEF AnswerInv
<1>2. AnswerInv /\ [Next]_vars => AnswerInv'
  BY PendingStep, SizeStep, StatusStep, SubmitStep, ContentStep, Zenon DEF AnswerInv
<1> QED BY <1>1, <1>2, PTL DEF Spec

\* Without a fault, what is queued is the beginning of the body or of the message.
LEMMA QueuedBegins ==
  ASSUME AnswerInv, ~fault
  PROVE  LET body == IF BodyDropped THEN <<>> ELSE Bytes(given) IN
         \/ queued = SubSeq(body, 1, Len(queued))
         \/ response_submitted = Oversized /\ queued = SubSeq(Message, 1, Len(queued))
<1> DEFINE body == IF BodyDropped THEN <<>> ELSE Bytes(given)
<1>1. queued \in Seq(Nat) /\ rest \in Seq(Nat)
  BY DEF AnswerInv, SizeInv
<1>2. queued = SubSeq(queued \o rest, 1, Len(queued))
  BY <1>1, Beginning
<1>3. CASE queued = <<>>
  <2>1. Len(queued) = 0 /\ SubSeq(body, 1, 0) = <<>>
    BY <1>3, SubSeqEmpty
  <2> QED BY <1>3, <2>1, Zenon
<1>4. CASE queued # <<>> /\ streaming
  <2>1. queued \o rest = body
    BY <1>4, Zenon DEF AnswerInv, ContentInv
  <2> QED BY <1>2, <2>1, Zenon
<1>5. CASE queued # <<>> /\ ~streaming
  <2>1. out \in {"last", "done"} /\ response_submitted # Nothing
    BY <1>5, Zenon DEF AnswerInv, SizeInv, SubmitInv
  <2>2. queued \o rest = IF response_too_large THEN Message ELSE dataheap
    BY <1>5, <2>1, Zenon DEF AnswerInv, ContentInv
  <2>3. response_too_large => response_submitted = Oversized
    BY <2>1, Zenon DEF AnswerInv, SubmitInv
  <2>4. ~response_too_large => dataheap = body
    BY <1>5, Zenon DEF AnswerInv, ContentInv
  <2> QED BY <1>2, <2>2, <2>3, <2>4, Zenon
<1> QED BY <1>3, <1>4, <1>5, Zenon

\* At the end, without a fault or a cancellation, all of it is queued.
LEMMA QueuedAll ==
  ASSUME AnswerInv, out = "done", ~fault, ~response_cancelled
  PROVE  LET body == IF BodyDropped THEN <<>> ELSE Bytes(given) IN
         /\ response_submitted = Oversized <=> ~streaming /\ Len(body) > MaxResponseBodySize
         /\ response_submitted # Oversized => queued = body
         /\ response_submitted = Oversized => queued = Message
<1> DEFINE body == IF BodyDropped THEN <<>> ELSE Bytes(given)
<1>1. /\ given \in Nat /\ queued \in Seq(Nat) /\ rest = <<>>
      /\ MaxResponseBodySize \in Nat /\ MaxResponseBodySize > 0
  BY ExchangeAssumption DEF AnswerInv, SizeInv, PendingInv
<1>2. queued \o rest = queued
  BY <1>1, ConcatEmptySeq, Zenon
<1>3. response_submitted = Oversized <=> response_too_large
  BY DEF AnswerInv, SubmitInv
<1>4. CASE streaming
  <2>1. ~response_too_large
    BY <1>4 DEF AnswerInv, PendingInv
  <2>2. queued = body
    BY <1>2, <1>4, Zenon DEF AnswerInv, ContentInv
  <2> QED BY <1>3, <1>4, <2>1, <2>2, Zenon
<1>5. CASE ~streaming
  <2>1. queued = IF response_too_large THEN Message ELSE dataheap
    BY <1>2, <1>5, Zenon DEF AnswerInv, ContentInv
  <2>2. CASE BodyDropped
    <3>1. ~response_too_large /\ dataheap = <<>>
      BY <2>2, Zenon DEF AnswerInv, ContentInv
    <3>2. body = <<>> /\ ~(Len(<<>>) > MaxResponseBodySize)
      BY <1>1, <2>2
    <3> QED BY <1>3, <2>1, <3>1, <3>2, Zenon
  <2>3. CASE ~BodyDropped
    <3>1. body = Bytes(given) /\ Len(body) = given
      BY <1>1, <2>3, BytesSeq
    <3>2. IF response_too_large THEN given > MaxResponseBodySize
          ELSE dataheap = Bytes(given) /\ given <= MaxResponseBodySize
      BY <1>5, <2>3, Zenon DEF AnswerInv, ContentInv
    <3>3. response_too_large <=> Len(body) > MaxResponseBodySize
      BY <1>1, <3>1, <3>2
    <3>4. ~response_too_large => dataheap = body
      BY <3>1, <3>2, Zenon
    <3> HIDE DEF body
    <3>5. QED BY <1>3, <1>5, <2>1, <3>3, <3>4, Zenon DEF body
  <2> QED BY <2>2, <2>3
<1> QED BY <1>4, <1>5

\* What the filter and stream_worker queue is the handler's body from its
\* beginning and in order, or oversized_msg; a worker that ends undisturbed
\* queued all of it, with the status of the verdict.
THEOREM AnswerIsWholeHolds == Spec => []AnswerIsWhole
<1>1. AnswerInv => AnswerIsWhole
  <2> SUFFICES ASSUME AnswerInv PROVE AnswerIsWhole
    OBVIOUS
  <2>1. queued # <<>> => response_submitted # Nothing
    BY DEF AnswerInv, SubmitInv
  <2>2. ASSUME out = "done", ~response_cancelled, response_submitted # Oversized
        PROVE  response_submitted.status \in IF worker = "handler" THEN {"200", "304"} ELSE {worker}
    <3>1. response_submitted # Nothing
      BY <2>2 DEF AnswerInv, SubmitInv
    <3> QED BY <2>2, <3>1 DEF AnswerInv, StatusInv
  <2> QED BY <2>1, <2>2, QueuedBegins, QueuedAll, Zenon DEF AnswerIsWhole, Bytes
<1> QED BY <1>1, AnswerInvariance, PTL
-----------------------------------------------------------------------------
(* The buffers.                                                            *)

\* A power of two is larger than its exponent.
LEMMA PowerOfTwo == ASSUME NEW n \in Nat PROVE 2^n \in Nat /\ n <= 2^n
<1> DEFINE S == 1..n
           f == [k \in S |-> {k}]
<1>1. IsFiniteSet(S) /\ Cardinality(S) = n
  BY FS_Interval
<1>2. IsFiniteSet(SUBSET S) /\ Cardinality(SUBSET S) = 2^n
  BY <1>1, FS_SUBSET
<1>3. f \in Injection(S, SUBSET S)
  <2>1. f \in [S -> SUBSET S]
    OBVIOUS
  <2>2. \A a, b \in S : f[a] = f[b] => a = b
    OBVIOUS
  <2> HIDE DEF f, S
  <2> QED BY <2>1, <2>2 DEF Injection, IsInjective
<1> HIDE DEF f, S
<1>4. Cardinality(S) <= Cardinality(SUBSET S)
  BY <1>2, <1>3, FS_Injection
<1>5. Cardinality(SUBSET S) \in Nat
  BY <1>2, FS_CardinalityType
<1> QED BY <1>1, <1>2, <1>4, <1>5

\* A capacity that is doubled until it suffices does suffice.
LEMMA DoubledSuffices ==
  ASSUME NEW start \in Nat \ {0}, NEW needed \in Nat
  PROVE  LET cap == Min({start * 2^k : k \in {j \in 0..needed : start * 2^j >= needed}})
         IN  cap \in Nat /\ cap >= needed
<1> DEFINE K == {j \in 0..needed : start * 2^j >= needed}
           T == {start * 2^k : k \in K}
<1>1. ASSUME NEW j \in 0..needed PROVE start * 2^j \in Nat
  <2>1. 2^j \in Nat
    BY PowerOfTwo
  <2> DEFINE p == 2^j
  <2> HIDE DEF p
  <2>2. p \in Nat => start * p \in Nat
    OBVIOUS
  <2> QED BY <2>1, <2>2 DEF p
<1>2. start * 2^needed >= needed
  <2>1. 2^needed \in Nat /\ needed <= 2^needed
    BY PowerOfTwo
  <2> DEFINE p == 2^needed
  <2> HIDE DEF p
  <2>2. p \in Nat /\ needed <= p => start * p >= needed
    <3>1. p \in Nat => start * p >= p
      OBVIOUS
    <3>2. p \in Nat => start * p \in Nat
      OBVIOUS
    <3> QED BY <3>1, <3>2
  <2> QED BY <2>1, <2>2 DEF p
<1>3. needed \in K
  BY <1>2
<1>4. \A t \in T : t \in Nat /\ t >= needed
  BY <1>1
<1>5. T # {}
  BY <1>3
<1> HIDE DEF T
<1>6. T \in SUBSET Nat
  BY <1>4
<1>7. Min(T) \in T
  BY <1>5, <1>6, MinIsLeast
<1> QED BY <1>4, <1>7 DEF T

\* on_recv_data's buffer after it has grown holds what is needed, if the limit
\* allows that much, and stays within the limit.
LEMMA GrownFits ==
  ASSUME NEW cap \in 0..MaxRequestBodySize, NEW needed \in Nat, Fits(needed)
  PROVE  Grown(cap, needed) \in needed..MaxRequestBodySize
<1> DEFINE start == IF cap = 0 THEN InitCap ELSE cap
           g == Min({start * 2^k : k \in {j \in 0..needed : start * 2^j >= needed}})
<1>1. MaxRequestBodySize \in Nat /\ start \in Nat \ {0} /\ needed <= MaxRequestBodySize
  BY RequestBodyAssumption DEF Fits
<1>2. g \in Nat /\ g >= needed
  <2> HIDE DEF start
  <2> QED BY <1>1, DoubledSuffices
<1>3. Grown(cap, needed) = IF needed <= cap THEN cap ELSE Clamp(g)
  BY Zenon DEF Grown
<1> HIDE DEF g, start
<1> QED BY <1>1, <1>2, <1>3 DEF Clamp

\* capture_body_bucket's buffer after it has grown holds what is needed.
LEMMA CapAfterFits ==
  ASSUME NEW cap \in Nat, NEW needed \in Nat
  PROVE  CapAfter(cap, needed) \in Nat /\ CapAfter(cap, needed) >= needed
<1> DEFINE start == IF cap = 0 THEN InitCap ELSE 2 * cap
           g == Min({start * 2^k : k \in {j \in 0..needed : start * 2^j >= needed}})
<1>1. start \in Nat \ {0}
  BY RequestBodyAssumption
<1>2. g \in Nat /\ g >= needed
  <2> HIDE DEF start
  <2> QED BY <1>1, DoubledSuffices
<1>3. CapAfter(cap, needed) = IF needed <= cap THEN cap ELSE g
  BY Zenon DEF CapAfter
<1> HIDE DEF g, start
<1> QED BY <1>2, <1>3

\* The request's buffer is within what was allocated for it and the limit.
CapacityInv ==
  /\ request_body_capacity \in 0..MaxRequestBodySize
  /\ Len(request_body) \in Nat /\ Len(request_body) <= request_body_capacity

\* on_recv_data keeps it so; nothing else touches the buffer.
LEMMA CapacityStep == BodyInv /\ CapacityInv /\ [RequestNext]_requestVars => CapacityInv'
<1> SUFFICES ASSUME BodyInv, CapacityInv, [RequestNext]_requestVars PROVE CapacityInv'
  OBVIOUS
<1> DEFINE needed(n) == Len(request_body) + n
<1>1. ASSUME NEW n \in 1..MaxData, RecvData(n), ~request_body_overflow, Fits(needed(n))
      PROVE  CapacityInv'
  <2>1. n \in Nat /\ MaxRequestBodySize \in Nat /\ sent \in Nat
    BY RequestBodyAssumption DEF BodyInv
  <2>2. request_body = Bytes(sent) /\ Len(request_body) = sent
    BY <1>1, <2>1, BytesSeq DEF BodyInv
  <2>3. /\ request_body' = request_body \o [k \in 1..n |-> sent + k]
        /\ request_body_capacity' = Grown(request_body_capacity, needed(n))
    BY <1>1, Zenon DEF RecvData
  <2>4. request_body' = Bytes(sent + n)
    BY <2>1, <2>2, <2>3, BytesAppend, Zenon
  <2>5. Len(request_body') = needed(n) /\ needed(n) \in Nat
    BY <2>1, <2>2, <2>4, BytesSeq
  <2>6. request_body_capacity' \in needed(n)..MaxRequestBodySize
    BY <1>1, <2>3, <2>5, GrownFits DEF CapacityInv
  <2> HIDE DEF needed
  <2> QED BY <2>1, <2>5, <2>6 DEF CapacityInv
<1>2. CASE UNCHANGED <<request_body, request_body_capacity>>
  BY <1>2 DEF CapacityInv
<1>3. \/ \E n \in 1..MaxData : RecvData(n)
      \/ UNCHANGED <<request_body, request_body_capacity>>
  BY Zenon DEF RequestNext, Receive, BeginRead, EndRead, Block, BeginEncoder, EndEncoder,
     RecvPseudo, RecvField, EndHeaders, StopSending, ResetStream, Dispatch, StartRequest,
     ReadBody, requestVars, bodyVars
<1>4. ASSUME NEW n \in 1..MaxData, RecvData(n), request_body_overflow \/ ~Fits(needed(n))
      PROVE  UNCHANGED <<request_body, request_body_capacity>>
  BY <1>4, Zenon DEF RecvData
<1> QED BY <1>1, <1>2, <1>3, <1>4, Zenon

\* on_recv_data writes inside the buffer it allocated, which never grows past
\* H3MaxRequestBodySize, however often it is doubled.
THEOREM BufferFitsHolds == Spec => []BufferFits
<1>1. Init => CapacityInv
  BY RequestBodyAssumption DEF Init, RequestInit, CapacityInv
<1>2. RequestInv /\ CapacityInv /\ [Next]_vars => CapacityInv'
  BY CapacityStep, RequestWithin DEF RequestInv
<1>3. CapacityInv => BufferFits
  BY RequestBodyAssumption DEF CapacityInv, BufferFits
<1> QED BY <1>1, <1>2, <1>3, RequestInvHolds, PTL DEF Spec

\* So is the buffer of a captured answer; a streamed one has none.
CaptureInv ==
  /\ dataheapcap \in Nat
  /\ Len(dataheap) <= dataheapcap /\ Len(dataheap) <= MaxResponseBodySize
  /\ streaming => dataheap = <<>>

\* capture_body_bucket keeps it so; nothing else touches the buffer.
LEMMA CaptureStep == SizeInv /\ CaptureInv /\ [Next]_vars => CaptureInv'
<1> SUFFICES ASSUME SizeInv, CaptureInv, [Next]_vars PROVE CaptureInv'
  OBVIOUS
<1>1. CASE UNCHANGED <<streaming, dataheap, dataheapcap>>
  BY <1>1 DEF CaptureInv
<1>2. ASSUME NEW n \in 1..MaxOut, ~streaming, streaming' = streaming,
             Len(dataheap) + n <= MaxResponseBodySize,
             dataheap' = dataheap \o Produced(n),
             dataheapcap' = CapAfter(dataheapcap, Len(dataheap) + n)
      PROVE  CaptureInv'
  <2>1. n \in Nat /\ given \in Nat /\ dataheap \in Seq(Nat) /\ dataheapcap \in Nat
    BY ExchangeAssumption DEF SizeInv, CaptureInv
  <2>2. Produced(n) \in Seq(Nat) /\ Len(Produced(n)) = n
    BY <2>1, ProducedSeq
  <2>3. Len(dataheap') = Len(dataheap) + n /\ Len(dataheap) + n \in Nat
    <3>1. Len(dataheap \o Produced(n)) = Len(dataheap) + Len(Produced(n))
      BY <2>1, <2>2, ConcatProperties, Zenon
    <3>2. Len(dataheap) \in Nat
      BY <2>1
    <3> QED BY <1>2, <2>1, <2>2, <3>1, <3>2
  <2>4. dataheapcap' \in Nat /\ dataheapcap' >= Len(dataheap) + n
    BY <1>2, <2>1, <2>3, CapAfterFits
  <2> QED BY <1>2, <2>3, <2>4 DEF CaptureInv
<1>3. ASSUME NEW n \in 1..MaxOut, NEW b \in BOOLEAN, FilterData(n, b) PROVE CaptureInv'
  <2>1. streaming' = streaming
    BY <1>3, Zenon DEF FilterData
  <2>2. \/ UNCHANGED <<dataheap, dataheapcap>>
        \/ ~streaming /\ capture_body_bucket(n, b)
    BY <1>3, Zenon DEF FilterData, captureVars
  <2>3. ASSUME capture_body_bucket(n, b)
        PROVE  \/ UNCHANGED <<dataheap, dataheapcap>>
               \/ /\ ~(Len(dataheap) + n > MaxResponseBodySize)
                  /\ dataheap' = dataheap \o Produced(n)
                  /\ dataheapcap' = CapAfter(dataheapcap, Len(dataheap) + n)
    BY <2>3, Zenon DEF capture_body_bucket, captureVars
  <2>4. ~(Len(dataheap) + n > MaxResponseBodySize) => Len(dataheap) + n <= MaxResponseBodySize
    BY ExchangeAssumption DEF SizeInv
  <2> QED BY <1>1, <1>2, <2>1, <2>2, <2>3, <2>4, Zenon
<1>4. \/ \E n \in 1..MaxOut, b \in BOOLEAN : FilterData(n, b)
      \/ UNCHANGED <<streaming, dataheap, dataheapcap>>
  BY Zenon DEF Next, Begin, Read, FilterResponse, FilterMeta, FilterError, AppendChunk,
     AppendFails, HandlerReturns, FinishResponse, CompleteResponse, Cancel, vars, answerVars,
     captureVars
<1> QED BY <1>1, <1>3, <1>4

\* capture_body_bucket writes inside the buffer it allocated and captures no
\* more than H3MaxResponseBodySize, for every size of bucket.
THEOREM CaptureFitsHolds == Spec => []CaptureFits
<1>1. Init => CaptureInv
  BY ExchangeAssumption DEF Init, CaptureInv
<1>2. AnswerInv /\ CaptureInv /\ [Next]_vars => CaptureInv'
  BY CaptureStep DEF AnswerInv
<1>3. AnswerInv /\ CaptureInv => CaptureFits
  BY DEF AnswerInv, PendingInv, CaptureInv, CaptureFits
<1> QED BY <1>1, <1>2, <1>3, AnswerInvariance, PTL DEF Spec
-----------------------------------------------------------------------------
(* The announced length.                                                   *)

\* A set with 0 that has with every natural the next one has them all.
LEMMA SetInduction ==
  ASSUME NEW S, 0 \in S, \A n \in Nat : n \in S => n + 1 \in S
  PROVE  Nat \subseteq S
<1> DEFINE T == {n \in Nat : n \notin S}
<1> SUFFICES ASSUME T # {} PROVE FALSE
  OBVIOUS
<1>1. PICK m \in T : \A x \in T : m <= x
  BY MinIsLeast, T \in SUBSET Nat
<1>2. m # 0 /\ m - 1 \in Nat /\ m - 1 \notin T
  BY <1>1
<1>3. (m - 1) + 1 \in S
  BY <1>2
<1> QED BY <1>1, <1>3

\* Without leaves fields of the table, and none of those it takes away.
LEMMA WithoutFields ==
  ASSUME NEW Names, NEW t \in Seq(Names), NEW S
  PROVE  /\ Without(t, S) \in Seq(Names)
         /\ \A i \in DOMAIN Without(t, S) :
              Without(t, S)[i] \notin S /\ \E j \in DOMAIN t : t[j] = Without(t, S)[i]
<1> DEFINE Step(q, i) == IF t[i] \in S THEN q ELSE Append(q, t[i])
           Table(f, n) == [i \in 0..n |-> IF i = 0 THEN <<>> ELSE Step(f[i - 1], i)]
           Defined == {n \in Nat : \E f : f = Table(f, n)}
           kept == CHOOSE f : f = Table(f, Len(t))
           Good(q) == /\ q \in Seq(Names)
                      /\ \A i \in DOMAIN q : q[i] \notin S /\ \E j \in DOMAIN t : t[j] = q[i]
           Sound == {n \in Nat : n <= Len(t) => Good(kept[n])}
<1>1. Nat \subseteq Defined
  <2>1. 0 \in Defined
    <3>1. [i \in 0..0 |-> <<>>] = Table([i \in 0..0 |-> <<>>], 0)
      OBVIOUS
    <3> QED BY <3>1
  <2>2. ASSUME NEW n \in Nat, n \in Defined PROVE n + 1 \in Defined
    <3>1. PICK f : f = Table(f, n)
      BY <2>2
    <3> DEFINE g == [i \in 0..(n + 1) |-> IF i = n + 1 THEN Step(f[n], n + 1) ELSE f[i]]
    <3>2. ASSUME NEW i \in 0..(n + 1)
          PROVE  g[i] = IF i = 0 THEN <<>> ELSE Step(g[i - 1], i)
      <4> HIDE DEF Step
      <4>1. CASE i = n + 1
        BY <4>1
      <4>2. CASE i \in 0..n
        <5>1. f[i] = IF i = 0 THEN <<>> ELSE Step(f[i - 1], i)
          BY <3>1, <4>2
        <5>2. g[i] = f[i] /\ (i # 0 => g[i - 1] = f[i - 1])
          BY <4>2
        <5> QED BY <5>1, <5>2
      <4> QED BY <4>1, <4>2
    <3> HIDE DEF Step
    <3>3. g = Table(g, n + 1)
      BY <3>2
    <3>4. n + 1 \in Nat
      OBVIOUS
    <3> HIDE DEF g
    <3> QED BY <3>3, <3>4, Zenon
  <2> QED BY <2>1, <2>2, SetInduction, Zenon
<1>2. Len(t) \in Nat
  OBVIOUS
<1>3. kept = Table(kept, Len(t))
  BY <1>1, <1>2, Zenon
<1>4. Without(t, S) = kept[Len(t)]
  BY Zenon DEF Without
<1>5. /\ kept[0] = <<>>
      /\ \A i \in 1..Len(t) : kept[i] = Step(kept[i - 1], i)
  <2> HIDE DEF Step, kept
  <2> QED BY <1>2, <1>3
<1> HIDE DEF kept
<1>6. Nat \subseteq Sound
  <2>1. 0 \in Sound
    <3>1. Good(<<>>)
      OBVIOUS
    <3> HIDE DEF Good
    <3> QED BY <1>5, <3>1
  <2>2. ASSUME NEW n \in Nat, n \in Sound PROVE n + 1 \in Sound
    <3> SUFFICES ASSUME n + 1 <= Len(t) PROVE Good(kept[n + 1])
      OBVIOUS
    <3> DEFINE q == kept[n]
    <3>1. Good(q)
      BY <1>2, <2>2
    <3>2. kept[n + 1] = Step(q, n + 1)
      BY <1>2, <1>5
    <3>3. n + 1 \in DOMAIN t /\ t[n + 1] \in Names
      BY <1>2
    <3> HIDE DEF q
    <3>4. CASE t[n + 1] \in S
      BY <3>1, <3>2, <3>4
    <3>5. CASE t[n + 1] \notin S
      <4>1. kept[n + 1] = Append(q, t[n + 1])
        BY <3>2, <3>5
      <4> QED BY <3>1, <3>3, <3>5, <4>1, AppendProperties
    <3> QED BY <3>4, <3>5
  <2> QED BY <2>1, <2>2, SetInduction, Zenon
<1> QED BY <1>2, <1>4, <1>6

\* apr_table_setn brings in no other field.
LEMMA WithFieldFields ==
  ASSUME NEW Names, NEW t \in Seq(Names), NEW k \in Names
  PROVE  /\ WithField(t, k) \in Seq(Names)
         /\ \A x : Has(WithField(t, k), x) => Has(t, x) \/ x = k
<1>1. CASE Has(t, k)
  BY <1>1 DEF WithField
<1>2. CASE ~Has(t, k)
  <2>1. WithField(t, k) = Append(t, k)
    BY <1>2 DEF WithField
  <2> DEFINE u == Append(t, k)
             n == Len(t)
  <2>2. /\ u \in Seq(Names) /\ Len(u) = n + 1 /\ n \in Nat
        /\ \A i \in 1..n : u[i] = t[i]
        /\ u[n + 1] = k
    OBVIOUS
  <2>3. DOMAIN t = 1..n /\ DOMAIN u = 1..(n + 1)
    BY <2>2
  <2> HIDE DEF u, n
  <2>4. ASSUME NEW x, Has(u, x) PROVE Has(t, x) \/ x = k
    <3>1. PICK i \in 1..(n + 1) : u[i] = x
      BY <2>3, <2>4 DEF Has
    <3>2. CASE i = n + 1
      BY <2>2, <3>1, <3>2
    <3>3. CASE i \in 1..n
      BY <2>2, <2>3, <3>1, <3>3 DEF Has
    <3>4. i = n + 1 \/ i \in 1..n
      BY <2>2
    <3> QED BY <3>2, <3>3, <3>4
  <2> QED BY <2>1, <2>2, <2>4 DEF u
<1> QED BY <1>1, <1>2

\* The names of fields, those that h3_response_finalize sets among them.
FieldName == STRING \cup {"Date", "Server"}

\* build_response_nva brings in no field at all, however many it leaves out.
LEMMA BuiltFields ==
  ASSUME NEW h, h.fields \in Seq(FieldName), NEW x, Has(build_response_nva(h).fields, x)
  PROVE  Has(h.fields, x)
<1>1. PICK hop : LET kept == Without(h.fields, hop) IN
                 build_response_nva(h) = [status |-> h.status,
                                          fields |-> SubSeq(kept, 1, Min({Len(kept), NvaCap - 1}))]
  BY Zenon DEF build_response_nva
<1> DEFINE kept == Without(h.fields, hop)
           m == Min({Len(kept), NvaCap - 1})
           p == SubSeq(kept, 1, m)
<1>2. kept \in Seq(FieldName) /\ \A i \in DOMAIN kept : Has(h.fields, kept[i])
  <2>1. /\ kept \in Seq(FieldName)
        /\ \A i \in DOMAIN kept : \E j \in DOMAIN h.fields : h.fields[j] = kept[i]
    BY WithoutFields
  <2> HIDE DEF kept
  <2> QED BY <2>1 DEF Has
<1> HIDE DEF kept
<1>3. Len(kept) \in Nat /\ NvaCap - 1 \in Nat
  BY <1>2, ExchangeAssumption
<1>4. m \in Nat /\ m <= Len(kept)
  <2> DEFINE S == {Len(kept), NvaCap - 1}
  <2>1. S \in SUBSET Nat /\ S # {} /\ Len(kept) \in S
    BY <1>3
  <2> HIDE DEF S
  <2>2. Min(S) \in S /\ \A y \in S : Min(S) <= y
    BY <2>1, MinIsLeast
  <2> QED BY <2>1, <2>2 DEF S
<1> HIDE DEF m
<1>5. p \in Seq(FieldName) /\ Len(p) = m /\ \A i \in 1..m : p[i] = kept[i]
  <2>1. \A i \in 1..m : kept[i] \in FieldName
    BY <1>2, <1>4
  <2>2. /\ p \in Seq(FieldName) /\ Len(p) = IF 1 <= m THEN m - 1 + 1 ELSE 0
        /\ \A i \in 1..(m - 1 + 1) : p[i] = kept[1 + i - 1]
    BY <1>4, <2>1, SubSeqProperties
  <2> HIDE DEF p
  <2> QED BY <1>4, <2>2
<1>6. build_response_nva(h).fields = p
  <2>1. build_response_nva(h) = [status |-> h.status, fields |-> p]
    BY <1>1, Zenon DEF kept, m
  <2> HIDE DEF p
  <2> QED BY <2>1
<1> HIDE DEF p
<1> QED BY <1>2, <1>4, <1>5, <1>6 DEF Has

\* The answer announces a length, and h3_response_finalize lets it.
Announces == Has(r.headers_out, "Content-Length") /\ "Content-Length" \notin Unset

\* Until something goes wrong, a length in a header section is one the answer
\* announces.
AnnounceInv ==
  /\ {"status", "header_only", "headers_out", "clength"} \subseteq DOMAIN r
  /\ "fields" \in DOMAIN resp
  /\ r.headers_out \in Seq(FieldName) /\ r.clength \in Nat /\ resp.fields \in Seq(FieldName)
  /\ ~fault => /\ Has(resp.fields, "Content-Length") => Announces
               /\ Has(response_submitted.fields, "Content-Length") => Announces

\* A handler that announced a length and was not disturbed produced as much.
ReturnInv ==
  ~fault /\ out \in {"tail", "last", "done"} =>
    BodyDropped \/ given = r.clength \/ ~Has(r.headers_out, "Content-Length")

\* h3_response_finalize keeps to that.
LEMMA FinalFields ==
  ASSUME AnnounceInv
  PROVE  LET f == h3_response_finalize IN
         /\ "fields" \in DOMAIN f /\ f.fields \in Seq(FieldName)
         /\ ~fault /\ Has(f.fields, "Content-Length") => Announces
<1>1. CASE resp # Nothing
  BY <1>1 DEF AnnounceInv, h3_response_finalize
<1>2. CASE resp = Nothing
  <2> DEFINE kept == Without(r.headers_out, Unset)
             dated == WithField(kept, "Date")
             fs == WithField(dated, "Server")
  <2>1. kept \in Seq(FieldName) /\ \A i \in DOMAIN kept :
          kept[i] \notin Unset /\ \E j \in DOMAIN r.headers_out : r.headers_out[j] = kept[i]
    BY WithoutFields DEF AnnounceInv
  <2> HIDE DEF kept
  <2>2. Has(kept, "Content-Length") => Announces
    BY <2>1 DEF Has, Announces
  <2> DEFINE date == "Date"
             server == "Server"
             length == "Content-Length"
  <2>names. date \in FieldName /\ server \in FieldName /\ length # date /\ length # server
    BY DEF FieldName
  <2> HIDE DEF date, server, length
  <2>3. /\ WithField(kept, date) \in Seq(FieldName)
        /\ Has(WithField(kept, date), length) => Has(kept, length)
    BY <2>1, <2>names, WithFieldFields, Zenon
  <2> HIDE DEF dated
  <2>4. /\ WithField(dated, server) \in Seq(FieldName)
        /\ Has(WithField(dated, server), length) => Has(dated, length)
    BY <2>3, <2>names, WithFieldFields, Zenon DEF dated, date
  <2>5. h3_response_finalize = [status |-> r.status, fields |-> fs]
    BY <1>2, Zenon DEF h3_response_finalize, kept, dated
  <2> HIDE DEF fs
  <2>6. fs \in Seq(FieldName) /\ (Has(fs, "Content-Length") => Announces)
    BY <2>2, <2>3, <2>4, Zenon DEF fs, dated, date, server, length
  <2> QED BY <2>5, <2>6
<1> QED BY <1>1, <1>2

\* A step that submits nothing but what h3_response_finalize made, or the
\* message, keeps AnnounceInv.
LEMMA AnnounceKept ==
  ASSUME AnnounceInv, r' = r, fault => fault',
         resp' \in {resp, h3_response_finalize},
         response_submitted' \in {response_submitted, Oversized, build_response_nva(resp')}
  PROVE  AnnounceInv'
<1>1. /\ "fields" \in DOMAIN resp' /\ resp'.fields \in Seq(FieldName)
      /\ ~fault /\ Has(resp'.fields, "Content-Length") => Announces
  <2>1. CASE resp' = resp
    BY <2>1 DEF AnnounceInv
  <2>2. CASE resp' = h3_response_finalize
    BY <2>2, FinalFields, Zenon
  <2> QED BY <2>1, <2>2
<1>2. ~Has(Oversized.fields, "Content-Length")
  BY DEF Oversized, Has
<1>3. ~fault /\ Has(response_submitted'.fields, "Content-Length") => Announces
  <2>1. CASE response_submitted' = response_submitted
    BY <2>1 DEF AnnounceInv
  <2>2. CASE response_submitted' = Oversized
    BY <1>2, <2>2
  <2>3. CASE response_submitted' = build_response_nva(resp')
    BY <1>1, <2>3, BuiltFields, Zenon
  <2> QED BY <2>1, <2>2, <2>3
<1>4. Announces => Announces'
  BY Zenon DEF Announces, Unset, Has
<1> QED BY <1>1, <1>3, <1>4, Zenon DEF AnnounceInv

\* Every step keeps AnnounceInv.
LEMMA AnnounceStep == PendingInv /\ StatusInv /\ AnnounceInv /\ [Next]_vars => AnnounceInv'
<1> SUFFICES ASSUME PendingInv, StatusInv, AnnounceInv, [Next]_vars PROVE AnnounceInv'
  OBVIOUS
<1>1. ASSUME NEW u \in BOOLEAN, NEW h \in BOOLEAN, NEW a \in Answers, Begin(u, h, a)
      PROVE  AnnounceInv'
  <2>1. /\ worker = "start" /\ UNCHANGED <<resp, response_submitted, fault>>
        /\ r' = [status |-> IF worker' = "handler" THEN a.status ELSE worker',
                 header_only |-> h, headers_out |-> a.table, clength |-> a.clength]
    BY <1>1, Zenon DEF Begin, StartRequest, startVars
  <2>2. resp = Nothing /\ response_submitted = Nothing
    BY <2>1 DEF PendingInv, StatusInv
  <2>3. ~Has(Nothing.fields, "Content-Length")
    BY DEF Nothing, Has
  <2>4. a.table \in Seq(FieldName) /\ a.clength \in Nat
    <3>1. a.table \in Seq(STRING) /\ a.clength \in 0..MaxOut /\ MaxOut \in Nat
      BY ExchangeAssumption
    <3> QED BY <3>1 DEF FieldName
  <2>5. /\ {"status", "header_only", "headers_out", "clength"} \subseteq DOMAIN r'
        /\ r'.headers_out = a.table /\ r'.clength = a.clength
    BY <2>1
  <2> QED BY <2>1, <2>2, <2>3, <2>4, <2>5, Zenon DEF AnnounceInv
<1>2. CASE FilterError
  <2>1. /\ fault' = TRUE /\ r' = [r EXCEPT !.headers_out = <<>>]
        /\ resp' = IF build = "stable" /\ resp # Nothing THEN [resp EXCEPT !.fields = <<>>] ELSE resp
    BY <1>2, Zenon DEF FilterError
  <2>2. /\ {"status", "header_only", "headers_out", "clength"} \subseteq DOMAIN r'
        /\ r'.headers_out \in Seq(FieldName) /\ r'.clength \in Nat
    BY <2>1 DEF AnnounceInv
  <2>3. "fields" \in DOMAIN resp' /\ resp'.fields \in Seq(FieldName)
    BY <2>1 DEF AnnounceInv
  <2> QED BY <2>1, <2>2, <2>3, Zenon DEF AnnounceInv
<1>3. CASE \/ FilterResponse \/ (\E n \in 1..MaxOut, b \in BOOLEAN : FilterData(n, b))
           \/ \E b \in BOOLEAN : FilterMeta(b)
  <2>1. r' = r /\ resp' = h3_response_finalize
    BY <1>3, Zenon DEF FilterResponse, FilterData, FilterMeta
  <2>2. fault => fault'
    BY <1>3, Zenon DEF FilterResponse, FilterData, FilterMeta, capture_body_bucket
  <2>3. UNCHANGED startVars \/ Started(resp') \/ SubmitFails
    BY <1>3, Zenon DEF FilterResponse, FilterData, FilterMeta
  <2>4. response_submitted' \in {response_submitted, Oversized, build_response_nva(resp')}
    BY <2>3, Zenon DEF Started, Submitted, SubmitFails, startVars
  <2> QED BY <2>1, <2>2, <2>4, AnnounceKept, Zenon
<1>4. CASE FinishResponse
  <2>1. r' = r /\ fault' = fault /\ resp' \in {resp, h3_response_finalize}
    BY <1>4, Zenon DEF FinishResponse
  <2>2. SubmitAtEnd(resp') \/ SubmitFails
    BY <1>4, Zenon DEF FinishResponse
  <2>3. response_submitted' \in {response_submitted, Oversized, build_response_nva(resp')}
    BY <2>2, Zenon DEF SubmitAtEnd, Submitted, SubmitFails, startVars
  <2> QED BY <2>1, <2>3, AnnounceKept, Zenon
<1>5. CASE \/ (Receive /\ UNCHANGED answerVars) \/ Read \/ Cancel \/ AppendFails
           \/ (\E n \in 1..Len(rest) : AppendChunk(n)) \/ HandlerReturns \/ CompleteResponse
           \/ UNCHANGED vars
  <2>1. UNCHANGED <<r, resp, response_submitted>>
    BY <1>5, Zenon DEF Read, Cancel, AppendFails, AppendChunk, HandlerReturns, CompleteResponse,
       vars, answerVars, startVars
  <2>2. fault' = fault \/ fault' = TRUE
    BY <1>5, Zenon DEF Read, Cancel, AppendFails, AppendChunk, HandlerReturns, CompleteResponse,
       vars, answerVars
  <2>3. /\ r' = r /\ resp' \in {resp, h3_response_finalize}
        /\ response_submitted' \in {response_submitted, Oversized, build_response_nva(resp')}
    BY <2>1
  <2>4. fault => fault'
    BY <2>2, Zenon
  <2> QED BY <2>3, <2>4, AnnounceKept
<1> QED BY <1>1, <1>2, <1>3, <1>4, <1>5, Zenon DEF Next

\* Every step keeps ReturnInv: only HandlerReturns leads there.
LEMMA ReturnStep == PendingInv /\ ReturnInv /\ [Next]_vars => ReturnInv'
<1> SUFFICES ASSUME PendingInv, ReturnInv, [Next]_vars PROVE ReturnInv'
  OBVIOUS
<1> DEFINE returned == out \in {"tail", "last", "done"}
<1>1. CASE out' = "handler" \/ out' = "none"
  BY <1>1 DEF ReturnInv
<1>2. CASE UNCHANGED <<r, given>> /\ (fault => fault') /\ (returned' => returned)
  BY <1>2, Zenon DEF ReturnInv, BodyDropped
<1>3. CASE HandlerReturns
  <2>1. /\ UNCHANGED <<r, given, fault>>
        /\ fault \/ BodyDropped \/ given = r.clength \/ ~Has(r.headers_out, "Content-Length")
    BY <1>3, Zenon DEF HandlerReturns
  <2> QED BY <2>1, Zenon DEF ReturnInv, BodyDropped
<1>4. CASE \/ FilterResponse \/ (\E n \in 1..MaxOut, b \in BOOLEAN : FilterData(n, b))
           \/ (\E b \in BOOLEAN : FilterMeta(b)) \/ FilterError
           \/ \E u, h \in BOOLEAN, a \in Answers : Begin(u, h, a)
  <2>1. out' = "handler"
    BY <1>4, Zenon DEF FilterResponse, FilterData, FilterMeta, FilterError, Called, Begin
  <2> QED BY <1>1, <2>1
<1>5. CASE \/ (Receive /\ UNCHANGED answerVars) \/ Read \/ Cancel \/ AppendFails
           \/ (\E n \in 1..Len(rest) : AppendChunk(n)) \/ UNCHANGED vars
  <2>1. UNCHANGED <<r, given, out>>
    BY <1>5, Zenon DEF Read, Cancel, AppendFails, AppendChunk, vars, answerVars
  <2>2. fault' = fault \/ fault' = TRUE
    BY <1>5, Zenon DEF Read, Cancel, AppendFails, AppendChunk, vars, answerVars
  <2> QED BY <1>2, <2>1, <2>2, Zenon
<1>6. CASE FinishResponse \/ CompleteResponse
  <2>1. UNCHANGED <<r, given, fault>> /\ out \in {"tail", "last"}
    BY <1>6 DEF FinishResponse, CompleteResponse, CompleteWhen
  <2> QED BY <1>2, <2>1
<1> QED BY <1>3, <1>4, <1>5, <1>6, Zenon DEF Next

\* A length that the peer was told is the length of the body it is sent,
\* unless the request was HEAD; a 304 tells none.  This holds for every table
\* of fields and every way in which h3_response_finalize and build_response_nva
\* thin it out.
THEOREM LengthAgreesHolds == Spec => []LengthAgrees
<1>1. Init => AnnounceInv /\ ReturnInv
  <2> SUFFICES ASSUME Init PROVE AnnounceInv /\ ReturnInv
    OBVIOUS
  <2>1. r = NoRequest /\ resp = Nothing /\ response_submitted = Nothing /\ out = "none"
    BY DEF Init
  <2>2. ~Has(Nothing.fields, "Content-Length") /\ Nothing.fields = <<>>
    BY DEF Nothing, Has
  <2>3. <<>> \in Seq(FieldName)
    OBVIOUS
  <2>4. AnnounceInv
    BY <2>1, <2>2, <2>3 DEF AnnounceInv, NoRequest, Nothing
  <2> QED BY <2>1, <2>4 DEF ReturnInv
<1>2. AnswerInv /\ AnnounceInv /\ ReturnInv /\ [Next]_vars => AnnounceInv' /\ ReturnInv'
  BY AnnounceStep, ReturnStep, Zenon DEF AnswerInv
<1>3. AnswerInv /\ AnnounceInv /\ ReturnInv => LengthAgrees
  <2> SUFFICES ASSUME AnswerInv, AnnounceInv, ReturnInv, out = "done", ~fault, ~response_cancelled,
                      Has(response_submitted.fields, "Content-Length")
               PROVE  /\ ~HeaderOnlyStatus(response_submitted.status)
                      /\ IF r.header_only THEN r.clength > 0 ELSE Len(queued) = r.clength
    BY DEF LengthAgrees
  <2>1. Announces
    BY DEF AnnounceInv
  <2>2. ~HeaderOnlyStatus(r.status) /\ (r.header_only => r.clength # 0)
    BY <2>1 DEF Announces, Unset
  <2>3. response_submitted # Oversized /\ response_submitted # Nothing
    BY DEF Oversized, Nothing, Has
  <2>4. response_submitted.status = r.status
    BY <2>3 DEF AnswerInv, StatusInv
  <2>5. ASSUME ~r.header_only PROVE Len(queued) = r.clength
    <3>1. ~BodyDropped
      BY <2>2, <2>5, Zenon DEF BodyDropped
    <3>2. given = r.clength
      BY <2>1, <3>1 DEF ReturnInv, Announces
    <3>3. queued = Bytes(given)
      BY <2>3, <3>1, QueuedAll, Zenon
    <3>4. given \in Nat
      BY DEF AnswerInv, SizeInv
    <3> QED BY <3>2, <3>3, <3>4, BytesSeq
  <2>6. r.clength \in Nat
    BY DEF AnnounceInv
  <2> QED BY <2>2, <2>4, <2>5, <2>6
<1> QED BY <1>1, <1>2, <1>3, AnswerInvariance, PTL DEF Spec
=============================================================================
