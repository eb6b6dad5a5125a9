--------------------------- MODULE SessionProofs ---------------------------
(***************************************************************************)
(* Proofs about Session for every finite set of streams, every read        *)
(* budget, receive buffer, error limit, timeout and bound on the tasks:    *)
(* one worker per stream, no stream or session freed under a worker, one   *)
(* place for every QUIC stream object, a right blocked_streams, and no     *)
(* request dispatched before its end was read.                             *)
(***************************************************************************)
EXTENDS SessionInvariant

(* drain_ready_streams.                                                    *)

\* The drain changes what is known of the request, and may give up the QUIC
\* stream; the table, the worker and the blocked writes are not its business.
Drained(r, q) ==
  /\ q \in StreamRec
  /\ q.tracked = r.tracked /\ q.reclaimed = r.reclaimed /\ q.dispatched = r.dispatched
  /\ q.worker_done = r.worker_done /\ q.write_blocked = r.write_blocked
  /\ q.qstream => r.qstream

\* A closed stream is done if nghttp3 knew it.
LEMMA ClosedFields ==
  ASSUME NEW r \in StreamRec
  PROVE  /\ Drained(r, Closed(r))
         /\ Closed(r).headers_complete = r.headers_complete
         /\ Closed(r).user_data = r.user_data
         /\ Closed(r).body_complete = r.body_complete
         /\ r.user_data \/ r.done => Closed(r).done
<1>1. CASE r.user_data
  BY <1>1, Zenon DEF Closed, Drained, StreamRec
<1>2. CASE ~r.user_data
  BY <1>2, Zenon DEF Closed, Drained, StreamRec
<1> QED BY <1>1, <1>2

\* One change after the other.
LEMMA DrainedTwice ==
  ASSUME NEW r, NEW q, NEW o, Drained(r, q), Drained(q, o)
  PROVE  Drained(r, o)
  BY DEF Drained

\* What the callbacks and the drain itself set on a stream that ends.
LEMMA EndedFields ==
  ASSUME NEW r \in StreamRec, NEW o,
         \/ o = [r EXCEPT !.done = TRUE]
         \/ o = [r EXCEPT !.done = TRUE, !.body_complete = TRUE]
         \/ o = [r EXCEPT !.response_cancelled = TRUE, !.done = TRUE]
         \/ o = [r EXCEPT !.response_cancelled = TRUE, !.done = TRUE, !.body_complete = TRUE,
                          !.qstream = FALSE]
  PROVE  /\ Drained(r, o) /\ o.done = TRUE
         /\ o.headers_complete = r.headers_complete /\ o.user_data = r.user_data
<1>1. CASE o = [r EXCEPT !.done = TRUE]
  BY <1>1, Zenon DEF Drained, StreamRec
<1>2. CASE o = [r EXCEPT !.done = TRUE, !.body_complete = TRUE]
  BY <1>2, Zenon DEF Drained, StreamRec
<1>3. CASE o = [r EXCEPT !.response_cancelled = TRUE, !.done = TRUE]
  BY <1>3, Zenon DEF Drained, StreamRec
<1>4. CASE o = [r EXCEPT !.response_cancelled = TRUE, !.done = TRUE, !.body_complete = TRUE,
                         !.qstream = FALSE]
  BY <1>4, Zenon DEF Drained, StreamRec
<1> QED BY <1>1, <1>2, <1>3, <1>4, Zenon

\* A rejected stream is done.
LEMMA RejectedFields ==
  ASSUME NEW r \in StreamRec
  PROVE  /\ Drained(r, Rejected(r).stream) /\ Rejected(r).stream.done
         /\ Rejected(r).stream.headers_complete = r.headers_complete
         /\ Rejected(r).stream.user_data = r.user_data
<1> DEFINE c == Closed(r)
<1>1. Drained(r, c) /\ c.headers_complete = r.headers_complete /\ c.user_data = r.user_data
  BY ClosedFields
<1>2. Rejected(r).stream = [c EXCEPT !.done = TRUE, !.body_complete = TRUE]
  BY DEF Rejected, Outcome
<1> HIDE DEF c
<1>3. c \in StreamRec
  BY <1>1 DEF Drained
<1> DEFINE d == Rejected(r).stream
<1>4. d = [c EXCEPT !.done = TRUE, !.body_complete = TRUE]
  BY <1>2
<1> HIDE DEF d
<1>5. /\ Drained(c, d) /\ d.done = TRUE
      /\ d.headers_complete = c.headers_complete /\ d.user_data = c.user_data
  BY <1>3, <1>4, EndedFields, Zenon
<1>6. Drained(r, d)
  BY <1>1, <1>5, DrainedTwice
<1> QED BY <1>1, <1>5, <1>6 DEF d

\* The end of the body is fed, or the stream rejected.
LEMMA FinFields ==
  ASSUME NEW r \in StreamRec, NEW o \in FinOutcomes(r)
  PROVE  /\ Drained(r, o.stream)
         /\ o.stream.headers_complete = r.headers_complete
         /\ o.stream.user_data = r.user_data
         /\ o.stream.done \/ o.stream.qstream = r.qstream
<1>1. CASE o = Rejected(r)
  BY <1>1, RejectedFields
<1>2. CASE o.stream = [r EXCEPT !.body_complete = TRUE, !.open = TRUE]
  BY <1>2, Zenon DEF Drained, StreamRec
<1> QED BY <1>1, <1>2 DEF FinOutcomes, Outcome

\* A read that ends the body ends the stream.
LEMMA ReadFields ==
  ASSUME NEW s, NEW r \in StreamRec, NEW q \in Parsed(s, r), q.headers_complete => q.user_data,
         NEW o \in ReadOutcomes(q)
  PROVE  /\ Drained(r, o.stream)
         /\ o.stream.headers_complete => o.stream.user_data
         /\ o.stream.body_complete => o.stream.done \/ r.body_complete
<1>1. PICK u \in {r.user_data, s \in Bidi}, h \in {r.headers_complete, s \in Bidi} :
        q = [r EXCEPT !.open = TRUE, !.user_data = u, !.headers_complete = h]
  BY DEF Parsed
<1>2. u \in BOOLEAN /\ h \in BOOLEAN
  <2>1. r.user_data \in BOOLEAN /\ r.headers_complete \in BOOLEAN
    BY DEF StreamRec
  <2>2. (s \in Bidi) \in BOOLEAN
    OBVIOUS
  <2> QED BY <2>1, <2>2, Zenon
<1>3. Drained(r, q) /\ q.body_complete = r.body_complete
  BY <1>1, <1>2, Zenon DEF Drained, StreamRec
<1>4. q \in StreamRec
  BY <1>3 DEF Drained
<1>5. ASSUME Drained(q, o.stream), o.stream.done,
             o.stream.headers_complete = q.headers_complete, o.stream.user_data = q.user_data
      PROVE  /\ Drained(r, o.stream)
             /\ o.stream.headers_complete => o.stream.user_data
             /\ o.stream.body_complete => o.stream.done \/ r.body_complete
  BY <1>3, <1>5, DrainedTwice
<1>6. CASE o.stream = q
  BY <1>3, <1>6
<1>7. CASE o = Rejected(q)
  BY <1>4, <1>5, <1>7, RejectedFields
<1>8. CASE \/ o.stream = [q EXCEPT !.done = TRUE]
           \/ o.stream = [q EXCEPT !.response_cancelled = TRUE, !.done = TRUE]
           \/ o.stream = [q EXCEPT !.response_cancelled = TRUE, !.done = TRUE,
                                   !.body_complete = TRUE, !.qstream = FALSE]
  <2>1. /\ Drained(q, o.stream) /\ o.stream.done = TRUE
        /\ o.stream.headers_complete = q.headers_complete /\ o.stream.user_data = q.user_data
    BY <1>4, <1>8, EndedFields, Zenon
  <2> QED BY <1>5, <2>1
<1> DEFINE e1 == [q EXCEPT !.done = TRUE]
           e2 == [q EXCEPT !.response_cancelled = TRUE, !.done = TRUE, !.body_complete = TRUE,
                           !.qstream = FALSE]
           e3 == [q EXCEPT !.response_cancelled = TRUE, !.done = TRUE]
<1>9. \/ o = Outcome(q, FALSE, FALSE) \/ o = Rejected(q) \/ o = Outcome(e1, FALSE, TRUE)
      \/ o = Outcome(e2, FALSE, FALSE) \/ o = Outcome(e3, FALSE, FALSE)
  BY Zenon DEF ReadOutcomes
<1> HIDE DEF e1, e2, e3
<1>10. o.stream = q \/ o = Rejected(q) \/ o.stream = e1 \/ o.stream = e2 \/ o.stream = e3
  BY <1>9 DEF Outcome
<1> QED BY <1>6, <1>7, <1>8, <1>10 DEF e1, e2, e3

\* The stream at the cursor is one of the session's.
LEMMA CurrentStream ==
  ASSUME Types, Visiting
  PROVE  Current \in Sids /\ CursorAfter \in Nat /\ Len(snapshot) \in Nat
<1>1. snapshot \in Seq(Sids) /\ offset \in Nat /\ stream_drain_cursor \in Nat
  BY DEF Types
<1> DEFINE n == Len(snapshot)
           c == stream_drain_cursor + offset
<1>2. n \in Nat /\ n > 0 /\ c \in Nat
  BY <1>1 DEF Visiting
<1>3. snapshot \in [1..n -> Sids]
  BY <1>1
<1> HIDE DEF n, c
<1>4. c % n \in 0..(n - 1)
  BY <1>2
<1>5. (c % n) + 1 \in 1..n /\ ((c % n) + 1) % n \in Nat
  BY <1>2, <1>4
<1> QED BY <1>2, <1>3, <1>5 DEF Current, CursorAfter, Index, n, c

\* Where the drain goes on after a visit.
LEMMA VisitDone ==
  ASSUME Types, Visiting, NEW s, NEW r, NextVisit(s, r)
  PROVE  /\ completed' = completed \/ (Ready(s, r) /\ completed' = Append(completed, s))
         /\ offset' \in Nat /\ stream_drain_cursor' \in Nat
<1>1. CursorAfter \in Nat /\ Len(snapshot) \in Nat
  BY CurrentStream
<1>2. offset \in Nat /\ stream_drain_cursor \in Nat
  BY DEF Types
<1>3. completed' = completed \/ (Ready(s, r) /\ completed' = Append(completed, s))
  BY DEF NextVisit
<1>4. offset' \in Nat /\ stream_drain_cursor' \in Nat
  BY <1>1, <1>2 DEF NextVisit
<1> QED BY <1>3, <1>4

\* A step of drain_one_stream on stream s, which it leaves as r.
DrainTo(s, r) ==
  /\ pc = "drain" /\ ~ngh3_dead
  /\ Drained(st[s], r) /\ st' = [st EXCEPT ![s] = r] /\ pending_free' = QueueFree(s, r)
  /\ r.headers_complete => r.user_data
  /\ r.body_complete /\ ~r.done =>
       ReadFinished(s)' /\ (input'[s].finished \/ ~r.user_data)
  /\ input' \in [Sids -> InputRec]
  /\ \A t \in Sids : /\ input'[t].state = input[t].state
                     /\ input[t].finished => input'[t].finished
                     /\ input[t].reset => input'[t].reset
  /\ completed' = completed \/ (Ready(s, r) /\ completed' = Append(completed, s))
  /\ offset' \in Nat /\ stream_drain_cursor' \in Nat
  /\ UNCHANGED <<tasks, active_tasks, freed, blocked_streams, snapshot, pc, conn_closed>>

\* A visit of a stream whose receive side was finished before.
LEMMA FinishedDrains ==
  ASSUME Inv, DrainFinished
  PROVE  \E s \in Sids : \E r : DrainTo(s, r)
<1>1. Types /\ WholeInv /\ Visiting
  BY DEF Inv, DrainFinished
<1>2. PICK s \in Sids : s = Current
  BY <1>1, CurrentStream
<1> DEFINE r == st[s]
           closing(o) == IF o.stream.qstream /\ WriteFinished(s)
                         THEN [o EXCEPT !.stream = Closed(@)] ELSE o
<1>3. /\ ~r.done /\ r.qstream /\ ReadFinished(s) /\ UNCHANGED input
      /\ UNCHANGED <<tasks, active_tasks, freed, blocked_streams, snapshot, pc, conn_closed>>
  BY <1>2 DEF DrainFinished, DrainFrame, ioVars
<1>4. PICK o \in IF r.body_complete THEN {Outcome(r, FALSE, FALSE)} ELSE FinOutcomes(r) :
             Apply(s, closing(o)) /\ NextVisit(s, closing(o).stream)
  BY <1>2, Zenon DEF DrainFinished
<1>5. r \in StreamRec /\ input \in [Sids -> InputRec]
  BY <1>1 DEF Types
<1>6. ReadFinished(s)' /\ (input[s].finished \/ WriteFinished(s))
  BY <1>3 DEF ReadFinished, WriteFinished
<1>7. r.headers_complete => r.user_data
  BY <1>1 DEF WholeInv
<1> HIDE DEF r
<1>8. /\ Drained(r, o.stream) /\ o.stream.headers_complete = r.headers_complete
      /\ o.stream.user_data = r.user_data
      /\ o.stream.done \/ o.stream.qstream = r.qstream
      /\ r.body_complete => o.stream = r
  <2>1. CASE r.body_complete
    <3>1. o.stream = r
      BY <1>4, <2>1 DEF Outcome
    <3> QED BY <1>5, <3>1 DEF Drained
  <2>2. CASE ~r.body_complete
    BY <1>4, <1>5, <2>2, FinFields
  <2> QED BY <2>1, <2>2
<1> DEFINE x == closing(o).stream
<1>9. x = IF o.stream.qstream /\ WriteFinished(s) THEN Closed(o.stream) ELSE o.stream
  <2>1. "stream" \in DOMAIN o
    <3>1. \A a, b, c : "stream" \in DOMAIN Outcome(a, b, c)
      BY DEF Outcome
    <3> QED BY <1>4, <3>1, Zenon DEF FinOutcomes, Rejected
  <2> QED BY <2>1
<1> HIDE DEF x
<1>10. o.stream \in StreamRec
  BY <1>8 DEF Drained
<1>11. Drained(r, x) /\ x.headers_complete = r.headers_complete /\ x.user_data = r.user_data
  BY <1>8, <1>9, <1>10, ClosedFields, DrainedTwice
<1>12. x.body_complete /\ ~x.done => input[s].finished \/ ~x.user_data
  <2>1. SUFFICES ASSUME x.body_complete, ~x.done, x.user_data PROVE input[s].finished
    OBVIOUS
  <2>2. CASE x = o.stream
    <3>1. CASE r.body_complete
      BY <1>1, <1>3, <1>8, <2>1, <2>2, <3>1, Zenon DEF WholeInv, r
    <3>2. CASE ~r.body_complete
      <4>1. o.stream.qstream /\ ~o.stream.done
        BY <1>3, <1>8, <2>1, <2>2, Zenon
      <4>2. CASE WriteFinished(s)
        <5>1. x = Closed(o.stream) /\ o.stream.user_data
          BY <1>9, <2>1, <2>2, <4>1, <4>2
        <5> QED BY <1>10, <2>1, <5>1, ClosedFields
      <4> QED BY <1>6, <4>2
    <3> QED BY <3>1, <3>2
  <2>3. CASE x = Closed(o.stream)
    BY <1>10, <2>1, <2>3, <1>8, <1>11, ClosedFields
  <2> QED BY <1>9, <2>2, <2>3
<1>13. st' = [st EXCEPT ![s] = x] /\ pending_free' = QueueFree(s, x) /\ NextVisit(s, x)
  BY <1>4 DEF Apply, x
<1>14. /\ completed' = completed \/ (Ready(s, x) /\ completed' = Append(completed, s))
       /\ offset' \in Nat /\ stream_drain_cursor' \in Nat
  BY <1>1, <1>13, VisitDone
<1>15. pc = "drain" /\ ~ngh3_dead
  BY <1>1 DEF Visiting
<1>16. x.headers_complete => x.user_data
  BY <1>7, <1>11
<1>17. DrainTo(s, x)
  BY <1>3, <1>5, <1>6, <1>11, <1>12, <1>13, <1>14, <1>15, <1>16 DEF DrainTo, r
<1> QED BY <1>17

\* A turn of the read loop that reads.
LEMMA ReadDrains ==
  ASSUME Inv, DrainRead
  PROVE  \E s \in Sids : \E r : DrainTo(s, r)
<1>1. Types /\ WholeInv /\ Visiting
  BY DEF Inv, DrainRead
<1>2. PICK s \in Sids : s = Current
  BY <1>1, CurrentStream
<1> DEFINE r == st[s]
<1>3. /\ ~r.done /\ r.qstream /\ ~ReadFinished(s) /\ input[s].data > 0
      /\ input' = [input EXCEPT ![s].data = @ - 1]
      /\ UNCHANGED <<tasks, active_tasks, freed, blocked_streams, snapshot, pc, conn_closed>>
  BY <1>2 DEF DrainRead, DrainFrame, ioVars
<1>4. PICK q \in Parsed(s, r) : /\ q.headers_complete => q.user_data
        /\ \E o \in ReadOutcomes(q) :
             /\ Apply(s, o)
             /\ IF o.stream.done \/ reads_remaining' = 0 THEN NextVisit(s, o.stream)
                ELSE UNCHANGED <<offset, completed, stream_drain_cursor>>
  BY <1>2 DEF DrainRead
<1>5. PICK o \in ReadOutcomes(q) :
        /\ Apply(s, o)
        /\ NextVisit(s, o.stream) \/ UNCHANGED <<offset, completed, stream_drain_cursor>>
  BY <1>4
<1>6. r \in StreamRec /\ input \in [Sids -> InputRec]
  BY <1>1 DEF Types
<1>7. ~r.body_complete
  BY <1>1, <1>3 DEF WholeInv
<1> DEFINE x == o.stream
<1> HIDE DEF r
<1>8. Drained(r, x) /\ (x.headers_complete => x.user_data) /\ (x.body_complete => x.done)
  BY <1>4, <1>5, <1>6, <1>7, ReadFields
<1>9. /\ input' \in [Sids -> InputRec]
      /\ \A t \in Sids : /\ input'[t].state = input[t].state
                         /\ input'[t].finished = input[t].finished
                         /\ input'[t].reset = input[t].reset
  <2>1. input[s] \in InputRec /\ input[s].data - 1 \in 0..RecvCap /\ RecvCap \in Nat
    BY <1>3, <1>6, SessionAssumption DEF InputRec
  <2> DEFINE i == [input[s] EXCEPT !.data = @ - 1]
  <2>2. i \in InputRec /\ i.state = input[s].state /\ i.finished = input[s].finished
        /\ i.reset = input[s].reset
    BY <2>1 DEF InputRec
  <2>3. \A t \in Sids : input'[t] = IF t = s THEN i ELSE input[t]
    BY <1>3, <1>6
  <2> HIDE DEF i
  <2> QED BY <1>3, <1>6, <2>2, <2>3
<1>10. st' = [st EXCEPT ![s] = x] /\ pending_free' = QueueFree(s, x)
  BY <1>5 DEF Apply
<1>11. /\ completed' = completed \/ (Ready(s, x) /\ completed' = Append(completed, s))
       /\ offset' \in Nat /\ stream_drain_cursor' \in Nat
  <2>1. CASE NextVisit(s, x)
    BY <1>1, <2>1, VisitDone
  <2>2. CASE UNCHANGED <<offset, completed, stream_drain_cursor>>
    BY <1>1, <2>2 DEF Types
  <2> QED BY <1>5, <2>1, <2>2
<1>12. pc = "drain" /\ ~ngh3_dead
  BY <1>1 DEF Visiting
<1> HIDE DEF x
<1>13. DrainTo(s, x)
  BY <1>3, <1>8, <1>9, <1>10, <1>11, <1>12 DEF DrainTo, r
<1> QED BY <1>13

\* The read loop finds the FIN, or nothing to read.
LEMMA EndDrains ==
  ASSUME Inv, DrainEnd
  PROVE  \E s \in Sids : \E r : DrainTo(s, r)
<1>1. Types /\ WholeInv /\ Visiting
  BY DEF Inv, DrainEnd
<1>2. PICK s \in Sids : s = Current
  BY <1>1, CurrentStream
<1> DEFINE r == st[s]
<1>3. /\ ~r.done /\ r.qstream /\ ~ReadFinished(s)
      /\ UNCHANGED <<tasks, active_tasks, freed, blocked_streams, snapshot, pc, conn_closed>>
  BY <1>2 DEF DrainEnd, DrainFrame, ioVars
<1>4. r \in StreamRec /\ st \in [Sids -> StreamRec] /\ input \in [Sids -> InputRec]
  BY <1>1 DEF Types
<1>5. (r.headers_complete => r.user_data) /\ ~r.body_complete
  BY <1>1, <1>3 DEF WholeInv
<1>6. pc = "drain" /\ ~ngh3_dead
  BY <1>1 DEF Visiting
<1>7. CASE input[s].fin
  <2>1. PICK o \in FinOutcomes(r) : Apply(s, o) /\ NextVisit(s, o.stream)
    BY <1>2, <1>7 DEF DrainEnd
  <2>2. input' = [input EXCEPT ![s].finished = TRUE]
    BY <1>2, <1>7 DEF DrainEnd
  <2> DEFINE x == o.stream
             i == [input[s] EXCEPT !.finished = TRUE]
  <2> HIDE DEF r
  <2>3. Drained(r, x) /\ x.headers_complete = r.headers_complete /\ x.user_data = r.user_data
    BY <1>4, <2>1, FinFields
  <2>4. i \in InputRec /\ i.state = input[s].state /\ i.finished = TRUE /\ i.reset = input[s].reset
    BY <1>4, Zenon DEF InputRec
  <2>5. \A t \in Sids : input'[t] = IF t = s THEN i ELSE input[t]
    BY <1>4, <2>2
  <2>6. st' = [st EXCEPT ![s] = x] /\ pending_free' = QueueFree(s, x)
    BY <2>1 DEF Apply
  <2>7. /\ completed' = completed \/ (Ready(s, x) /\ completed' = Append(completed, s))
        /\ offset' \in Nat /\ stream_drain_cursor' \in Nat
    BY <1>1, <2>1, VisitDone
  <2> HIDE DEF x, i
  <2>8. /\ input' \in [Sids -> InputRec] /\ input'[s].finished
        /\ \A t \in Sids : /\ input'[t].state = input[t].state
                           /\ input[t].finished => input'[t].finished
                           /\ input[t].reset => input'[t].reset
    BY <1>4, <2>2, <2>4, <2>5, Zenon
  <2>9. ReadFinished(s)'
    BY <2>8 DEF ReadFinished
  <2>10. DrainTo(s, x)
    BY <1>3, <1>5, <1>6, <2>3, <2>6, <2>7, <2>8, <2>9, Zenon DEF DrainTo, r
  <2> QED BY <2>10
<1>8. CASE ~input[s].fin
  <2>1. NextVisit(s, r) /\ UNCHANGED <<input, st, pending_free>>
    BY <1>2, <1>8 DEF DrainEnd
  <2>2. /\ completed' = completed \/ (Ready(s, r) /\ completed' = Append(completed, s))
        /\ offset' \in Nat /\ stream_drain_cursor' \in Nat
    BY <1>1, <2>1, VisitDone
  <2>3. st' = [st EXCEPT ![s] = r] /\ pending_free' = QueueFree(s, r)
    BY <1>4, <2>1 DEF QueueFree
  <2>4. Drained(r, r)
    BY <1>4 DEF Drained
  <2>5. DrainTo(s, r)
    BY <1>3, <1>4, <1>5, <1>6, <2>1, <2>2, <2>3, <2>4, Zenon DEF DrainTo
  <2> QED BY <2>5
<1> QED BY <1>7, <1>8

\* h3_session_queue_free moves the QUIC stream object from the stream to
\* pending_free, where it then is once more.
LEMMA QueuedOccurs ==
  ASSUME Types, NEW s \in Sids, pending_free' = Append(pending_free, s)
  PROVE  /\ pending_free' \in Seq(Sids)
         /\ Occurrences(s)' = Occurrences(s) + 1
         /\ \A t \in Sids : t # s => Occurrences(t)' = Occurrences(t)
<1> DEFINE n == Len(pending_free)
           at(t) == {i \in 1..n : pending_free[i] = t}
<1>1. pending_free \in Seq(Sids) /\ n \in Nat
  BY DEF Types
<1>2. /\ pending_free' \in Seq(Sids) /\ Len(pending_free') = n + 1
      /\ \A i \in 1..n : pending_free'[i] = pending_free[i]
      /\ pending_free'[n + 1] = s
  BY <1>1, AppendProperties
<1>3. \A t \in Sids : t # s => {i \in 1..Len(pending_free') : pending_free'[i] = t} = at(t)
  BY <1>1, <1>2
<1>4. {i \in 1..Len(pending_free') : pending_free'[i] = s} = at(s) \cup {n + 1} /\ n + 1 \notin at(s)
  BY <1>1, <1>2
<1>5. IsFiniteSet(at(s))
  BY OccursFinite, Zenon
<1>6. Cardinality(at(s) \cup {n + 1}) = Cardinality(at(s)) + 1
  BY <1>4, <1>5, FS_AddElement, Zenon
<1> QED BY <1>2, <1>3, <1>4, <1>6, Zenon DEF Occurrences

\* The drain of a stream keeps the invariant.
LEMMA DrainInv ==
  ASSUME Inv, NEW s \in Sids, NEW r, DrainTo(s, r)
  PROVE  Inv'
<1>1. Types /\ WorkInv /\ TaskInv /\ OwnInv /\ BlockInv /\ WholeInv /\ Bidi \subseteq Sids
  BY SessionAssumption DEF Inv
<1>2. /\ st \in [Sids -> StreamRec] /\ completed \in Seq(Bidi) /\ pending_free \in Seq(Sids)
  BY <1>1 DEF Types
<1>3. Drained(st[s], r) /\ st' = [st EXCEPT ![s] = r] /\ pending_free' = QueueFree(s, r)
  BY Zenon DEF DrainTo
<1>4. /\ pc = "drain" /\ ~ngh3_dead
      /\ UNCHANGED <<tasks, active_tasks, freed, blocked_streams, snapshot, pc, conn_closed>>
  BY Zenon DEF DrainTo
<1>5. /\ input' \in [Sids -> InputRec]
      /\ \A t \in Sids : /\ input'[t].state = input[t].state
                         /\ input[t].finished => input'[t].finished
                         /\ input[t].reset => input'[t].reset
  BY DEF DrainTo
<1>6. \A t \in Sids : st'[t] = IF t = s THEN r ELSE st[t]
  BY <1>2, <1>3
<1>7. st' \in [Sids -> StreamRec]
  BY <1>2, <1>3 DEF Drained
<1>8. \A t \in Sids : Drained(st[t], st'[t])
  BY <1>2, <1>3, <1>6 DEF Drained
<1>9. completed' \in Seq(Bidi) /\ \A i \in 1..Len(completed') : input'[completed'[i]].finished
  <2>1. \A i \in 1..Len(completed) : completed[i] \in Sids /\ input'[completed[i]].finished
    <3>1. \A i \in 1..Len(completed) : completed[i] \in Bidi
      BY <1>2
    <3> QED BY <1>1, <1>5, <3>1, Zenon DEF WholeInv
  <2>2. CASE completed' = completed
    BY <1>2, <2>1, <2>2
  <2>3. CASE Ready(s, r) /\ completed' = Append(completed, s)
    <3>1. s \in Bidi /\ input'[s].finished
      BY <2>3, Zenon DEF Ready, DrainTo
    <3>2. /\ completed' \in Seq(Bidi) /\ Len(completed') = Len(completed) + 1
          /\ \A i \in 1..Len(completed) : completed'[i] = completed[i]
          /\ completed'[Len(completed) + 1] = s /\ Len(completed) \in Nat
      BY <1>2, <2>3, <3>1, AppendProperties
    <3> QED BY <2>1, <3>1, <3>2
  <2> QED BY <2>2, <2>3, Zenon DEF DrainTo
<1>10. pending_free' \in Seq(Sids)
  BY <1>1, <1>2, <1>3, QueuedOccurs DEF QueueFree
<1>11. Types'
  <2>1. snapshot' \in Seq(Sids)
    BY <1>1, <1>4 DEF Types
  <2>2. /\ tasks' \in [Sids -> [TaskStates -> Nat]] /\ freed' \in [Sids -> Nat]
        /\ active_tasks' \in Int /\ blocked_streams' \in Int
    BY <1>1, <1>4, Zenon DEF Types
  <2>3. offset' \in Nat /\ stream_drain_cursor' \in Nat
    BY Zenon DEF DrainTo
  <2> QED BY <1>5, <1>7, <1>9, <1>10, <2>1, <2>2, <2>3, Zenon DEF Types
<1>12. WorkInv'
  BY <1>1, <1>4, <1>8, WorkKept, Zenon DEF Drained
<1>13. TaskInv'
  BY <1>1, <1>4, TaskKept
<1>14. OwnInv'
  <2>1. LockHeld'
    BY <1>4 DEF LockHeld
  <2>2. \A t \in Sids : Occurrences(t) \in Nat /\ freed[t] \in Nat
    BY <1>1, OccursFinite, Zenon DEF Types
  <2>3. CASE st[s].qstream /\ ~r.qstream
    <3>1. pending_free' = Append(pending_free, s)
      BY <1>3, <2>3 DEF QueueFree
    <3>2. Occurrences(s)' = Occurrences(s) + 1 /\ \A t \in Sids : t # s => Occurrences(t)' = Occurrences(t)
      BY <1>1, <3>1, QueuedOccurs
    <3>3. Held(s) = 1 /\ Held(s)' = 0 /\ \A t \in Sids : t # s => Held(t)' = Held(t)
      BY <1>6, <2>3 DEF Held
    <3>4. \A t \in Sids : freed'[t] + Occurrences(t)' + Held(t)' = freed[t] + Occurrences(t) + Held(t)
      BY <1>4, <2>2, <3>2, <3>3
    <3> QED BY <1>1, <1>5, <2>1, <3>4 DEF OwnInv
  <2>4. CASE ~(st[s].qstream /\ ~r.qstream)
    <3>1. pending_free' = pending_free
      BY <1>3, <2>4 DEF QueueFree
    <3>2. \A t \in Sids : Held(t)' = Held(t)
      BY <1>3, <1>6, <2>4 DEF Held, Drained
    <3>3. \A t \in Sids : Occurrences(t)' = Occurrences(t)
      BY <3>1 DEF Occurrences
    <3> QED BY <1>1, <1>4, <1>5, <2>1, <3>2, <3>3 DEF OwnInv
  <2> QED BY <2>3, <2>4
<1>15. BlockInv'
  BY <1>1, <1>4, <1>5, <1>8, BlockKept DEF Drained
<1>16. WholeInv'
  <2>1. \A t \in Sids : ReadFinished(t) => ReadFinished(t)'
    BY <1>4, <1>5, Zenon DEF ReadFinished
  <2>2. /\ r.headers_complete => r.user_data
        /\ r.body_complete /\ ~r.done => ReadFinished(s)' /\ (input'[s].finished \/ ~r.user_data)
    BY Zenon DEF DrainTo
  <2>3. \A t \in Sids : st'[t].dispatched => t \in Bidi /\ input'[t].finished
    BY <1>1, <1>5, <1>8, Zenon DEF WholeInv, Drained
  <2>4. ASSUME NEW t \in Sids
        PROVE  /\ st'[t].headers_complete => st'[t].user_data
               /\ st'[t].body_complete /\ ~st'[t].done =>
                    ReadFinished(t)' /\ (input'[t].finished \/ ~st'[t].user_data)
    <3>1. CASE t = s
      BY <1>6, <2>2, <3>1
    <3>2. CASE t # s
      BY <1>1, <1>5, <1>6, <2>1, <3>2 DEF WholeInv
    <3> QED BY <3>1, <3>2, Zenon
  <2> QED BY <1>9, <2>3, <2>4, Zenon DEF WholeInv
<1> QED BY <1>11, <1>12, <1>13, <1>14, <1>15, <1>16 DEF Inv
-----------------------------------------------------------------------------
(* Reclaim, flush and destruction.                                         *)

\* Taking a part out of a finite set.
LEMMA WithoutPart ==
  ASSUME NEW S, IsFiniteSet(S), NEW T \in SUBSET S
  PROVE  Cardinality(S \ T) = Cardinality(S) - Cardinality(T) /\ Cardinality(S) \in Nat
<1>1. IsFiniteSet(T) /\ IsFiniteSet(S \ T)
  BY FS_Subset
<1>2. Cardinality(T) \in Nat /\ Cardinality(S \ T) \in Nat /\ Cardinality(S) \in Nat
  BY <1>1, FS_CardinalityType
<1>3. (S \ T) \cup T = S /\ (S \ T) \cap T = {}
  OBVIOUS
<1>4. Cardinality(S) = Cardinality(S \ T) + Cardinality(T) - 0
  BY <1>1, <1>3, FS_Union, FS_EmptySet
<1> QED BY <1>2, <1>4

\* The write-blocked streams are finitely many.
LEMMA BlockedFinite == IsFiniteSet(Blocked)
  BY FS_Subset, SessionAssumption DEF Blocked

\* A step that unblocks the streams in F, and takes at most those from the table.
LEMMA BlockShrinks ==
  ASSUME BlockInv, pc # "gone", blocked_streams \in Int, UNCHANGED input,
         NEW F \in SUBSET Blocked, Blocked' = Blocked \ F,
         blocked_streams' = blocked_streams - Cardinality(F),
         \A t \in Sids : /\ st'[t].tracked => st[t].tracked
                         /\ st'[t].write_blocked => st'[t].tracked
  PROVE  BlockInv' /\ blocked_streams' \in Int
<1>1. /\ Cardinality(Blocked \ F) = Cardinality(Blocked) - Cardinality(F)
      /\ Cardinality(Blocked) \in Nat /\ Cardinality(F) \in Nat
  BY BlockedFinite, WithoutPart, FS_Subset, FS_CardinalityType
<1> QED BY <1>1 DEF BlockInv

\* The reclaim loop keeps the invariant: it takes only streams whose worker
\* finished, and counts those that were write-blocked out.
LEMMA ReclaimInv ==
  ASSUME Inv, EndDrain
  PROVE  Inv'
<1> DEFINE gone == {s \in Tracked : Reclaimable(s)}
           F == {s \in gone : st[s].write_blocked}
           x(s) == [st[s] EXCEPT !.tracked = FALSE, !.reclaimed = TRUE, !.write_blocked = FALSE]
<1>1. Types /\ WorkInv /\ TaskInv /\ OwnInv /\ BlockInv /\ WholeInv
  BY DEF Inv
<1>2. st \in [Sids -> StreamRec] /\ blocked_streams \in Int
  BY <1>1 DEF Types
<1>3. /\ pc = "drain" /\ pc' = "unblock"
      /\ st' = [s \in Sids |-> IF s \in gone THEN x(s) ELSE st[s]]
      /\ blocked_streams' = blocked_streams - Cardinality(F)
      /\ snapshot' = <<>> /\ offset' = 0
      /\ UNCHANGED <<completed, stream_drain_cursor, ngh3_dead, active_tasks, pending_free,
                     input, freed, tasks, conn_closed>>
  BY Zenon DEF EndDrain, BlockedAfterReclaim, ioVars
<1>4. \A s \in gone : s \in Sids /\ st[s].worker_done
  BY DEF Tracked, Reclaimable
<1>5. ASSUME NEW s \in Sids
      PROVE  /\ x(s) \in StreamRec /\ x(s).tracked = FALSE /\ x(s).write_blocked = FALSE
             /\ x(s).dispatched = st[s].dispatched /\ x(s).worker_done = st[s].worker_done
             /\ x(s).qstream = st[s].qstream
             /\ x(s).headers_complete = st[s].headers_complete
             /\ x(s).user_data = st[s].user_data
             /\ x(s).body_complete = st[s].body_complete /\ x(s).done = st[s].done
  BY <1>2, Zenon DEF StreamRec
<1> HIDE DEF gone, x
<1>6. \A s \in Sids : st'[s] = IF s \in gone THEN x(s) ELSE st[s]
  BY <1>3
<1>7. st' \in [Sids -> StreamRec]
  BY <1>2, <1>3, <1>5, Zenon
<1>8. ASSUME NEW s \in Sids
      PROVE  /\ st'[s].dispatched = st[s].dispatched /\ st'[s].worker_done = st[s].worker_done
             /\ st'[s].qstream = st[s].qstream
             /\ st'[s].headers_complete = st[s].headers_complete
             /\ st'[s].user_data = st[s].user_data
             /\ st'[s].body_complete = st[s].body_complete /\ st'[s].done = st[s].done
  BY <1>5, <1>6, Zenon
<1>9. \A s \in Sids : st'[s].reclaimed => st[s].reclaimed \/ st[s].worker_done
  BY <1>4, <1>6
<1>10. WorkInv'
  BY <1>1, <1>3, <1>8, <1>9, WorkKept
<1>11. TaskInv'
  BY <1>1, <1>3, TaskKept
<1>12. OwnInv'
  <2>1. LockHeld'
    BY <1>3 DEF LockHeld
  <2> QED BY <1>1, <1>3, <1>8, <2>1, OwnKept, Zenon
<1>13. BlockInv' /\ blocked_streams' \in Int
  <2>1. F \in SUBSET Blocked /\ Blocked' = Blocked \ F
    BY <1>4, <1>5, <1>6, Zenon DEF Blocked
  <2>2. \A t \in Sids : st[t].write_blocked => st[t].tracked
    BY <1>1, <1>3 DEF BlockInv
  <2>3. \A t \in Sids : /\ st'[t].tracked => st[t].tracked
                        /\ st'[t].write_blocked => st'[t].tracked
    BY <1>5, <1>6, <2>2, Zenon
  <2> HIDE DEF F
  <2> QED BY <1>1, <1>2, <1>3, <2>1, <2>3, BlockShrinks
<1>14. WholeInv'
  BY <1>1, <1>3, <1>8, WholeKept, Zenon
<1>15. Types'
  <2>1. pending_free' \in Seq(Sids) /\ snapshot' \in Seq(Sids) /\ completed' \in Seq(Bidi)
    BY <1>1, <1>3 DEF Types
  <2>2. /\ input' \in [Sids -> InputRec] /\ tasks' \in [Sids -> [TaskStates -> Nat]]
        /\ freed' \in [Sids -> Nat] /\ active_tasks' \in Int /\ stream_drain_cursor' \in Nat
    BY <1>1, <1>3, Zenon DEF Types
  <2>3. offset' \in Nat
    BY <1>3
  <2> QED BY <1>7, <1>13, <2>1, <2>2, <2>3, Zenon DEF Types
<1> QED BY <1>10, <1>11, <1>12, <1>13, <1>14, <1>15 DEF Inv

\* What the flush leaves of a stream: the table, the worker and the request.
Flushed(r, q) ==
  /\ q \in StreamRec
  /\ q.tracked = r.tracked /\ q.reclaimed = r.reclaimed /\ q.qstream = r.qstream
  /\ q.dispatched = r.dispatched /\ q.worker_done = r.worker_done
  /\ q.headers_complete = r.headers_complete /\ q.user_data = r.user_data
  /\ q.body_complete = r.body_complete /\ q.done = r.done

\* What the flush sets.
LEMMA FlushFields ==
  ASSUME NEW r \in StreamRec
  PROVE  /\ Flushed(r, r)
         /\ Flushed(r, [r EXCEPT !.write_blocked = FALSE])
         /\ Flushed(r, [r EXCEPT !.write_blocked = TRUE])
         /\ Flushed(r, [r EXCEPT !.response = "written"])
         /\ Flushed(r, [r EXCEPT !.response_cancelled = TRUE])
         /\ [r EXCEPT !.write_blocked = FALSE].write_blocked = FALSE
         /\ [r EXCEPT !.write_blocked = TRUE].write_blocked = TRUE
         /\ [r EXCEPT !.response = "written"].write_blocked = r.write_blocked
         /\ [r EXCEPT !.response_cancelled = TRUE].write_blocked = r.write_blocked
  BY Zenon DEF Flushed, StreamRec

\* What is left of the invariant in a step of the flush.
LEMMA FlushRest ==
  ASSUME Inv, st' \in [Sids -> StreamRec], \A t \in Sids : Flushed(st[t], st'[t]),
         blocked_streams' \in Int, pc # "gone", pc' # "gone",
         UNCHANGED <<drainVars, active_tasks, input, tasks, conn_closed>>,
         freed' \in [Sids -> Nat], pending_free' \in Seq(Sids)
  PROVE  Types' /\ WorkInv' /\ TaskInv' /\ WholeInv'
<1>1. Types /\ WorkInv /\ TaskInv /\ WholeInv
  BY DEF Inv
<1>2. UNCHANGED <<snapshot, offset, completed, stream_drain_cursor>>
  BY DEF drainVars
<1>3. WorkInv'
  BY <1>1, WorkKept DEF Flushed
<1>4. TaskInv'
  BY <1>1, TaskKept
<1>5. WholeInv'
  BY <1>1, <1>2, WholeKept, Zenon DEF Flushed
<1>6. Types'
  <2>1. snapshot' \in Seq(Sids) /\ completed' \in Seq(Bidi)
    BY <1>1, <1>2 DEF Types
  <2>2. /\ input' \in [Sids -> InputRec] /\ tasks' \in [Sids -> [TaskStates -> Nat]]
        /\ active_tasks' \in Int /\ offset' \in Nat /\ stream_drain_cursor' \in Nat
    BY <1>1, <1>2, Zenon DEF Types
  <2> QED BY <2>1, <2>2, Zenon DEF Types
<1> QED BY <1>3, <1>4, <1>5, <1>6

\* unblock_writable_streams keeps the invariant: it counts down what it unblocks.
LEMMA UnblockInv ==
  ASSUME Inv, Unblock
  PROVE  Inv'
<1>1. Types /\ OwnInv /\ BlockInv
  BY DEF Inv
<1>2. st \in [Sids -> StreamRec] /\ blocked_streams \in Int
  BY <1>1 DEF Types
<1>3. /\ pc = "unblock" /\ pc' = "flush"
      /\ UNCHANGED <<drainVars, active_tasks, input, tasks, freed, pending_free, ngh3_dead, conn_closed>>
  BY DEF Unblock, ioVars
<1>4. freed' \in [Sids -> Nat] /\ pending_free' \in Seq(Sids)
  BY <1>1, <1>3 DEF Types
<1>5. LockHeld'
  BY <1>3 DEF LockHeld
<1>6. CASE UNCHANGED <<st, blocked_streams>>
  <2>1. \A t \in Sids : Flushed(st[t], st'[t])
    BY <1>2, <1>6, FlushFields, Zenon
  <2>2. Types' /\ WorkInv' /\ TaskInv' /\ WholeInv'
    BY <1>2, <1>3, <1>4, <1>6, <2>1, FlushRest
  <2>3. OwnInv'
    BY <1>1, <1>3, <1>5, <1>6, OwnKept
  <2>4. BlockInv'
    BY <1>1, <1>3, <1>6, BlockKept
  <2> QED BY <2>2, <2>3, <2>4 DEF Inv
<1>7. ASSUME NEW full \in SUBSET Sids,
             st' = [s \in Sids |-> IF s \in {s1 \in Tracked : st[s1].write_blocked /\ s1 \notin full}
                                   THEN [st[s] EXCEPT !.write_blocked = FALSE] ELSE st[s]],
             blocked_streams' = blocked_streams -
               Cardinality({s1 \in Tracked : st[s1].write_blocked /\ s1 \notin full})
      PROVE  Inv'
  <2> DEFINE F == {s1 \in Tracked : st[s1].write_blocked /\ s1 \notin full}
             x(s) == [st[s] EXCEPT !.write_blocked = FALSE]
  <2>1. \A s \in Sids : st'[s] = IF s \in F THEN x(s) ELSE st[s]
    BY <1>7
  <2>2. \A s \in Sids : /\ Flushed(st[s], st[s]) /\ Flushed(st[s], x(s))
                        /\ x(s).write_blocked = FALSE
    BY <1>2, FlushFields, Zenon
  <2>3. F \in SUBSET Blocked
    BY DEF Blocked, Tracked
  <2>4. blocked_streams' = blocked_streams - Cardinality(F)
    BY <1>7
  <2> HIDE DEF F, x
  <2>5. \A s \in Sids : Flushed(st[s], st'[s])
    BY <2>1, <2>2
  <2>6. st' \in [Sids -> StreamRec]
    BY <1>7, <2>5 DEF Flushed
  <2>7. Blocked' = Blocked \ F
    BY <2>1, <2>2 DEF Blocked
  <2>8. \A s \in Sids : /\ st'[s].tracked => st[s].tracked
                        /\ st'[s].write_blocked => st'[s].tracked
    <3>1. \A s \in Sids : st[s].write_blocked => st[s].tracked
      BY <1>1, <1>3, Zenon DEF BlockInv
    <3> QED BY <2>1, <2>2, <2>5, <3>1, Zenon DEF Flushed
  <2>9. BlockInv' /\ blocked_streams' \in Int
    BY <1>1, <1>2, <1>3, <2>3, <2>4, <2>7, <2>8, BlockShrinks
  <2>10. Types' /\ WorkInv' /\ TaskInv' /\ WholeInv'
    BY <1>3, <1>4, <2>5, <2>6, <2>9, FlushRest
  <2>11. OwnInv'
    BY <1>1, <1>3, <1>5, <2>5, OwnKept DEF Flushed
  <2> QED BY <2>9, <2>10, <2>11 DEF Inv
<1>8. PICK full \in SUBSET {s \in Tracked : st[s].qstream} :
        LET freeable == {s \in Tracked : st[s].write_blocked /\ s \notin full}
        IN IF blocked_streams <= 0 THEN UNCHANGED <<st, blocked_streams>>
           ELSE /\ st' = [s \in Sids |-> IF s \in freeable
                                         THEN [st[s] EXCEPT !.write_blocked = FALSE] ELSE st[s]]
                /\ blocked_streams' = blocked_streams - Cardinality(freeable)
  BY Zenon DEF Unblock
<1>9. full \in SUBSET Sids
  BY <1>8 DEF Tracked
<1>10. CASE blocked_streams <= 0
  BY <1>6, <1>8, <1>10
<1>11. CASE ~(blocked_streams <= 0)
  BY <1>7, <1>8, <1>9, <1>11, Zenon
<1> QED BY <1>10, <1>11

\* A write of one stream keeps the invariant: a stream that gets blocked was not
\* blocked before and is in the table.
LEMMA FlushStreamInv ==
  ASSUME Inv, NEW s \in Sids, FlushStream(s)
  PROVE  Inv'
<1>1. Types /\ OwnInv /\ BlockInv
  BY DEF Inv
<1>2. st \in [Sids -> StreamRec] /\ blocked_streams \in Int
  BY <1>1 DEF Types
<1>3. /\ pc = "flush" /\ pc' = "flush" /\ ~st[s].write_blocked
      /\ UNCHANGED <<drainVars, active_tasks, input, tasks, freed, pending_free, ngh3_dead, conn_closed>>
  BY DEF FlushStream, Sendable, ioVars
<1>4. freed' \in [Sids -> Nat] /\ pending_free' \in Seq(Sids)
  BY <1>1, <1>3 DEF Types
<1>5. LockHeld'
  BY <1>3 DEF LockHeld
<1>6. ASSUME NEW x, st' = [st EXCEPT ![s] = x], Flushed(st[s], x), blocked_streams' \in Int, BlockInv'
      PROVE  Inv'
  <2>1. \A t \in Sids : Flushed(st[t], st'[t])
    BY <1>2, <1>6, FlushFields, Zenon
  <2>2. st' \in [Sids -> StreamRec]
    BY <1>2, <1>6 DEF Flushed
  <2>3. Types' /\ WorkInv' /\ TaskInv' /\ WholeInv'
    BY <1>3, <1>4, <1>6, <2>1, <2>2, FlushRest
  <2>4. OwnInv'
    BY <1>1, <1>3, <1>5, <2>1, OwnKept DEF Flushed
  <2> QED BY <1>6, <2>3, <2>4 DEF Inv
<1>7. CASE st' = [st EXCEPT ![s].response = "written"] /\ UNCHANGED blocked_streams
  <2> DEFINE x == [st[s] EXCEPT !.response = "written"]
  <2>1. st' = [st EXCEPT ![s] = x]
    BY <1>2, <1>7
  <2>2. Flushed(st[s], x) /\ x.write_blocked = st[s].write_blocked
    BY <1>2, FlushFields, Zenon
  <2> HIDE DEF x
  <2>3. \A t \in Sids : st'[t] = IF t = s THEN x ELSE st[t]
    BY <1>2, <2>1
  <2>4. BlockInv'
    BY <1>1, <1>3, <1>7, <2>2, <2>3, BlockKept DEF Flushed
  <2> QED BY <1>2, <1>6, <1>7, <2>1, <2>2, <2>4, Zenon
<1>8. CASE /\ st[s].tracked /\ st' = [st EXCEPT ![s].write_blocked = TRUE]
           /\ blocked_streams' = blocked_streams + 1
  <2> DEFINE x == [st[s] EXCEPT !.write_blocked = TRUE]
  <2>1. st' = [st EXCEPT ![s] = x]
    BY <1>2, <1>8
  <2>2. Flushed(st[s], x) /\ x.write_blocked = TRUE
    BY <1>2, FlushFields, Zenon
  <2> HIDE DEF x
  <2>3. \A t \in Sids : st'[t] = IF t = s THEN x ELSE st[t]
    BY <1>2, <2>1
  <2>4. Blocked' = Blocked \cup {s} /\ s \notin Blocked
    BY <1>3, <2>2, <2>3, Zenon DEF Blocked
  <2>5. Cardinality(Blocked') = Cardinality(Blocked) + 1
    BY <2>4, BlockedFinite, FS_AddElement, Zenon
  <2>6. BlockInv'
    BY <1>1, <1>3, <1>8, <2>2, <2>3, <2>5 DEF BlockInv, Flushed
  <2>7. blocked_streams' \in Int
    BY <1>2, <1>8
  <2> QED BY <1>6, <2>1, <2>2, <2>6, <2>7, Zenon
<1> QED BY <1>7, <1>8 DEF FlushStream

\* Where the pass goes on after a flush.
ReturnInv == ret \in {"goaway", "shutdown", "drain", "service"}

\* Every step that starts a flush says where the pass goes on.
LEMMA ReturnStep ==
  ASSUME ReturnInv, [Next]_vars
  PROVE  ReturnInv'
<1>1. \/ UNCHANGED ret \/ ret' = "goaway" \/ ret' = "shutdown" \/ ret' = "drain" \/ ret' = "service"
  <2>1. CASE \E s \in Sids : Worker(s) \/ Peer(s)
    BY <2>1 DEF Worker, TaskRun, TaskFail, TaskReply, TaskDone, TaskLeave, TaskFrame, Peer, Arrival
  <2>2. CASE ConnClose \/ Tick \/ Listener \/ UNCHANGED vars
    BY <2>2 DEF ConnClose, Tick, Listener, vars
  <2>3. CASE BeginPass \/ Goaway \/ CheckConnection \/ ScratchFails \/ \E s \in Sids : AcceptStream(s)
    BY <2>3, Zenon DEF BeginPass, Goaway, CheckConnection, ScratchFails, AcceptStream
  <2>4. CASE BeginDrain \/ SkipStream \/ DrainFinished \/ DrainRead \/ DrainEnd \/ EndDrain
    BY <2>4, Zenon DEF BeginDrain, SkipStream, DrainFinished, DrainRead, DrainEnd, DrainFrame, EndDrain
  <2>5. CASE Unblock \/ (\E s \in Sids : FlushStream(s)) \/ EndFlush \/ NoFlush
    BY <2>5 DEF Unblock, FlushStream, EndFlush, NoFlush, AfterFlush
  <2>6. CASE Dispatch \/ EndDispatch \/ IdleCheck \/ Destroy \/ EndPass
    BY <2>6, Zenon DEF Dispatch, EndDispatch, IdleCheck, Destroy, EndPass
  <2> QED BY <2>1, <2>2, <2>3, <2>4, <2>5, <2>6 DEF Next, EventThread
<1> QED BY <1>1 DEF ReturnInv

\* Freeing the queued QUIC stream objects moves each from pending_free to freed.
LEMMA FreeQueued ==
  ASSUME Types, OwnInv, UNCHANGED input, \A s \in Sids : st'[s].qstream = st[s].qstream,
         freed' = [s \in Sids |-> freed[s] + Occurrences(s)], pending_free' = <<>>
  PROVE  OwnInv' /\ freed' \in [Sids -> Nat] /\ pending_free' \in Seq(Sids)
<1>1. \A s \in Sids : Occurrences(s) \in Nat /\ freed[s] \in Nat
  BY OccursFinite, Zenon DEF Types
<1>2. freed' \in [Sids -> Nat] /\ \A s \in Sids : freed'[s] = freed[s] + Occurrences(s)
  BY <1>1
<1>3. \A s \in Sids : Occurrences(s)' = 0
  <2>1. \A s \in Sids : {i \in 1..Len(pending_free') : pending_free'[i] = s} = {}
    OBVIOUS
  <2> QED BY <2>1, FS_EmptySet DEF Occurrences
<1>4. \A s \in Sids : Held(s)' = Held(s) /\ Held(s) \in {0, 1}
  BY DEF Held
<1>5. \A s \in Sids : freed'[s] + Occurrences(s)' + Held(s)' = freed[s] + Occurrences(s) + Held(s)
  BY <1>1, <1>2, <1>3, <1>4
<1>6. pending_free' \in Seq(Sids)
  OBVIOUS
<1> QED BY <1>2, <1>5, <1>6 DEF OwnInv

\* What the end of a flush keeps, apart from the QUIC stream objects.
LEMMA AfterFlushInv ==
  ASSUME Inv, ReturnInv, AfterFlush, pc # "gone",
         freed' \in [Sids -> Nat], pending_free' \in Seq(Sids)
  PROVE  /\ Types' /\ WorkInv' /\ TaskInv' /\ BlockInv' /\ WholeInv'
         /\ UNCHANGED input /\ \A s \in Sids : st'[s].qstream = st[s].qstream
<1>1. Types /\ BlockInv
  BY DEF Inv
<1>2. st \in [Sids -> StreamRec] /\ blocked_streams \in Int
  BY <1>1 DEF Types
<1>3. UNCHANGED <<drainVars, active_tasks, blocked_streams, input, tasks, conn_closed>>
  BY DEF AfterFlush, ioVars
<1>4. pc' # "gone"
  BY DEF AfterFlush, ReturnInv
<1>5. PICK stalled \in SUBSET Sids :
        st' = [s \in Sids |-> IF s \in stalled
                              THEN [st[s] EXCEPT !.response_cancelled = TRUE] ELSE st[s]]
  BY Zenon DEF AfterFlush, Tracked
<1>6. \A s \in Sids : st'[s] = st[s] \/ st'[s] = [st[s] EXCEPT !.response_cancelled = TRUE]
  BY <1>5
<1>7. \A s \in Sids : Flushed(st[s], st'[s]) /\ st'[s].write_blocked = st[s].write_blocked
  <2> DEFINE x(s) == [st[s] EXCEPT !.response_cancelled = TRUE]
  <2>1. \A s \in Sids : /\ Flushed(st[s], st[s]) /\ Flushed(st[s], x(s))
                        /\ x(s).write_blocked = st[s].write_blocked
    BY <1>2, FlushFields, Zenon
  <2>2. \A s \in Sids : st'[s] = st[s] \/ st'[s] = x(s)
    BY <1>6
  <2> HIDE DEF x
  <2> QED BY <2>1, <2>2
<1>8. st' \in [Sids -> StreamRec]
  BY <1>5, <1>7 DEF Flushed
<1>9. Types' /\ WorkInv' /\ TaskInv' /\ WholeInv'
  BY <1>2, <1>3, <1>4, <1>7, <1>8, FlushRest
<1>10. BlockInv'
  BY <1>1, <1>3, <1>7, BlockKept DEF Flushed
<1> QED BY <1>3, <1>7, <1>9, <1>10 DEF Flushed

\* The end of flush_nghttp3 keeps the invariant: it frees what is queued, or
\* nghttp3 is dead and stays dead.
LEMMA EndFlushInv ==
  ASSUME Inv, ReturnInv, EndFlush \/ NoFlush
  PROVE  Inv'
<1>1. Types /\ OwnInv
  BY DEF Inv
<1>2. CASE EndFlush
  <2>1. /\ pc = "flush" /\ freed' = [s \in Sids |-> freed[s] + Occurrences(s)]
        /\ pending_free' = <<>> /\ AfterFlush
    BY <1>2 DEF EndFlush
  <2>2. freed' \in [Sids -> Nat] /\ pending_free' \in Seq(Sids)
    <3>1. \A s \in Sids : Occurrences(s) \in Nat /\ freed[s] \in Nat
      BY <1>1, OccursFinite, Zenon DEF Types
    <3> QED BY <2>1, <3>1
  <2>3. /\ Types' /\ WorkInv' /\ TaskInv' /\ BlockInv' /\ WholeInv'
        /\ UNCHANGED input /\ \A s \in Sids : st'[s].qstream = st[s].qstream
    BY <2>1, <2>2, AfterFlushInv, Zenon
  <2>4. OwnInv'
    BY <1>1, <2>1, <2>3, FreeQueued
  <2> QED BY <2>3, <2>4 DEF Inv
<1>3. CASE NoFlush
  <2>1. pc = "unblock" /\ ngh3_dead /\ UNCHANGED <<ngh3_dead, freed, pending_free>> /\ AfterFlush
    BY <1>3 DEF NoFlush
  <2>2. freed' \in [Sids -> Nat] /\ pending_free' \in Seq(Sids)
    BY <1>1, <2>1 DEF Types
  <2>3. /\ Types' /\ WorkInv' /\ TaskInv' /\ BlockInv' /\ WholeInv'
        /\ UNCHANGED input /\ \A s \in Sids : st'[s].qstream = st[s].qstream
    BY <2>1, <2>2, AfterFlushInv, Zenon
  <2>4. OwnInv'
    BY <1>1, <2>1, <2>3, OwnKept, Zenon
  <2> QED BY <2>3, <2>4 DEF Inv
<1> QED BY <1>2, <1>3

\* h3_session_destroy keeps the invariant: no task is left, and what is queued is
\* freed.
LEMMA DestroyInv ==
  ASSUME Inv, Destroy
  PROVE  Inv'
<1>1. Types /\ WorkInv /\ TaskInv /\ OwnInv /\ WholeInv
  BY DEF Inv
<1>2. st \in [Sids -> StreamRec]
  BY <1>1 DEF Types
<1>3. /\ active_tasks = 0 /\ pc' = "gone"
      /\ freed' = [s \in Sids |-> freed[s] + Occurrences(s)] /\ pending_free' = <<>>
      /\ UNCHANGED <<drainVars, active_tasks, blocked_streams, input, tasks, conn_closed>>
  BY Zenon DEF Destroy, ioVars
<1>4. UNCHANGED <<snapshot, offset, completed, stream_drain_cursor>>
  BY <1>3 DEF drainVars
<1>5. st' = [s \in Sids |-> IF s \in Tracked THEN
              [st[s] EXCEPT !.tracked = FALSE, !.response_cancelled = TRUE, !.open = FALSE]
              ELSE [st[s] EXCEPT !.open = FALSE]]
  BY Zenon DEF Destroy
<1>6. ASSUME NEW r \in StreamRec, NEW q,
             \/ q = [r EXCEPT !.tracked = FALSE, !.response_cancelled = TRUE, !.open = FALSE]
             \/ q = [r EXCEPT !.open = FALSE]
      PROVE  /\ q \in StreamRec /\ q.reclaimed = r.reclaimed /\ q.qstream = r.qstream
             /\ q.dispatched = r.dispatched /\ q.worker_done = r.worker_done
             /\ q.headers_complete = r.headers_complete /\ q.user_data = r.user_data
             /\ q.body_complete = r.body_complete /\ q.done = r.done
  <2>1. CASE q = [r EXCEPT !.tracked = FALSE, !.response_cancelled = TRUE, !.open = FALSE]
    BY <2>1, Zenon DEF StreamRec
  <2>2. CASE q = [r EXCEPT !.open = FALSE]
    BY <2>2, Zenon DEF StreamRec
  <2> QED BY <1>6, <2>1, <2>2
<1>7. \A s \in Sids :
        \/ st'[s] = [st[s] EXCEPT !.tracked = FALSE, !.response_cancelled = TRUE, !.open = FALSE]
        \/ st'[s] = [st[s] EXCEPT !.open = FALSE]
  BY <1>5, Zenon
<1>8. ASSUME NEW s \in Sids
      PROVE  /\ st'[s] \in StreamRec /\ st'[s].reclaimed = st[s].reclaimed
             /\ st'[s].qstream = st[s].qstream
             /\ st'[s].dispatched = st[s].dispatched /\ st'[s].worker_done = st[s].worker_done
             /\ st'[s].headers_complete = st[s].headers_complete
             /\ st'[s].user_data = st[s].user_data
             /\ st'[s].body_complete = st[s].body_complete /\ st'[s].done = st[s].done
  <2>1. st[s] \in StreamRec
    BY <1>2
  <2> QED BY <1>6, <1>7, <2>1, Zenon
<1>9. st' \in [Sids -> StreamRec]
  BY <1>5, <1>8, Zenon
<1>10. OwnInv' /\ freed' \in [Sids -> Nat] /\ pending_free' \in Seq(Sids)
  BY <1>1, <1>3, <1>8, FreeQueued
<1>11. WorkInv'
  BY <1>1, <1>3, <1>8, WorkKept
<1>12. TaskInv'
  BY <1>1, <1>3, TaskKept
<1>13. BlockInv'
  BY <1>3 DEF BlockInv
<1>14. WholeInv'
  BY <1>1, <1>3, <1>4, <1>8, WholeKept, Zenon
<1>15. Types'
  <2>1. snapshot' \in Seq(Sids) /\ completed' \in Seq(Bidi)
    BY <1>1, <1>4 DEF Types
  <2>2. /\ input' \in [Sids -> InputRec] /\ tasks' \in [Sids -> [TaskStates -> Nat]]
        /\ active_tasks' \in Int /\ blocked_streams' \in Int /\ offset' \in Nat
        /\ stream_drain_cursor' \in Nat
    BY <1>1, <1>3, <1>4, Zenon DEF Types
  <2> QED BY <1>9, <1>10, <2>1, <2>2, Zenon DEF Types
<1> QED BY <1>10, <1>11, <1>12, <1>13, <1>14, <1>15 DEF Inv
-----------------------------------------------------------------------------
(* The theorems.                                                           *)

\* Every step of the event thread, a worker, the peer and the clock keeps the
\* invariant.
LEMMA NextInv ==
  ASSUME Inv, ReturnInv, [Next]_vars
  PROVE  Inv' /\ ReturnInv'
<1>1. ReturnInv'
  BY ReturnStep
<1>2. CASE Quiet
  BY <1>1, <1>2, QuietInv
<1>3. CASE \E s \in Sids : Worker(s) \/ Peer(s)
  BY <1>1, <1>3, WorkerInv, PeerInv
<1>4. CASE \E s \in Sids : AcceptStream(s)
  BY <1>1, <1>4, AcceptInv
<1>5. CASE DrainFinished \/ DrainRead \/ DrainEnd
  <2>1. PICK s \in Sids : \E r : DrainTo(s, r)
    BY <1>5, FinishedDrains, ReadDrains, EndDrains
  <2> QED BY <1>1, <2>1, DrainInv
<1>6. CASE EndDrain \/ Unblock
  BY <1>1, <1>6, ReclaimInv, UnblockInv
<1>7. CASE \E s \in Sids : FlushStream(s)
  BY <1>1, <1>7, FlushStreamInv
<1>8. CASE EndFlush \/ NoFlush
  BY <1>1, <1>8, EndFlushInv
<1>9. CASE Dispatch \/ Destroy
  BY <1>1, <1>9, DispatchInv, DestroyInv
<1>10. Inv'
  BY <1>2, <1>3, <1>4, <1>5, <1>6, <1>7, <1>8, <1>9 DEF Next, EventThread, Quiet
<1> QED BY <1>1, <1>10

\* The inductive invariant of a session: types, one worker per stream, a right
\* task count, one owner of every QUIC stream object, a right blocked_streams,
\* and complete requests.
THEOREM Invariance == Spec => []Inv
<1>1. Init => Inv /\ ReturnInv
  BY InitInv, Zenon DEF Init, ReturnInv
<1>2. Inv /\ ReturnInv /\ [Next]_vars => Inv' /\ ReturnInv'
  BY NextInv
<1> QED BY <1>1, <1>2, PTL DEF Spec

\* drain_ready_streams and h3_session_destroy free nothing a worker still uses:
\* a reclaimed stream has no task at work, a destroyed session no task at all.
THEOREM NoUseAfterFreeHolds == Spec => []NoUseAfterFree
<1>1. Inv => NoUseAfterFree
  <2> SUFFICES ASSUME Inv PROVE NoUseAfterFree
    OBVIOUS
  <2>1. \A s \in Sids : \A p \in TaskStates : tasks[s][p] \in Nat
    BY DEF Inv, Types
  <2>2. \A s \in Sids : InUse(s) \in Nat
    BY <2>1 DEF InUse, TaskStates
  <2>3. \A s \in Sids : st[s].reclaimed => InUse(s) = 0
    BY <2>2 DEF Inv, WorkInv
  <2>4. ASSUME pc = "gone", NEW s \in Sids, NEW p \in TaskStates
        PROVE  tasks[s][p] = 0
    <3>1. TaskSet = {}
      BY <2>4, FS_EmptySet DEF Inv, TaskInv
    <3>2. ~(1 <= tasks[s][p])
      BY <2>1, <3>1, TaskMember
    <3> QED BY <2>1, <3>2
  <2> QED BY <2>3, <2>4 DEF NoUseAfterFree
<1> QED BY <1>1, Invariance, PTL

\* A request has one worker at a time, also when h3_process_request dispatches it
\* again after a failure, and none after stream_worker finished it.
THEOREM OneWorkerPerStreamHolds == Spec => []OneWorkerPerStream
<1>1. Inv => OneWorkerPerStream
  BY DEF Inv, WorkInv, OneWorkerPerStream
<1> QED BY <1>1, Invariance, PTL

\* h3_session_queue_free, flush_nghttp3 and h3_session_destroy keep every QUIC
\* stream object in one place, and free it at most once.
THEOREM QstreamOwnedOnceHolds == Spec => []QstreamOwnedOnce
<1>1. Inv => QstreamOwnedOnce
  BY DEF Inv, OwnInv, QstreamOwnedOnce, Held
<1> QED BY <1>1, Invariance, PTL

\* blocked_streams, which unblock_writable_streams trusts, counts the blocked
\* streams of the table.
THEOREM BlockedCountedHolds == Spec => []BlockedCounted
<1>1. Inv => BlockedCounted
  <2> SUFFICES ASSUME Inv, pc # "gone"
               PROVE  blocked_streams = Cardinality({s \in Tracked : st[s].write_blocked})
    BY DEF BlockedCounted
  <2>1. {s \in Tracked : st[s].write_blocked} = Blocked
    BY DEF Inv, BlockInv, Blocked, Tracked
  <2> QED BY <2>1 DEF Inv, BlockInv
<1> QED BY <1>1, Invariance, PTL

\* drain_one_stream hands h3_process_request only requests whose FIN was read.
THEOREM WholeRequestDispatchedHolds == Spec => []WholeRequestDispatched
<1>1. Inv => WholeRequestDispatched
  BY DEF Inv, WholeInv, WholeRequestDispatched
<1> QED BY <1>1, Invariance, PTL
=============================================================================
