------------------------ MODULE ResponseQueueProofs ------------------------
(***************************************************************************)
(* Proofs about ResponseQueue for every buffer limit, chunk size, vector   *)
(* count, send buffer, stall timeout and every value of SIZE_MAX.          *)
(***************************************************************************)
EXTENDS ResponseQueue, TLAPS

\* The chunks lie one behind the other, end with the last byte appended and
\* cover every byte that is not acknowledged.
Shape ==
  /\ BufferAccounting
  /\ \A i, j \in 1..Len(chunks) : i < j => End(chunks[i]) <= chunks[j].data
  /\ \A i \in 1..Len(chunks) : End(chunks[i]) <= response_len
  /\ \A o \in AckPos..(response_len - 1) :
       \E i \in 1..Len(chunks) : chunks[i].data <= o /\ o < End(chunks[i])

\* nghttp3's window into the queue: what it wrote is what is acknowledged or
\* about to be, what it was handed ends where the next chunk to hand out starts.
Window ==
  /\ tracked =>
       /\ AckPos + ackleft = ngh3.sent
       /\ ngh3.sent <= ngh3.handed
       /\ ngh3.handed <= response_len
       /\ submit_chunk = NoChunk => ngh3.handed = response_len
       /\ submit_chunk # NoChunk =>
            /\ ngh3.handed = submit_chunk
            /\ \E i \in 1..Len(chunks) : chunks[i].data = submit_chunk
  /\ ~tracked => chunks = <<>> /\ submit_chunk = NoChunk
  /\ ngh3.sent <= ngh3.handed
  /\ ackleft > 0 => event \in {"flush", "service"}

\* How the flags of the stream follow each other.
Flags ==
  /\ done => response_cancelled
  /\ ~tracked => response_cancelled /\ worker = "done"
  /\ worker \in {"run", "append", "wait"} /\ ~response_cancelled => ~response_complete
  /\ ngh3.eof /\ ~response_cancelled => response_complete /\ submit_chunk = NoChunk
  /\ ngh3.fin = "concluded" => ngh3.eof
  /\ FinMeansAll

IInv == TypeOK /\ Shape /\ Window /\ Flags

\* A sequence has no first element only if it is the empty one.
LEMMA EmptyIff == ASSUME NEW S, NEW s \in Seq(S) PROVE s = <<>> <=> Len(s) = 0
  OBVIOUS

\* The empty queue of a new stream satisfies the invariant.
LEMMA InitInv == Init => IInv
<1> SUFFICES ASSUME Init PROVE IInv
  OBVIOUS
<1>1. TypeOK
  <2>1. chunks \in Seq(Chunk)
    BY DEF Init
  <2>2. ngh3 \in Ngh3Stream
    BY DEF Init, Ngh3Stream
  <2>3. /\ todo \in 0..MaxWrite /\ inflight \in 0..SendBuf
        /\ progress_age \in 0..StallTimeout /\ peer_age \in 0..StallTimeout
        /\ seen_age \in 0..StallTimeout
    BY ConstantsAssumption DEF Init
  <2> QED BY Zenon, <2>1, <2>2, <2>3 DEF Init, TypeOK, WorkerStates, EventStates
<1>2. Len(chunks) = 0 /\ AckPos = 0 /\ response_len = 0
  BY DEF Init, AckPos
<1>3. Shape
  BY <1>2, ConstantsAssumption DEF Init, Shape, BufferAccounting
<1>4. Window /\ Flags
  BY <1>2 DEF Init, Window, Flags, FinMeansAll
<1> QED BY <1>1, <1>3, <1>4 DEF IInv

\* What the types say about the queue, for the arithmetic below.
LEMMA QueueTypes ==
  ASSUME TypeOK
  PROVE  /\ Len(chunks) \in Nat /\ response_len \in Nat /\ response_buffered \in Nat
         /\ chunks = <<>> <=> Len(chunks) = 0
         /\ \A i \in 1..Len(chunks) :
              chunks[i].data \in Nat /\ chunks[i].len \in Nat /\ chunks[i].acked \in Nat
         /\ AckPos \in Nat
         /\ ngh3.sent \in Nat /\ ngh3.handed \in Nat /\ ackleft \in Nat
         /\ submit_chunk \in Nat \cup {NoChunk}
<1>1. chunks = <<>> <=> Len(chunks) = 0
  BY EmptyIff DEF TypeOK
<1>2. \A i \in 1..Len(chunks) :
        chunks[i].data \in Nat /\ chunks[i].len \in Nat /\ chunks[i].acked \in Nat
  <2>1. \A i \in 1..Len(chunks) : chunks[i] \in Chunk
    BY DEF TypeOK
  <2> QED BY <2>1 DEF Chunk
<1>3. Len(chunks) \in Nat
  BY DEF TypeOK
<1>4. AckPos \in Nat
  BY <1>1, <1>2, <1>3 DEF TypeOK, AckPos
<1> QED BY <1>1, <1>2, <1>3, <1>4 DEF TypeOK, Ngh3Stream

\* append queues a chunk behind the last one.
LEMMA AppendChunkInv == ASSUME IInv, AppendChunk PROVE IInv'
<1> DEFINE n == ChunkLen
<1>1. n \in Nat /\ n > 0 /\ n <= todo /\ response_buffered + n <= BufferLimit
  BY ConstantsAssumption
  DEF IInv, TypeOK, AppendChunk, ChunkLen, Least, AppendBlocked, Gone
<1>2. [data |-> response_len, len |-> n, acked |-> 0] \in Chunk
  BY <1>1 DEF IInv, TypeOK, Chunk
<1>3. /\ response_len' = response_len + n
      /\ response_buffered' = response_buffered + n
      /\ chunks' \in Seq(Chunk) /\ Len(chunks') = Len(chunks) + 1
      /\ \A i \in 1..Len(chunks) : chunks'[i] = chunks[i]
      /\ chunks'[Len(chunks) + 1] = [data |-> response_len, len |-> n, acked |-> 0]
  BY <1>1, <1>2 DEF AppendChunk, IInv, TypeOK
<1>4. tracked /\ UNCHANGED <<tracked, ackleft, event>> /\ ackleft = 0
  BY DEF AppendChunk, IInv, TypeOK, Window, Flags, LockHeld, streamVars
<1>5. /\ ngh3' \in Ngh3Stream
      /\ ngh3'.sent = ngh3.sent /\ ngh3'.handed = ngh3.handed
      /\ ngh3'.eof = ngh3.eof /\ ngh3'.fin = ngh3.fin
  BY Zenon DEF AppendChunk, IInv, TypeOK, Resumed, Ngh3Stream
<1>6. submit_chunk' = IF submit_chunk = NoChunk THEN response_len ELSE submit_chunk
  BY DEF AppendChunk
<1> HIDE DEF n
<1>7. TypeOK'
  <2>1. todo' \in 0..MaxWrite /\ worker' \in WorkerStates
    BY <1>1, ConstantsAssumption DEF IInv, TypeOK, AppendChunk, WorkerStates, n
  <2>2. /\ response_buffered' \in Nat /\ response_len' \in Nat
        /\ submit_chunk' \in Nat \cup {NoChunk}
    BY <1>1, <1>3, <1>6 DEF IInv, TypeOK
  <2> QED BY <2>1, <2>2, <1>3, <1>5
          DEF IInv, TypeOK, AppendChunk, flagVars, streamVars, sessVars, netVars
<1>t. TypeOK /\ Shape /\ Window /\ Flags
  BY DEF IInv
<1>q. /\ Len(chunks) \in Nat /\ response_len \in Nat
      /\ chunks = <<>> <=> Len(chunks) = 0
      /\ \A i \in 1..Len(chunks) :
           chunks[i].data \in Nat /\ chunks[i].len \in Nat /\ chunks[i].acked \in Nat
      /\ AckPos \in Nat
  BY SMTT(20), <1>t, QueueTypes
<1>8. AckPos' = AckPos
  <2>1. chunks' # <<>>
    BY <1>3, <1>q, EmptyIff
  <2>2. CASE chunks = <<>>
    BY <2>1, <2>2, <1>3, <1>q DEF AckPos
  <2>3. CASE chunks # <<>>
    BY <2>1, <2>3, <1>3, <1>q DEF AckPos
  <2> QED BY <2>2, <2>3
<1>9. Shape'
  <2>1. \A i \in 1..Len(chunks) : End(chunks'[i]) = End(chunks[i])
    BY <1>3
  <2>2. End(chunks'[Len(chunks) + 1]) = response_len + n
    BY <1>3 DEF End
  <2>3. BufferAccounting'
    <3>1. ASSUME NEW i \in 1..Len(chunks')
          PROVE  /\ chunks'[i].acked < chunks'[i].len
                 /\ i > 1 => chunks'[i].acked = 0
                 /\ End(chunks'[i]) = IF i = Len(chunks') THEN response_len'
                                      ELSE chunks'[i + 1].data
      <4>1. CASE i = Len(chunks) + 1
        BY <4>1, <1>1, <1>3, <1>q, <2>2
      <4>2. CASE i = Len(chunks)
        BY <4>2, <1>1, <1>3, <1>q, <1>t, <2>1 DEF Shape, BufferAccounting
      <4>3. CASE i \in 1..(Len(chunks) - 1)
        <5>1. i \in 1..Len(chunks) /\ i + 1 \in 1..Len(chunks) /\ i # Len(chunks')
          BY <4>3, <1>q, <1>3
        <5>2. chunks'[i] = chunks[i] /\ chunks'[i + 1] = chunks[i + 1]
          BY <5>1, <1>3
        <5> QED BY <5>1, <5>2, <4>3, <1>t, <1>q, <2>1 DEF Shape, BufferAccounting
      <4> QED BY <4>1, <4>2, <4>3, <1>3, <1>q
    <3>2. response_buffered' = response_len' - AckPos' /\ response_buffered' <= BufferLimit
      BY <1>1, <1>3, <1>8, <1>t, <1>q, QueueTypes DEF Shape, BufferAccounting
    <3> QED BY <3>1, <3>2 DEF BufferAccounting
  <2>4. ASSUME NEW i \in 1..Len(chunks'), NEW j \in 1..Len(chunks'), i < j
        PROVE  End(chunks'[i]) <= chunks'[j].data
    <3>1. CASE j = Len(chunks) + 1
      BY <3>1, <2>4, <1>3, <1>q, <1>t, <2>1 DEF Shape
    <3>2. CASE j \in 1..Len(chunks)
      BY SMTT(30), <3>2, <2>4, <1>3, <1>q, <1>t, <2>1 DEF Shape
    <3> QED BY <3>1, <3>2, <1>3, <1>q
  <2>5. ASSUME NEW i \in 1..Len(chunks') PROVE End(chunks'[i]) <= response_len'
    <3>1. CASE i = Len(chunks) + 1
      BY <3>1, <1>3, <1>q, <1>1, <2>2
    <3>2. CASE i \in 1..Len(chunks)
      <4>1. End(chunks[i]) \in Nat /\ End(chunks[i]) <= response_len
        BY <3>2, <1>q, <1>t DEF Shape, End
      <4> QED BY <4>1, <3>2, <1>3, <1>q, <1>1, <2>1
    <3> QED BY <3>1, <3>2, <1>3, <1>q
  <2>6. ASSUME NEW o \in AckPos'..(response_len' - 1)
        PROVE  \E i \in 1..Len(chunks') : chunks'[i].data <= o /\ o < End(chunks'[i])
    <3>1. CASE o < response_len
      <4>1. o \in AckPos..(response_len - 1)
        BY <3>1, <1>8, <1>3, <1>q, <1>1
      <4>2. PICK i \in 1..Len(chunks) : chunks[i].data <= o /\ o < End(chunks[i])
        BY <4>1, <1>t DEF Shape
      <4>3. i \in 1..Len(chunks') /\ chunks'[i] = chunks[i]
        BY <4>2, <1>3, <1>q
      <4> QED BY <4>2, <4>3
    <3>2. CASE o >= response_len
      <4>1. Len(chunks) + 1 \in 1..Len(chunks')
        BY <1>3, <1>q
      <4>2. chunks'[Len(chunks) + 1].data <= o /\ o < End(chunks'[Len(chunks) + 1])
        BY <3>2, <1>3, <1>8, <1>q, <1>1, <2>2
      <4> QED BY <4>1, <4>2
    <3> QED BY SMTT(20), <3>1, <3>2, <1>8, <1>3, <1>q, <1>1
  <2> QED BY <2>3, <2>4, <2>5, <2>6 DEF Shape
<1>10. Window'
  <2>1. submit_chunk' # NoChunk /\ ngh3.handed = submit_chunk'
    BY <1>4, <1>6, <1>q, <1>t DEF Window, NoChunk
  <2>2. \E i \in 1..Len(chunks') : chunks'[i].data = submit_chunk'
    <3>1. CASE submit_chunk = NoChunk
      BY <3>1, <1>3, <1>6, <1>q
    <3>2. CASE submit_chunk # NoChunk
      <4>1. PICK i \in 1..Len(chunks) : chunks[i].data = submit_chunk
        BY <3>2, <1>4, <1>t DEF Window
      <4>2. i \in 1..Len(chunks') /\ chunks'[i] = chunks[i]
        BY <4>1, <1>3, <1>q
      <4> QED BY <3>2, <4>1, <4>2, <1>6
    <3> QED BY <3>1, <3>2
  <2> QED BY <1>1, <1>3, <1>4, <1>5, <1>8, <1>t, QueueTypes, <2>1, <2>2 DEF Window
<1>11. Flags'
  BY <1>4, <1>5, <1>t DEF Flags, FinMeansAll, AppendChunk, Gone, flagVars, streamVars
<1> QED BY <1>7, <1>9, <1>10, <1>11 DEF IInv

\* The queue facts of an invariant state, as the lemmas below use them.
LEMMA QueueFacts ==
  ASSUME IInv
  PROVE  /\ Len(chunks) \in Nat /\ response_len \in Nat /\ response_buffered \in Nat
         /\ chunks = <<>> <=> Len(chunks) = 0
         /\ \A i \in 1..Len(chunks) :
              /\ chunks[i] \in Chunk
              /\ chunks[i].data \in Nat /\ chunks[i].len \in Nat /\ chunks[i].acked \in Nat
              /\ chunks[i].acked < chunks[i].len
              /\ End(chunks[i]) = chunks[i].data + chunks[i].len
              /\ End(chunks[i]) <= response_len
         /\ AckPos \in Nat /\ ngh3.sent \in Nat /\ ngh3.handed \in Nat
         /\ ackleft \in Nat /\ submit_chunk \in Nat \cup {NoChunk}
         /\ response_buffered = response_len - AckPos
<1>1. \A i \in 1..Len(chunks) : chunks[i] \in Chunk
  BY DEF IInv, TypeOK
<1> QED BY Zenon, <1>1, QueueTypes DEF IInv, Shape, BufferAccounting, End

\* Least is the minimum.
LEMMA LeastFacts ==
  ASSUME NEW x \in Nat, NEW y \in Nat
  PROVE  /\ Least(x, y) \in Nat /\ Least(x, y) <= x /\ Least(x, y) <= y
         /\ Least(x, y) = x \/ Least(x, y) = y
  BY DEF Least

\* One turn of the ack loop: the head chunk is consumed, and freed at its end.
LEMMA AckChunkInv == ASSUME IInv, AckChunk PROVE IInv'
<1> DEFINE head == chunks[1]
           k    == Least(ackleft, head.len - head.acked)
<1>q. /\ Len(chunks) \in Nat /\ response_len \in Nat /\ response_buffered \in Nat
      /\ chunks = <<>> <=> Len(chunks) = 0
      /\ \A i \in 1..Len(chunks) :
           /\ chunks[i] \in Chunk
           /\ chunks[i].data \in Nat /\ chunks[i].len \in Nat /\ chunks[i].acked \in Nat
           /\ chunks[i].acked < chunks[i].len
           /\ End(chunks[i]) = chunks[i].data + chunks[i].len
           /\ End(chunks[i]) <= response_len
      /\ AckPos \in Nat /\ ngh3.sent \in Nat /\ ngh3.handed \in Nat
      /\ ackleft \in Nat /\ submit_chunk \in Nat \cup {NoChunk}
      /\ response_buffered = response_len - AckPos
  BY QueueFacts
<1>t. TypeOK /\ Shape /\ Window /\ Flags
  BY DEF IInv
<1>1. /\ ackleft > 0 /\ chunks # <<>> /\ 1 \in 1..Len(chunks)
      /\ UNCHANGED <<response_len, submit_chunk, tracked, ngh3, event>>
  BY <1>q DEF AckChunk, streamVars
<1>h. /\ head \in Chunk
      /\ head.data \in Nat /\ head.len \in Nat /\ head.acked \in Nat
      /\ head = chunks[1] /\ head.acked < head.len /\ End(head) = head.data + head.len
      /\ head.data + head.len <= response_len /\ AckPos = head.data + head.acked
  BY <1>q, <1>1 DEF AckPos
<1>a. /\ AckPos \in Nat /\ ackleft \in Nat /\ response_len \in Nat
      /\ response_buffered \in Nat /\ Len(chunks) \in Nat
      /\ ngh3.sent \in Nat /\ ngh3.handed \in Nat
      /\ response_buffered = response_len - AckPos
  BY <1>q
<1>3. /\ response_buffered' = response_buffered - k /\ ackleft' = ackleft - k
  BY DEF AckChunk
<1>c. chunks' = IF head.acked + k = head.len THEN Tail(chunks)
                ELSE [chunks EXCEPT ![1].acked = @ + k]
  BY DEF AckChunk
<1>4. tracked
  BY <1>t, <1>1 DEF Window
<1> HIDE DEF head
<1>k. /\ k \in Nat /\ k > 0 /\ k <= ackleft /\ k <= head.len - head.acked
      /\ k = ackleft \/ k = head.len - head.acked
  <2>1. head.len - head.acked \in Nat /\ head.len - head.acked > 0
    BY <1>h
  <2> QED BY Zenon, <2>1, <1>a, <1>1, LeastFacts
<1> HIDE DEF k
<1>i. /\ head.data \in Nat /\ head.len \in Nat /\ head.acked \in Nat
      /\ head.data + head.len <= response_len /\ AckPos = head.data + head.acked
  BY <1>h
<1>b. /\ AckPos \in Nat /\ ackleft \in Nat /\ response_len \in Nat
      /\ response_buffered = response_len - AckPos
  BY <1>a
<1>2. /\ k \in Nat /\ k > 0 /\ k <= ackleft /\ head.acked + k <= head.len
      /\ AckPos + k <= head.data + head.len
      /\ head.acked + k # head.len => k = ackleft
  <2>1. head.acked + k <= head.len
    BY <1>i, <1>k
  <2>2. AckPos + k <= head.data + head.len
    BY <1>i, <1>b, <1>k
  <2>3. head.acked + k # head.len => k = ackleft
    BY <1>i, <1>k
  <2> QED BY <2>1, <2>2, <2>3, <1>k
<1>n. response_buffered - k \in Nat /\ ackleft - k \in Nat
  <2>1. AckPos + k <= response_len
    BY <1>i, <1>2, <1>b
  <2>2. ackleft - k \in Nat
    BY <1>2, <1>b
  <2>3. response_buffered - k \in Nat
    BY <2>1, <1>2, <1>b
  <2> QED BY <2>2, <2>3
<1>5. \* the queue afterwards: d chunks fewer, the first one possibly shorter
      \E d \in {0, 1} :
        /\ chunks' \in Seq(Chunk) /\ Len(chunks') = Len(chunks) - d
        /\ \A i \in 1..Len(chunks') :
             /\ chunks'[i].data = chunks[i + d].data
             /\ chunks'[i].len = chunks[i + d].len
             /\ chunks'[i].acked = IF i + d = 1 THEN head.acked + k ELSE chunks[i + d].acked
        /\ d = 1 => AckPos + k = head.data + head.len
        /\ d = 0 => head.acked + k < head.len /\ k = ackleft
  <2>1. CASE head.acked + k = head.len
    <3>1. chunks' = Tail(chunks)
      BY <2>1, <1>c
    <3>2. /\ chunks' \in Seq(Chunk) /\ Len(chunks') = Len(chunks) - 1
          /\ \A i \in 1..Len(chunks') : chunks'[i] = chunks[i + 1]
      BY <3>1, <1>1, <1>q, <1>t DEF TypeOK
    <3>3. AckPos + k = head.data + head.len
      BY <2>1, <1>2, <1>h
    <3> QED BY <3>2, <3>3, <1>1, <1>q
  <2>2. CASE head.acked + k # head.len
    <3>1. chunks' = [chunks EXCEPT ![1].acked = @ + k]
      BY <2>2, <1>c
    <3>2. chunks' = [chunks EXCEPT ![1] = [head EXCEPT !.acked = head.acked + k]]
      BY <3>1 DEF head
    <3>3. /\ [head EXCEPT !.acked = head.acked + k] \in Chunk
          /\ [head EXCEPT !.acked = head.acked + k].data = head.data
          /\ [head EXCEPT !.acked = head.acked + k].len = head.len
          /\ [head EXCEPT !.acked = head.acked + k].acked = head.acked + k
      BY <1>h, <1>2 DEF Chunk
    <3>4. /\ chunks' \in Seq(Chunk) /\ Len(chunks') = Len(chunks)
          /\ chunks'[1] = [head EXCEPT !.acked = head.acked + k]
          /\ \A i \in 1..Len(chunks) : i # 1 => chunks'[i] = chunks[i]
      BY <3>2, <3>3, <1>1, <1>t DEF TypeOK
    <3>5. head.acked + k < head.len /\ k = ackleft
      BY <2>2, <1>2, <1>h
    <3>6. \A i \in 1..Len(chunks') :
             /\ chunks'[i].data = chunks[i + 0].data
             /\ chunks'[i].len = chunks[i + 0].len
             /\ chunks'[i].acked = IF i + 0 = 1 THEN head.acked + k ELSE chunks[i + 0].acked
      <4> TAKE i \in 1..Len(chunks')
      <4>1. i \in Nat /\ i + 0 = i /\ i \in 1..Len(chunks)
        BY <3>4, <1>q
      <4>2. CASE i = 1
        BY <4>1, <4>2, <3>3, <3>4, <1>h
      <4>3. CASE i # 1
        BY <4>1, <4>3, <3>4
      <4> QED BY <4>2, <4>3
    <3> QED BY <3>4, <3>5, <3>6, <1>q
  <2> QED BY <2>1, <2>2
<1>6. PICK d \in {0, 1} :
        /\ chunks' \in Seq(Chunk) /\ Len(chunks') = Len(chunks) - d
        /\ \A i \in 1..Len(chunks') :
             /\ chunks'[i].data = chunks[i + d].data
             /\ chunks'[i].len = chunks[i + d].len
             /\ chunks'[i].acked = IF i + d = 1 THEN head.acked + k ELSE chunks[i + d].acked
        /\ d = 1 => AckPos + k = head.data + head.len
        /\ d = 0 => head.acked + k < head.len /\ k = ackleft
  BY <1>5
<1>7. \A i \in 1..Len(chunks') :
        i + d \in 1..Len(chunks) /\ End(chunks'[i]) = End(chunks[i + d])
  <2> TAKE i \in 1..Len(chunks')
  <2>1. i + d \in 1..Len(chunks)
    BY <1>6, <1>a
  <2>2. chunks'[i].data = chunks[i + d].data /\ chunks'[i].len = chunks[i + d].len
    BY <1>6
  <2> QED BY <2>1, <2>2 DEF End
<1>8. AckPos' = AckPos + k
  <2>1. CASE Len(chunks') = 0
    <3>1. d = 1 /\ Len(chunks) = 1
      <4>1. Len(chunks) = d /\ Len(chunks) >= 1
        BY <2>1, <1>1, <1>6, <1>q
      <4> QED BY <4>1
    <3>2. End(head) = response_len
      BY <3>1, <1>t, <1>1, <1>h DEF Shape, BufferAccounting
    <3>3. chunks' = <<>>
      BY <2>1, <1>6, EmptyIff
    <3>4. AckPos' = response_len /\ AckPos + k = head.data + head.len
      BY <3>1, <3>3, <1>1, <1>6 DEF AckPos
    <3> QED BY <3>2, <3>4, <1>h
  <2>2. CASE Len(chunks') # 0
    <3>1. chunks' # <<>> /\ 1 \in 1..Len(chunks')
      BY <2>2, <1>6, EmptyIff
    <3>2. AckPos' = chunks'[1].data + chunks'[1].acked
      BY <3>1 DEF AckPos
    <3>3. CASE d = 0
      <4>1. chunks'[1].data = head.data /\ chunks'[1].acked = head.acked + k
        <5>1. 1 + d = 1
          BY <3>3
        <5> QED BY <5>1, <3>1, <1>6, <1>h
      <4> QED BY <4>1, <3>2, <1>2, <1>i
    <3>4. CASE d = 1
      <4>1. 2 \in 1..Len(chunks) /\ chunks[2].acked = 0 /\ chunks[2].data = End(head)
        <5>1. 2 \in 1..Len(chunks) /\ 1 # Len(chunks) /\ 1 + 1 = 2
          BY <3>1, <3>4, <1>6, <1>a
        <5> QED BY <5>1, <1>1, <1>t, <1>h DEF Shape, BufferAccounting
      <4>2. 1 + d = 2 /\ 1 + d # 1
        BY <3>4
      <4>3. chunks'[1].data = chunks[2].data /\ chunks'[1].acked = 0
        BY <4>1, <4>2, <3>1, <1>6
      <4>4. AckPos + k = head.data + head.len
        BY <3>4, <1>6
      <4>5. AckPos' = End(head)
        BY SMTT(20), <4>1, <4>3, <3>2, <1>h, <1>q
      <4> QED BY <4>4, <4>5, <1>h
    <3> QED BY <3>3, <3>4
  <2> QED BY <2>1, <2>2
<1>9. TypeOK'
  <2>1. response_buffered' \in Nat /\ ackleft' \in Nat
    BY <1>n, <1>3
  <2>2. worker' \in WorkerStates /\ progress_age' \in 0..StallTimeout
    BY <1>t, ConstantsAssumption DEF TypeOK, AckChunk, Broadcast, WorkerStates
  <2> QED BY <2>1, <2>2, <1>1, <1>6, <1>t
          DEF TypeOK, AckChunk, flagVars, streamVars, sessVars, netVars
<1>10. Shape'
  <2>1. BufferAccounting'
    <3>1. ASSUME NEW i \in 1..Len(chunks')
          PROVE  /\ chunks'[i].acked < chunks'[i].len
                 /\ i > 1 => chunks'[i].acked = 0
      <4>1. CASE i + d = 1
        <5>1. d = 0 /\ i = 1
          BY <4>1, <1>a, <1>6
        <5> QED BY <5>1, <4>1, <1>6, <1>h
      <4>2. CASE i + d # 1
        <5>1. i + d \in 1..Len(chunks) /\ i + d > 1
          BY <4>2, <1>7
        <5>2. chunks[i + d].acked = 0 /\ chunks[i + d].acked < chunks[i + d].len
          BY <5>1, <1>t DEF Shape, BufferAccounting
        <5> QED BY <5>2, <4>2, <1>6
      <4> QED BY <4>1, <4>2
    <3>2. ASSUME NEW i \in 1..Len(chunks')
          PROVE  End(chunks'[i]) = IF i = Len(chunks') THEN response_len'
                                   ELSE chunks'[i + 1].data
      <4>1. i + d \in 1..Len(chunks) /\ End(chunks'[i]) = End(chunks[i + d])
        BY <1>7
      <4>2. CASE i = Len(chunks')
        <5>1. i + d = Len(chunks)
          BY <4>2, <1>6, <1>q
        <5> QED BY <5>1, <4>1, <4>2, <1>1, <1>t DEF Shape, BufferAccounting
      <4>3. CASE i # Len(chunks')
        <5>1. /\ i + 1 \in 1..Len(chunks') /\ i + d # Len(chunks)
              /\ (i + 1) + d = (i + d) + 1
          BY <4>3, <1>6, <1>q
        <5>2. chunks'[i + 1].data = chunks[(i + d) + 1].data
          BY <5>1, <1>6
        <5> QED BY <5>1, <5>2, <4>1, <4>3, <1>t DEF Shape, BufferAccounting
      <4> QED BY <4>2, <4>3
    <3>3. response_buffered' = response_len' - AckPos' /\ response_buffered' <= BufferLimit
      <4>1. response_buffered <= BufferLimit /\ BufferLimit \in Nat
        BY <1>t, ConstantsAssumption DEF Shape, BufferAccounting
      <4> QED BY <4>1, <1>1, <1>2, <1>3, <1>8, <1>a
    <3> QED BY <3>1, <3>2, <3>3 DEF BufferAccounting
  <2>2. ASSUME NEW i \in 1..Len(chunks'), NEW j \in 1..Len(chunks'), i < j
        PROVE  End(chunks'[i]) <= chunks'[j].data
    <3>1. i + d < j + d
      BY <2>2
    <3> QED BY <3>1, <1>6, <1>7, <1>t DEF Shape
  <2>3. ASSUME NEW i \in 1..Len(chunks') PROVE End(chunks'[i]) <= response_len'
    BY <1>1, <1>7, <1>q
  <2>4. ASSUME NEW o \in AckPos'..(response_len' - 1)
        PROVE  \E i \in 1..Len(chunks') : chunks'[i].data <= o /\ o < End(chunks'[i])
    <3>1. o \in Nat /\ AckPos + k <= o /\ o \in AckPos..(response_len - 1)
      BY <1>1, <1>2, <1>8, <1>q
    <3>2. PICK i \in 1..Len(chunks) : chunks[i].data <= o /\ o < End(chunks[i])
      BY <3>1, <1>t DEF Shape
    <3>3. d = 1 => i # 1
      BY <3>1, <3>2, <1>6, <1>h
    <3>4. i - d \in 1..Len(chunks') /\ (i - d) + d = i
      BY <3>3, <1>6, <1>q
    <3> QED BY Zenon, <3>2, <3>4, <1>6, <1>7
  <2> QED BY <2>1, <2>2, <2>3, <2>4 DEF Shape
<1>11. Window'
  <2>1. AckPos' + ackleft' = ngh3'.sent
    BY <1>1, <1>2, <1>3, <1>4, <1>8, <1>q, <1>t DEF Window
  <2>2. ASSUME submit_chunk # NoChunk
        PROVE  \E i \in 1..Len(chunks') : chunks'[i].data = submit_chunk
    <3>1. PICK i \in 1..Len(chunks) : chunks[i].data = submit_chunk
      BY <2>2, <1>4, <1>t DEF Window
    <3>2. d = 1 => i # 1
      \* the freed chunk was handed out: it ends at or before ngh3.sent
      <4>1. submit_chunk = ngh3.handed /\ ngh3.sent <= ngh3.handed
            /\ AckPos + ackleft = ngh3.sent
        BY <2>2, <1>4, <1>t DEF Window
      <4>2. d = 1 => head.data < submit_chunk
        <5>1. d = 1 => head.data + head.len <= submit_chunk
          BY <4>1, <1>2, <1>6, <1>a
        <5>2. head.data \in Nat /\ head.len \in Nat /\ head.len > 0 /\ submit_chunk \in Nat
          BY SMTT(20), <4>1, <1>a, <1>h
        <5> QED BY <5>1, <5>2
      <4> QED BY <4>2, <3>1, <1>h
    <3>3. i - d \in 1..Len(chunks') /\ (i - d) + d = i
      BY <3>2, <1>6, <1>q
    <3> QED BY Zenon, <3>1, <3>3, <1>6
  <2>3. ackleft' > 0 => event' \in {"flush", "service"}
    BY <1>1, <1>t DEF Window
  <2> QED BY <2>1, <2>2, <2>3, <1>1, <1>4, <1>t DEF Window
<1>12. Flags'
  BY <1>1, <1>4, <1>t DEF Flags, FinMeansAll, AckChunk, Broadcast, flagVars, streamVars
<1> QED BY <1>9, <1>10, <1>11, <1>12 DEF IInv

\* read_data hands out the chunks from response_submit_chunk on.
LEMMA ReadDataInv == ASSUME IInv, ReadData PROVE IInv'
<1>t. TypeOK /\ Shape /\ Window /\ Flags
  BY DEF IInv
<1>1. /\ UNCHANGED <<chunks, response_buffered, response_len, flagVars, tracked, done,
                     ackleft, worker, event, broken>>
      /\ ngh3 \in Ngh3Stream /\ ngh3.eof = FALSE
  BY <1>t DEF ReadData, CanRead, streamVars, TypeOK, Ngh3Stream
<1>2. AckPos' = AckPos
  BY <1>1 DEF AckPos
<1>3. Shape'
  BY <1>1, <1>2, <1>t DEF Shape, BufferAccounting, End
<1>4. SUFFICES /\ ngh3' \in Ngh3Stream /\ submit_chunk' \in Nat \cup {NoChunk}
               /\ Window' /\ Flags'
  BY <1>1, <1>3, <1>t DEF IInv, TypeOK, ReadData, streamVars, sessVars, netVars, flagVars
<1>5. CASE /\ ~response_cancelled /\ submit_chunk # NoChunk
           /\ LET first == IndexOf(submit_chunk)
                  last  == Least(Len(chunks), first + VecCnt - 1)
              IN  /\ ngh3' = [ngh3 EXCEPT !.handed = End(chunks[last]), !.eof = AtEof(last)]
                  /\ submit_chunk' = NextToSubmit(last)
  <2> DEFINE first == IndexOf(submit_chunk)
             last  == Least(Len(chunks), first + VecCnt - 1)
  <2>1. tracked
    BY <1>5, <1>t DEF Window
  <2>2. first \in 1..Len(chunks) /\ chunks[first].data = submit_chunk
    BY <2>1, <1>5, <1>t DEF Window, IndexOf
  <2>3. last \in 1..Len(chunks) /\ first <= last
    <3>1. first \in Nat /\ Len(chunks) \in Nat /\ VecCnt \in Nat /\ VecCnt > 0
      BY <2>2, <1>t, QueueTypes, ConstantsAssumption
    <3>2. first + VecCnt - 1 \in Nat /\ first + VecCnt - 1 >= first
      BY <3>1
    <3> HIDE DEF first
    <3>3. last \in Nat /\ last <= Len(chunks) /\ (last = Len(chunks) \/ last = first + VecCnt - 1)
      BY <3>1, <3>2, LeastFacts
    <3> HIDE DEF last
    <3>4. first >= 1 /\ first <= Len(chunks)
      BY <2>2, <3>1
    <3> QED BY <3>1, <3>2, <3>3, <3>4
  <2> HIDE DEF first, last
  <2>4. /\ ngh3' = [ngh3 EXCEPT !.handed = End(chunks[last]), !.eof = AtEof(last)]
        /\ submit_chunk' = NextToSubmit(last)
    BY <1>5 DEF first, last
  <2>5. /\ chunks[last].data \in Nat /\ chunks[last].len \in Nat
        /\ chunks[first].data \in Nat /\ chunks[first].len \in Nat
        /\ End(chunks[last]) \in Nat
    <3>1. \A k \in 1..Len(chunks) : chunks[k].data \in Nat /\ chunks[k].len \in Nat
      BY SMTT(20), <1>t, QueueTypes
    <3>2. /\ chunks[last].data \in Nat /\ chunks[last].len \in Nat
          /\ chunks[first].data \in Nat /\ chunks[first].len \in Nat
      BY <2>2, <2>3, <3>1
    <3> QED BY <3>2 DEF End
  <2>6. /\ ngh3' \in Ngh3Stream
        /\ ngh3'.handed = End(chunks[last]) /\ ngh3'.eof = AtEof(last)
        /\ ngh3'.sent = ngh3.sent /\ ngh3'.fin = ngh3.fin
    BY Zenon, <2>4, <2>5, <1>1, <1>t DEF Ngh3Stream, AtEof, TypeOK
  <2>7. submit_chunk <= End(chunks[last])
    <3>1. CASE first = last
      BY <3>1, <2>2, <2>5 DEF End
    <3>2. CASE first < last
      <4>1. End(chunks[first]) <= chunks[last].data
        BY <3>2, <2>2, <2>3, <1>t DEF Shape
      <4> QED BY SMTT(30), <4>1, <2>2, <2>5 DEF End
    <3> QED BY <3>1, <3>2, <2>2, <2>3
  <2>8. ngh3'.sent <= ngh3'.handed
    <3>1. ngh3.sent <= submit_chunk /\ ngh3.sent \in Nat /\ submit_chunk \in Nat
      BY <2>1, <1>5, <1>t, QueueTypes DEF Window
    <3> QED BY <3>1, <2>5, <2>6, <2>7
  <2>9. ngh3'.handed <= response_len
    BY <2>3, <2>6, <1>t DEF Shape
  <2>10. CASE last = Len(chunks)
    <3>1. submit_chunk' = NoChunk
      BY <2>10, <2>4 DEF NextToSubmit
    <3>2. ngh3'.handed = response_len
      BY <2>10, <2>3, <2>6, <1>t DEF Shape, BufferAccounting
    <3>3. Window'
      BY Zenon, <3>1, <3>2, <2>1, <2>6, <2>8, <2>9, <1>1, <1>2, <1>t DEF Window
    <3>4. Flags'
      BY Zenon, <3>1, <2>1, <2>6, <1>1, <1>t DEF Flags, FinMeansAll, AtEof, flagVars
    <3> QED BY <3>1, <3>3, <3>4, <2>6
  <2>11. CASE last # Len(chunks)
    <3>1. last + 1 \in 1..Len(chunks) /\ chunks[last + 1].data \in Nat
      BY <2>11, <2>3, <1>t, QueueTypes
    <3>2. submit_chunk' = chunks[last + 1].data /\ submit_chunk' # NoChunk
      BY <3>1, <2>11, <2>4 DEF NextToSubmit, NoChunk
    <3>3. ngh3'.handed = submit_chunk'
      BY <3>2, <2>11, <2>3, <2>6, <1>t DEF Shape, BufferAccounting
    <3>4. \E i \in 1..Len(chunks') : chunks'[i].data = submit_chunk'
      BY <3>1, <3>2, <1>1
    <3>5. Window'
      BY <3>2, <3>3, <3>4, <2>1, <2>6, <2>8, <2>9, <1>1, <1>2, <1>t DEF Window
    <3>6. Flags'
      BY Zenon, <2>1, <2>11, <2>6, <1>1, <1>t DEF Flags, FinMeansAll, AtEof, flagVars
    <3> QED BY <3>1, <3>2, <3>5, <3>6, <2>6
  <2> QED BY <2>10, <2>11
<1>6. CASE /\ response_cancelled \/ (submit_chunk = NoChunk /\ response_complete)
           /\ ngh3' = [ngh3 EXCEPT !.eof = TRUE]
           /\ UNCHANGED submit_chunk
  <2>1. /\ ngh3' \in Ngh3Stream /\ ngh3'.sent = ngh3.sent /\ ngh3'.handed = ngh3.handed
        /\ ngh3'.fin = ngh3.fin /\ ngh3'.eof = TRUE
    BY Zenon, <1>6, <1>1, <1>t DEF Ngh3Stream, TypeOK
  <2>2. Window'
    BY <2>1, <1>6, <1>1, <1>2, <1>t DEF Window
  <2>3. Flags'
    BY <2>1, <1>6, <1>1, <1>t DEF Flags, FinMeansAll, flagVars
  <2> QED BY <2>1, <2>2, <2>3, <1>6, <1>t DEF TypeOK
<1>7. CASE /\ ~response_cancelled /\ submit_chunk = NoChunk /\ ~response_complete
           /\ ngh3' = [ngh3 EXCEPT !.ready = FALSE]
           /\ UNCHANGED submit_chunk
  <2>1. /\ ngh3' \in Ngh3Stream /\ ngh3'.sent = ngh3.sent /\ ngh3'.handed = ngh3.handed
        /\ ngh3'.fin = ngh3.fin /\ ngh3'.eof = ngh3.eof
    BY Zenon, <1>7, <1>1, <1>t DEF Ngh3Stream, TypeOK
  <2>2. Window'
    BY <2>1, <1>7, <1>1, <1>2, <1>t DEF Window
  <2>3. Flags'
    BY <2>1, <1>7, <1>1, <1>t DEF Flags, FinMeansAll, flagVars
  <2> QED BY <2>1, <2>2, <2>3, <1>7, <1>t DEF TypeOK
<1> QED BY <1>5, <1>6, <1>7 DEF ReadData

\* A write moves nghttp3's window and leaves as much to acknowledge; the fin
\* bit goes out only with the last byte handed over.
LEMMA WriteInv ==
  ASSUME IInv, TypeOK', Flushing, CanWrite,
         UNCHANGED <<queueVars, flagVars, qstream, done, tracked, worker, event>>,
         ngh3'.handed = ngh3.handed, ngh3'.eof = ngh3.eof,
         ngh3'.sent = ngh3.sent + ackleft', ngh3'.sent <= ngh3.handed,
         ngh3'.fin = "concluded" =>
           ngh3.eof /\ ngh3'.sent = ngh3.handed /\ ~broken /\ ~broken' /\ qstream
  PROVE  IInv'
<1>t. TypeOK /\ Shape /\ Window /\ Flags
  BY DEF IInv
<1>1. AckPos' = AckPos
  BY DEF AckPos, queueVars
<1>2. Shape'
  BY <1>1, <1>t DEF Shape, BufferAccounting, End, queueVars
<1>3. Window'
  <2>1. ackleft = 0 /\ event \in {"flush", "service"}
    BY DEF Flushing
  <2>2. tracked => AckPos' + ackleft' = ngh3'.sent
    <3>1. AckPos \in Nat /\ ackleft' \in Nat /\ ngh3.sent \in Nat
      BY <1>t, QueueTypes DEF TypeOK
    <3> QED BY SMTT(30), <3>1, <2>1, <1>1, <1>t DEF Window
  <2>3. \A i \in 1..Len(chunks) : chunks'[i] = chunks[i]
    BY DEF queueVars
  <2> QED BY <2>1, <2>2, <2>3, <1>t DEF Window, queueVars
<1>4. Flags'
  <2>1. ngh3'.fin = "concluded" /\ ~response_cancelled' =>
          response_complete' /\ ngh3'.sent = response_len' /\ ~broken'
    BY <1>t DEF Flags, Window, queueVars, flagVars
  <2>2. ngh3'.fin = "concluded" => ngh3'.eof
    OBVIOUS
  <2> QED BY SMTT(20), <2>1, <2>2, <1>t DEF Flags, FinMeansAll, queueVars, flagVars
<1> QED BY <1>2, <1>3, <1>4 DEF IInv

\* The QUIC stream took what fitted.
LEMMA WriteStreamInv ==
  ASSUME IInv, NEW accepted \in 0..Expected, WriteStream(accepted) PROVE IInv'
<1>t. TypeOK /\ Window /\ ngh3 \in Ngh3Stream
  BY DEF IInv, TypeOK
<1>1. /\ Expected \in Nat /\ accepted \in Nat /\ accepted <= Expected
      /\ ngh3.sent \in Nat /\ ngh3.handed \in Nat /\ ngh3.sent + Expected = ngh3.handed
  <2>1. ngh3.sent \in Nat /\ ngh3.handed \in Nat
    BY <1>t DEF Ngh3Stream
  <2>2. ngh3.sent <= ngh3.handed
    BY Zenon, <1>t DEF Window
  <2> QED BY <2>1, <2>2 DEF Expected
<1>3. /\ ngh3' \in Ngh3Stream
      /\ ngh3'.handed = ngh3.handed /\ ngh3'.eof = ngh3.eof
      /\ ngh3'.sent = ngh3.sent + accepted
      /\ ngh3'.fin = IF ngh3.eof /\ accepted = Expected THEN "concluded" ELSE "none"
  <2> DEFINE f == IF ngh3.eof /\ accepted = Expected THEN "concluded" ELSE "none"
             o == ngh3.sent + accepted
  <2>1. f \in {"none", "concluded", "swallowed"} /\ o \in Nat
    BY <1>1
  <2>2. ngh3' = [ngh3 EXCEPT !.sent = o, !.fin = f]
    BY DEF WriteStream
  <2> HIDE DEF f, o
  <2>3. /\ ngh3' \in Ngh3Stream /\ ngh3'.sent = o /\ ngh3'.fin = f
        /\ ngh3'.handed = ngh3.handed /\ ngh3'.eof = ngh3.eof
    BY Zenon, <2>1, <2>2, <1>t DEF Ngh3Stream
  <2> QED BY <2>3 DEF f, o
<1>4. ackleft' = accepted
  BY DEF WriteStream
<1>5. inflight' \in 0..SendBuf /\ peer_age' \in 0..StallTimeout
  <2>1. /\ inflight' = Least(SendBuf, inflight + accepted)
        /\ peer_age' = 0 \/ peer_age' = peer_age
    BY DEF WriteStream
  <2>2. /\ inflight \in 0..SendBuf /\ peer_age \in 0..StallTimeout
        /\ SendBuf \in Nat /\ StallTimeout \in Nat
    BY <1>t, ConstantsAssumption DEF TypeOK
  <2> QED BY <1>1, <2>1, <2>2 DEF Least
<1>6. TypeOK'
  <2>1. write_blocked' \in BOOLEAN
    BY DEF WriteStream
  <2> QED BY <2>1, <1>1, <1>3, <1>4, <1>5, <1>t
          DEF TypeOK, WriteStream, queueVars, flagVars, sessVars
<1>7. ngh3'.sent <= ngh3.handed /\ (accepted = Expected => ngh3'.sent = ngh3.handed)
  BY <1>1, <1>3
<1> QED BY <1>1, <1>3, <1>4, <1>6, <1>7, WriteInv DEF WriteStream

\* The QUIC stream is gone or reset and the bytes are dropped.
LEMMA SwallowStreamInv == ASSUME IInv, SwallowStream PROVE IInv'
<1>t. TypeOK /\ Window /\ ngh3 \in Ngh3Stream
  BY DEF IInv, TypeOK
<1>1. /\ Expected \in Nat
      /\ ngh3.sent \in Nat /\ ngh3.handed \in Nat /\ ngh3.sent + Expected = ngh3.handed
  <2>1. ngh3.sent \in Nat /\ ngh3.handed \in Nat
    BY <1>t DEF Ngh3Stream
  <2>2. ngh3.sent <= ngh3.handed
    BY Zenon, <1>t DEF Window
  <2> QED BY <2>1, <2>2 DEF Expected
<1>2. /\ ngh3' \in Ngh3Stream
      /\ ngh3'.handed = ngh3.handed /\ ngh3'.eof = ngh3.eof
      /\ ngh3'.sent = ngh3.handed /\ ngh3'.fin # "concluded"
      /\ ackleft' = Expected
  BY Zenon, <1>1, <1>t DEF SwallowStream, Ngh3Stream
<1>3. TypeOK'
  BY <1>1, <1>2, <1>t
  DEF TypeOK, SwallowStream, queueVars, flagVars, streamVars, sessVars, netVars
<1> QED BY <1>1, <1>2, <1>3, WriteInv DEF SwallowStream, streamVars

\* Reclaiming the stream, or destroying its session, empties a queue that
\* nothing hands out any more.
LEMMA CleanupInv == ASSUME IInv, Reclaim \/ Destroy PROVE IInv'
<1>t. TypeOK /\ Shape /\ Window /\ Flags
  BY DEF IInv
<1>1. /\ chunks' = <<>> /\ submit_chunk' = NoChunk /\ response_buffered' = 0
      /\ UNCHANGED <<response_len, ackleft, worker, broken, done>> /\ ~tracked'
      /\ worker = "done" /\ response_cancelled' = TRUE
  <2>1. CASE Reclaim
    BY <2>1, <1>t DEF Reclaim, CleanupLocked, Flags, flagVars
  <2>2. CASE Destroy /\ tracked
    BY <2>2 DEF Destroy, CancelFlags, CleanupLocked
  <2>3. CASE Destroy /\ ~tracked
    <3>1. chunks = <<>> /\ submit_chunk = NoChunk /\ response_cancelled
      BY <2>3, <1>t DEF Window, Flags
    <3>2. response_buffered = 0
      BY <3>1, <1>t, QueueTypes DEF Shape, BufferAccounting, AckPos
    <3> QED BY <2>3, <3>1, <3>2, <1>t DEF Destroy, TypeOK
  <2> QED BY Zenon, <2>1, <2>2, <2>3
<1>2. /\ ngh3' \in Ngh3Stream
      /\ ngh3'.handed = ngh3.handed /\ ngh3'.sent = ngh3.sent
      /\ ngh3'.eof = ngh3.eof /\ ngh3'.fin = ngh3.fin
  BY Zenon, <1>t DEF Reclaim, Destroy, TypeOK, Ngh3Stream
<1>3. event' \in EventStates /\ ackleft = 0
  BY <1>t DEF Reclaim, Destroy, TypeOK, EventStates, Window
<1>4. TypeOK'
  <2>1. chunks' \in Seq(Chunk)
    BY <1>1
  <2>2. /\ response_submitted' \in BOOLEAN /\ response_complete' \in BOOLEAN
        /\ write_blocked' \in BOOLEAN /\ qstream' \in BOOLEAN /\ tracked' \in BOOLEAN
    BY Zenon, <1>t DEF Reclaim, Destroy, CancelFlags, TypeOK, flagVars
  <2> QED BY Zenon, <2>1, <2>2, <1>1, <1>2, <1>3, <1>t
          DEF TypeOK, Reclaim, Destroy, sessVars, netVars
<1>5. Shape'
  <2>1. Len(chunks') = 0 /\ AckPos' = response_len' /\ response_len' \in Nat
    BY <1>1, <1>t DEF AckPos, TypeOK
  <2> QED BY <2>1, <1>1, ConstantsAssumption DEF Shape, BufferAccounting
<1>6. Window' /\ Flags'
  BY <1>1, <1>2, <1>3, <1>t DEF Window, Flags, FinMeansAll
<1> QED BY <1>4, <1>5, <1>6 DEF IInv

\* Cancelling, completing and submitting change only flags of the stream and
\* what nghttp3 knows besides its window.
LEMMA FlagStep ==
  ASSUME IInv, TypeOK',
         UNCHANGED <<queueVars, tracked, ackleft>>,
         ngh3'.handed = ngh3.handed, ngh3'.sent = ngh3.sent,
         ngh3'.eof = ngh3.eof, ngh3'.fin = ngh3.fin,
         response_cancelled => response_cancelled',
         response_complete => response_complete',
         done' => response_cancelled',
         broken' => broken \/ response_cancelled',
         worker' = worker \/ tracked,
         event' = event \/ ackleft = 0,
         worker' \in {"run", "append", "wait"} =>
           /\ worker \in {"run", "append", "wait"}
           /\ response_complete' => response_complete \/ response_cancelled'
  PROVE  IInv'
<1>1. Shape'
  BY DEF IInv, Shape, BufferAccounting, AckPos, End, queueVars
<1>2. Window'
  BY DEF IInv, TypeOK, Window, AckPos, End, queueVars
<1>3. Flags'
  BY DEF IInv, TypeOK, Flags, FinMeansAll, queueVars
<1> QED BY <1>1, <1>2, <1>3 DEF IInv

\* Every step of the worker keeps the invariant.
LEMMA WorkerInv == ASSUME IInv, Worker PROVE IInv'
<1>t. TypeOK /\ Window /\ Flags /\ ngh3 \in Ngh3Stream
  BY DEF IInv, TypeOK
<1>r. /\ Resumed \in Ngh3Stream
      /\ Resumed.handed = ngh3.handed /\ Resumed.sent = ngh3.sent
      /\ Resumed.eof = ngh3.eof /\ Resumed.fin = ngh3.fin
  BY Zenon, <1>t DEF Resumed, Ngh3Stream
<1>w. worker # "done" => tracked
  BY <1>t DEF Flags
<1> USE DEF queueVars, flagVars, streamVars, sessVars, netVars
<1>1. CASE StartResponse \/ FinalStart
  <2>1. ngh3' \in {ngh3, Resumed} /\ worker # "done"
    BY <1>1 DEF StartResponse, FinalStart, SubmitResponse
  <2>2. /\ UNCHANGED <<queueVars, streamVars, sessVars, netVars, ackleft, todo,
                       event, broken, abandoned, progress_age>>
        /\ worker' \in {worker, "final"}
        /\ worker' \in {"run", "append", "wait"} => worker' = worker
    BY <1>1 DEF StartResponse, FinalStart, SubmitResponse
  <2>3. /\ response_submitted' \in {response_submitted, TRUE}
        /\ \/ UNCHANGED <<response_complete, response_cancelled>>
           \/ response_cancelled' = TRUE /\ response_complete' = TRUE
    BY Zenon, <1>1 DEF StartResponse, FinalStart, SubmitResponse, CancelFlags
  <2>4. response_submitted' \in BOOLEAN
    BY Zenon, <2>3, <1>t DEF TypeOK
  <2>5. response_complete' \in BOOLEAN /\ response_cancelled' \in BOOLEAN
    BY Zenon, <2>3, <1>t DEF TypeOK
  <2>6. TypeOK'
    BY <2>1, <2>2, <2>4, <2>5, <1>r, <1>t DEF TypeOK, WorkerStates
  <2>7. ngh3'.handed = ngh3.handed /\ ngh3'.sent = ngh3.sent
        /\ ngh3'.eof = ngh3.eof /\ ngh3'.fin = ngh3.fin
    BY <2>1, <1>r
  <2>8. /\ response_cancelled => response_cancelled'
        /\ response_complete => response_complete'
        /\ done => response_cancelled'
        /\ response_complete' => response_complete \/ response_cancelled'
    BY <2>3, <1>t DEF Flags
  <2> QED BY <2>1, <2>2, <2>6, <2>7, <2>8, <1>w, FlagStep
<1>2. CASE \E len \in 1..MaxWrite : BeginAppend(len)
  <2>1. TypeOK'
    BY SMTT(20), <1>2, <1>t, ConstantsAssumption DEF BeginAppend, TypeOK, WorkerStates
  <2> QED BY <2>1, <1>2, <1>w, <1>t, FlagStep DEF BeginAppend, Flags
<1>3. CASE AppendWait \/ AppendTimeout \/ AppendFail \/ WorkerDone
  <2>1. TypeOK'
    <3>1. CASE AppendWait
      BY <3>1, <1>t DEF AppendWait, TypeOK, WorkerStates
    <3>2. CASE AppendTimeout
      BY <3>2, <1>t DEF AppendTimeout, TypeOK, WorkerStates
    <3>3. CASE AppendFail
      BY <3>3, <1>t, ConstantsAssumption DEF AppendFail, TypeOK, WorkerStates
    <3>4. CASE WorkerDone
      BY <3>4, <1>t DEF WorkerDone, TypeOK, WorkerStates
    <3> QED BY <1>3, <3>1, <3>2, <3>3, <3>4
  <2> QED BY <2>1, <1>3, <1>w, <1>t, FlagStep
          DEF AppendWait, AppendTimeout, AppendFail, WorkerDone, Flags
<1>4. CASE AppendCancel
  <2>1. TypeOK'
    BY <1>4, <1>t, ConstantsAssumption DEF AppendCancel, CancelFlags, TypeOK, WorkerStates
  <2> QED BY <2>1, <1>4, <1>w, <1>t, FlagStep DEF AppendCancel, CancelFlags
<1>5. CASE AppendChunk
  BY <1>5, AppendChunkInv
<1>6. CASE FilterEos \/ WorkerComplete
  <2>1. ngh3' \in {ngh3, Resumed} /\ worker # "done" /\ worker' \in {"eos", "closing"}
    BY <1>6 DEF FilterEos, WorkerComplete, Complete, ResumeOnComplete
  <2>2. /\ UNCHANGED <<queueVars, response_submitted, response_cancelled, streamVars,
                       sessVars, netVars, ackleft, todo, event, broken, abandoned,
                       progress_age>>
        /\ response_complete' = TRUE
    BY <1>6 DEF FilterEos, WorkerComplete, Complete
  <2>3. TypeOK'
    BY <2>1, <2>2, <1>r, <1>t DEF TypeOK, WorkerStates
  <2>4. ngh3'.handed = ngh3.handed /\ ngh3'.sent = ngh3.sent
        /\ ngh3'.eof = ngh3.eof /\ ngh3'.fin = ngh3.fin
    BY <2>1, <1>r
  <2>5. done => response_cancelled
    BY <1>t DEF Flags
  <2> QED BY <2>1, <2>2, <2>3, <2>4, <2>5, <1>w, FlagStep
<1> QED BY <1>1, <1>2, <1>3, <1>4, <1>5, <1>6 DEF Worker

\* Every step of the event thread keeps the invariant.
LEMMA EventThreadInv == ASSUME IInv, EventThread PROVE IInv'
<1>t. TypeOK /\ Window /\ Flags /\ ngh3 \in Ngh3Stream
  BY DEF IInv, TypeOK
<1>w. worker # "done" => tracked
  BY <1>t DEF Flags
<1>a. ackleft \in Nat /\ (event \notin {"flush", "service"} => ackleft = 0)
  BY <1>t DEF TypeOK, Window
<1>b. Broadcast => (worker' = worker \/ tracked) /\ worker' \in WorkerStates
                   /\ (worker' \in {"run", "append", "wait"} => worker \in {"run", "append", "wait"})
  BY SMTT(20), <1>t, <1>w DEF Broadcast, TypeOK, WorkerStates
<1> USE DEF queueVars, flagVars, streamVars, sessVars, netVars
<1>1. CASE BeginDrain \/ BeginFlush \/ Abort \/ MarkDead \/ AbortDead
  <2>1. TypeOK'
    <3>1. CASE BeginFlush
      <4>1. write_blocked' \in BOOLEAN
        BY <3>1 DEF BeginFlush
      <4>2. event' \in EventStates /\ seen_age' \in 0..StallTimeout
        BY <3>1, <1>t DEF BeginFlush, TypeOK, EventStates
      <4> QED BY Zenon, <3>1, <4>1, <4>2, <1>t DEF BeginFlush, TypeOK
    <3>2. CASE BeginDrain
      BY <3>2, <1>t DEF BeginDrain, TypeOK, EventStates
    <3>3. CASE Abort
      BY <3>3, <1>t DEF Abort, TypeOK
    <3>4. CASE MarkDead
      BY <3>4, <1>t DEF MarkDead, TypeOK
    <3>5. CASE AbortDead
      <4>1. aborted' \in BOOLEAN /\ event' \in EventStates
        BY <3>5 DEF AbortDead, EventStates
      <4> QED BY <4>1, <3>5, <1>t DEF AbortDead, TypeOK
    <3> QED BY <1>1, <3>1, <3>2, <3>3, <3>4, <3>5
  <2> QED BY <2>1, <1>1, <1>a, <1>t, FlagStep
          DEF BeginDrain, BeginFlush, Abort, MarkDead, AbortDead, Flags
<1>2. CASE OnStreamClose
  <2>1. /\ ngh3' \in Ngh3Stream /\ ngh3'.handed = ngh3.handed /\ ngh3'.sent = ngh3.sent
        /\ ngh3'.eof = ngh3.eof /\ ngh3'.fin = ngh3.fin
    BY Zenon, <1>2, <1>t DEF OnStreamClose, Ngh3Stream
  <2>2. TypeOK'
    BY Zenon, <2>1, <1>2, <1>b, <1>t DEF OnStreamClose, CancelFlags, TypeOK
  <2> QED BY <2>1, <2>2, <1>2, <1>b, <1>t, FlagStep DEF OnStreamClose, CancelFlags
<1>3. CASE OnStopSending \/ OnResetStream
  <2>1. TypeOK'
    BY Zenon, <1>3, <1>b, <1>t DEF OnStopSending, OnResetStream, CancelFlags, TypeOK
  <2> QED BY <2>1, <1>3, <1>b, <1>t, FlagStep
          DEF OnStopSending, OnResetStream, CancelFlags
<1>4. CASE ReadData
  BY <1>4, ReadDataInv
<1>5. CASE \E accepted \in 0..Expected : WriteStream(accepted)
  BY <1>5, WriteStreamInv
<1>6. CASE SwallowStream
  BY <1>6, SwallowStreamInv
<1>7. CASE AckChunk
  BY <1>7, AckChunkInv
<1>8. CASE AckNothing
  <2>1. ~tracked
    <3>1. CASE tracked
      <4>1. AckPos = response_len /\ AckPos + ackleft = ngh3.sent
            /\ ngh3.sent <= ngh3.handed /\ ngh3.handed <= response_len
        BY <1>8, <3>1, <1>t DEF AckNothing, AckPos, Window
      <4> QED BY <4>1, <1>8, <1>t, QueueTypes DEF AckNothing
    <3> QED BY <3>1
  <2>2. TypeOK'
    BY <1>8, <1>t DEF AckNothing, TypeOK
  <2>3. Shape'
    BY <1>8 DEF AckNothing, IInv, Shape, BufferAccounting, AckPos, End
  <2>4. Window' /\ Flags'
    BY <2>1, <1>8, <1>t DEF AckNothing, Window, Flags, FinMeansAll
  <2> QED BY <2>2, <2>3, <2>4 DEF IInv
<1>9. CASE \E dead \in BOOLEAN : EndFlush(dead)
  <2>1. TypeOK'
    <3>1. aborted' \in BOOLEAN /\ ngh3_dead' \in BOOLEAN
      BY <1>9 DEF EndFlush
    <3>2. event' \in EventStates
      BY <1>9 DEF EndFlush, EventStates
    <3>3. /\ response_complete' \in {TRUE, response_complete}
          /\ response_cancelled' \in {TRUE, response_cancelled}
          /\ abandoned' \in {TRUE, abandoned} /\ worker' \in WorkerStates
      BY Zenon, <1>9, <1>b, <1>t DEF EndFlush, CancelFlags, TypeOK
    <3>4. /\ response_complete' \in BOOLEAN /\ response_cancelled' \in BOOLEAN
          /\ abandoned' \in BOOLEAN
      BY Zenon, <3>3, <1>t DEF TypeOK
    <3> QED BY <3>1, <3>2, <3>3, <3>4, <1>9, <1>t DEF EndFlush, TypeOK
  <2> QED BY <2>1, <1>9, <1>b, <1>t, FlagStep DEF EndFlush, Flushing, CancelFlags, Flags
<1>10. CASE Reclaim \/ Destroy
  BY <1>10, CleanupInv
<1> QED BY Zenon, <1>1, <1>2, <1>3, <1>4, <1>5, <1>6, <1>7, <1>8, <1>9, <1>10 DEF EventThread

\* The invariant is inductive: it holds in every reachable state.
THEOREM Invariance == Spec => []IInv
<1>1. Init => IInv
  BY InitInv
<1>2. IInv /\ [Next]_vars => IInv'
  <2> SUFFICES ASSUME IInv, [Next]_vars PROVE IInv'
    OBVIOUS
  <2>t. TypeOK /\ Flags
    BY DEF IInv
  <2>1. CASE Worker
    BY <2>1, WorkerInv
  <2>2. CASE EventThread
    BY <2>2, EventThreadInv
  <2>3. CASE PeerAck
    <3> USE DEF queueVars, flagVars, streamVars, sessVars, netVars
    <3>1. inflight' \in 0..SendBuf /\ peer_age' \in 0..StallTimeout
      BY <2>3, <2>t, ConstantsAssumption DEF PeerAck, TypeOK
    <3>2. TypeOK'
      BY <3>1, <2>3, <2>t DEF PeerAck, TypeOK
    <3> QED BY <3>2, <2>3, <2>t, FlagStep DEF PeerAck, Flags
  <2>4. CASE Tick
    <3> USE DEF queueVars, flagVars, streamVars, sessVars, netVars
    <3>1. \A a \in 0..StallTimeout : Older(a) \in 0..StallTimeout
      BY ConstantsAssumption DEF Older
    <3>2. /\ progress_age' \in 0..StallTimeout /\ peer_age' \in 0..StallTimeout
          /\ seen_age' \in 0..StallTimeout
      BY <3>1, <2>4, <2>t DEF Tick, TypeOK
    <3>3. TypeOK'
      BY <3>2, <2>4, <2>t DEF Tick, TypeOK
    <3> QED BY <3>3, <2>4, <2>t, FlagStep DEF Tick, Flags
  <2>5. CASE UNCHANGED vars
    <3> USE DEF vars, queueVars, flagVars, streamVars, sessVars, netVars
    <3>1. TypeOK'
      BY <2>5, <2>t DEF TypeOK
    <3> QED BY <3>1, <2>5, <2>t, FlagStep DEF Flags
  <2> QED BY <2>1, <2>2, <2>3, <2>4, <2>5 DEF Next
<1> QED BY <1>1, <1>2, PTL DEF Spec

\* The state of the queue keeps its type.
THEOREM TypeCorrect == Spec => []TypeOK
<1>1. IInv => TypeOK
  BY DEF IInv
<1> QED BY <1>1, Invariance, PTL

\* response_buffered counts exactly the bytes the chunks hold and stays within
\* H3StreamBufferSize, however h3_stream_response_append and
\* h3_stream_response_ack_locked interleave.
THEOREM BufferAccountingHolds == Spec => []BufferAccounting
<1>1. IInv => BufferAccounting
  BY DEF IInv, Shape
<1> QED BY <1>1, Invariance, PTL

\* flush_nghttp3 never writes from a chunk that h3_stream_response_ack_locked
\* or h3_stream_response_cleanup_locked has freed.
THEOREM LiveVectorsHolds == Spec => []LiveVectors
<1>1. IInv => LiveVectors
  <2> SUFFICES ASSUME IInv, tracked PROVE LiveVectors
    BY DEF LiveVectors
  <2>1. submit_chunk # NoChunk => \E i \in 1..Len(chunks) : chunks[i].data = submit_chunk
    BY DEF IInv, Window
  <2>2. /\ AckPos \in Nat /\ ackleft \in Nat /\ ngh3.sent \in Nat /\ ngh3.handed \in Nat
        /\ response_len \in Nat
    BY QueueTypes DEF IInv
  <2>3. AckPos + ackleft = ngh3.sent /\ ngh3.handed <= response_len
    BY DEF IInv, Window
  <2>4. \A o \in ngh3.sent..(ngh3.handed - 1) : o \in AckPos..(response_len - 1)
    <3> DEFINE a == AckPos
    <3> HIDE DEF a
    <3>1. a + ackleft = ngh3.sent /\ a \in Nat
      BY <2>2, <2>3 DEF a
    <3>2. \A o \in ngh3.sent..(ngh3.handed - 1) : o \in a..(response_len - 1)
      BY <3>1, <2>2, <2>3
    <3> QED BY <3>2 DEF a
  <2>5. \A o \in AckPos..(response_len - 1) :
          \E i \in 1..Len(chunks) : chunks[i].data <= o /\ o < End(chunks[i])
    BY DEF IInv, Shape
  <2> QED BY <2>1, <2>4, <2>5 DEF LiveVectors
<1> QED BY <1>1, Invariance, PTL

\* h3_session_read_data hands out every byte once and in order.
THEOREM HandedInOrderHolds == Spec => []HandedInOrder
<1>1. IInv => HandedInOrder
  BY DEF IInv, Window, HandedInOrder
<1> QED BY <1>1, Invariance, PTL

\* A stream concluded by h3q_stream_write carried the whole response, unless
\* the response was cancelled.
THEOREM FinMeansAllHolds == Spec => []FinMeansAll
<1>1. IInv => FinMeansAll
  BY DEF IInv, Flags
<1> QED BY <1>1, Invariance, PTL

\* A producer asleep on response_cond has a full queue and a response that is
\* wanted: h3_stream_response_ack_locked, h3_stream_response_cancel_locked and
\* abandon_stalled_responses broadcast whenever they change either.
THEOREM NoMissedWakeupHolds == Spec => []NoMissedWakeup
<1>1. Init => NoMissedWakeup
  BY DEF Init, NoMissedWakeup
<1>2. NoMissedWakeup /\ [Next]_vars => NoMissedWakeup'
  <2> SUFFICES ASSUME NoMissedWakeup, [Next]_vars PROVE NoMissedWakeup'
    OBVIOUS
  <2> USE DEF NoMissedWakeup, queueVars, flagVars, streamVars, sessVars, netVars
  <2>1. CASE StartResponse \/ FinalStart
    BY SMTT(20), <2>1 DEF StartResponse, FinalStart, SubmitResponse
  <2>2. CASE \/ \E len \in 1..MaxWrite : BeginAppend(len)
             \/ AppendTimeout \/ AppendFail \/ AppendCancel \/ AppendChunk
    BY <2>2 DEF BeginAppend, AppendTimeout, AppendFail, AppendCancel, AppendChunk
  <2>3. CASE AppendWait
    BY <2>3 DEF AppendWait, AppendBlocked
  <2>4. CASE FilterEos \/ WorkerComplete \/ WorkerDone
    BY <2>4 DEF FilterEos, WorkerComplete, WorkerDone
  <2>5. CASE OnStreamClose \/ OnStopSending \/ OnResetStream \/ AckChunk
    BY <2>5 DEF OnStreamClose, OnStopSending, OnResetStream, AckChunk, Broadcast
  <2>6. CASE \/ BeginDrain \/ BeginFlush \/ ReadData \/ SwallowStream \/ AckNothing
             \/ \E accepted \in 0..Expected : WriteStream(accepted)
    <3>1. UNCHANGED <<worker, response_buffered, response_cancelled>>
      BY Zenon, <2>6 DEF BeginDrain, BeginFlush, ReadData, WriteStream, SwallowStream, AckNothing
    <3> QED BY <3>1
  <2>7. CASE EndFlush(FALSE) \/ EndFlush(TRUE)
    BY SMTT(20), <2>7 DEF EndFlush, Broadcast
  <2>8. CASE Abort \/ MarkDead \/ AbortDead \/ PeerAck \/ Tick
    BY <2>8 DEF Abort, MarkDead, AbortDead, PeerAck, Tick
  <2>9. CASE Reclaim \/ Destroy
    BY <2>9 DEF Reclaim, Destroy
  <2>10. CASE UNCHANGED vars
    BY Zenon, <2>10 DEF vars
  <2> QED BY Zenon, <2>1, <2>2, <2>3, <2>4, <2>5, <2>6, <2>7, <2>8, <2>9, <2>10
          DEF Next, Worker, EventThread
<1> QED BY <1>1, <1>2, PTL DEF Spec
-----------------------------------------------------------------------------
(* The queue implements the bounded pipe.                                  *)

\* A step that adds, sends, completes and cancels nothing is no step of the pipe.
LEMMA PipeStutter ==
  ASSUME UNCHANGED <<response_len, response_cancelled, response_complete, tracked>>,
         ngh3'.sent = ngh3.sent, ngh3'.fin = ngh3.fin
  PROVE  UNCHANGED Pipe!pipeVars
  BY DEF Pipe!pipeVars

\* A cancellation cuts the pipe; a stream that is reclaimed drops what is left.
LEMMA PipeCut ==
  ASSUME response_cancelled' = TRUE, UNCHANGED response_len,
         ngh3'.fin = ngh3.fin,
         \/ UNCHANGED tracked /\ ngh3'.sent = ngh3.sent
         \/ ~tracked'
  PROVE  Pipe!Next
<1>1. Pipe!Cut
  BY DEF Pipe!Cut
<1> QED BY <1>1 DEF Pipe!Next

\* h3_stream_response_complete closes the pipe unless it is closed or cut.
LEMMA PipeClose ==
  ASSUME response_complete' = TRUE, UNCHANGED <<response_len, response_cancelled, tracked>>,
         ngh3'.fin = ngh3.fin, ngh3'.sent = ngh3.sent
  PROVE  [Pipe!Next]_(Pipe!pipeVars)
<1>1. CASE response_cancelled \/ response_complete
  BY <1>1 DEF Pipe!pipeVars
<1>2. CASE ~response_cancelled /\ ~response_complete
  <2>1. Pipe!Close
    BY <1>2 DEF Pipe!Close
  <2> QED BY <2>1 DEF Pipe!Next
<1> QED BY <1>1, <1>2

\* What flush_nghttp3 writes or swallows is taken out of the pipe.
LEMMA PipeTake ==
  ASSUME TypeOK, Window, Flags, NEW n \in Nat, ngh3.sent + n <= ngh3.handed,
         ngh3.fin = "none", ngh3'.sent = ngh3.sent + n,
         UNCHANGED <<response_len, response_cancelled, response_complete, tracked>>,
         ngh3'.fin = "concluded" => ngh3.eof /\ ngh3'.sent = ngh3.handed
  PROVE  Pipe!Next
<1>1. /\ ngh3.sent \in Nat /\ ngh3.handed \in Nat /\ response_len \in Nat
  BY QueueTypes
<1>2. CASE tracked
  <2>1. ngh3.handed <= response_len /\ (submit_chunk = NoChunk => ngh3.handed = response_len)
    BY <1>2 DEF Window
  <2>2. n \in 0..(response_len - ngh3.sent)
    BY <1>1, <2>1
  <2>3. CASE ngh3'.fin = "concluded"
    <3>1. response_cancelled \/ (response_complete /\ ngh3'.sent = response_len)
      BY <2>1, <2>3 DEF Flags
    <3>2. Pipe!Take(n)
      BY <1>1, <1>2, <2>2, <2>3, <3>1 DEF Pipe!Take
    <3> QED BY <1>2, <2>2, <3>2 DEF Pipe!Next
  <2>4. CASE ngh3'.fin # "concluded"
    <3>1. Pipe!Take(n)
      BY <1>1, <1>2, <2>2, <2>4 DEF Pipe!Take
    <3> QED BY <1>2, <2>2, <3>1 DEF Pipe!Next
  <2> QED BY <2>3, <2>4
<1>3. CASE ~tracked
  <2>1. response_cancelled
    BY <1>3 DEF Flags
  <2>2. 0 \in 0..(response_len - response_len)
    BY <1>1
  <2>3. Pipe!Take(0)
    BY <1>1, <1>3, <2>1 DEF Pipe!Take
  <2> QED BY <1>3, <2>2, <2>3 DEF Pipe!Next
<1> QED BY <1>2, <1>3

\* append puts bytes into the pipe, as many as it has room for.
LEMMA PipeWrite == ASSUME IInv, AppendChunk PROVE Pipe!Next
<1> USE DEF flagVars, streamVars
<1> DEFINE n == ChunkLen
<1>t. TypeOK /\ Window /\ Flags
  BY Zenon DEF IInv
<1>1. n \in Nat /\ n > 0 /\ response_buffered + n <= BufferLimit
  <2>1. /\ todo \in Nat /\ response_buffered \in Nat
        /\ BufferLimit \in Nat /\ ChunkBytes \in Nat
    BY <1>t, ConstantsAssumption DEF TypeOK
  <2>2. ChunkLen > 0 /\ ~(response_buffered >= BufferLimit)
    BY DEF AppendChunk, AppendBlocked, Gone
  <2> QED BY <2>1, <2>2 DEF ChunkLen, Least
<1>2. /\ tracked /\ UNCHANGED <<tracked, response_cancelled, response_complete>>
      /\ ~response_cancelled /\ ~response_complete /\ response_len' = response_len + n
  BY <1>t DEF AppendChunk, Flags, Gone
<1>3. ngh3'.sent = ngh3.sent /\ ngh3'.fin = ngh3.fin
  BY Zenon, Zenon, <1>t DEF AppendChunk, TypeOK, Resumed, Ngh3Stream
<1>4. AckPos \in Nat /\ response_len \in Nat /\ ngh3.sent \in Nat /\ response_buffered \in Nat
      /\ ackleft \in Nat
  BY SMTT(20), <1>t, QueueTypes
<1>5. response_buffered = response_len - AckPos /\ AckPos + ackleft = ngh3.sent
  BY <1>2 DEF IInv, Shape, BufferAccounting, Window
<1> HIDE DEF n
<1>6. response_len + n - ngh3.sent <= BufferLimit /\ n \in 1..BufferLimit
  <2> DEFINE a == AckPos
  <2> HIDE DEF a
  <2>1. a \in Nat /\ response_buffered = response_len - a /\ a + ackleft = ngh3.sent
    BY <1>4, <1>5 DEF a
  <2> QED BY <2>1, <1>1, <1>4, ConstantsAssumption
<1>7. Pipe!Write(n)
  BY <1>2, <1>3, <1>6 DEF Pipe!Write
<1> QED BY <1>6, <1>7 DEF Pipe!Next

\* Every step of the request worker is a step of the pipe or changes nothing in it.
LEMMA PipeWorker == ASSUME IInv, Worker PROVE [Pipe!Next]_(Pipe!pipeVars)
<1> USE DEF queueVars, flagVars, streamVars
<1>t. TypeOK /\ ngh3 \in Ngh3Stream
  BY DEF IInv, TypeOK
<1>r. /\ Resumed.sent = ngh3.sent /\ Resumed.fin = ngh3.fin
      /\ ResumeOnComplete.sent = ngh3.sent /\ ResumeOnComplete.fin = ngh3.fin
  BY Zenon, <1>t DEF Resumed, ResumeOnComplete, Ngh3Stream
<1>1. CASE StartResponse \/ FinalStart
  <2>1. SubmitResponse
    BY <1>1 DEF StartResponse, FinalStart
  <2>2. CASE CancelFlags /\ UNCHANGED ngh3
    BY <2>1, <2>2, PipeCut DEF SubmitResponse, CancelFlags
  <2>3. CASE UNCHANGED <<response_complete, response_cancelled>> /\ ngh3' \in {ngh3, Resumed}
    BY <2>1, <2>3, <1>r, PipeStutter DEF SubmitResponse
  <2> QED BY <2>1, <2>2, <2>3 DEF SubmitResponse
<1>2. CASE \/ \E len \in 1..MaxWrite : BeginAppend(len)
           \/ AppendWait \/ AppendTimeout \/ AppendFail \/ WorkerDone
  BY <1>2, PipeStutter DEF BeginAppend, AppendWait, AppendTimeout, AppendFail, WorkerDone
<1>3. CASE AppendCancel
  BY <1>3, PipeCut DEF AppendCancel, CancelFlags
<1>4. CASE AppendChunk
  BY <1>4, PipeWrite
<1>5. CASE FilterEos \/ WorkerComplete
  BY Zenon, <1>5, <1>r, PipeClose DEF FilterEos, WorkerComplete, Complete
<1> QED BY <1>1, <1>2, <1>3, <1>4, <1>5 DEF Worker

\* So is every step of the event thread.
LEMMA PipeEvent == ASSUME IInv, EventThread PROVE [Pipe!Next]_(Pipe!pipeVars)
<1> USE DEF queueVars, flagVars, streamVars
<1>t. TypeOK /\ Window /\ Flags /\ ngh3 \in Ngh3Stream
  BY DEF IInv, TypeOK
<1>s. /\ ngh3.sent \in Nat /\ ngh3.handed \in Nat /\ ngh3.sent <= ngh3.handed
  BY <1>t, QueueTypes DEF Window
<1>1. CASE \/ BeginDrain \/ BeginFlush \/ AckChunk \/ AckNothing \/ Abort \/ MarkDead
           \/ AbortDead
  BY <1>1, PipeStutter
  DEF BeginDrain, BeginFlush, AckChunk, AckNothing, Abort, MarkDead, AbortDead
<1>2. CASE OnStreamClose
  <2>1. ngh3'.sent = ngh3.sent /\ ngh3'.fin = ngh3.fin
    BY Zenon, <1>2, <1>t DEF OnStreamClose, Ngh3Stream
  <2> QED BY <1>2, <2>1, PipeCut DEF OnStreamClose, CancelFlags
<1>3. CASE OnStopSending \/ OnResetStream
  BY Zenon, <1>3, PipeCut DEF OnStopSending, OnResetStream, CancelFlags
<1>4. CASE ReadData
  <2>1. ngh3'.sent = ngh3.sent /\ ngh3'.fin = ngh3.fin
    BY Zenon, <1>4, <1>t DEF ReadData, Ngh3Stream
  <2> QED BY <1>4, <2>1, PipeStutter DEF ReadData
<1>5. CASE \E accepted \in 0..Expected : WriteStream(accepted)
  <2> PICK n \in 0..Expected : WriteStream(n)
    BY <1>5
  <2>1. n \in Nat /\ ngh3.sent + n <= ngh3.handed
    BY <1>s DEF Expected
  <2>2. /\ ngh3'.sent = ngh3.sent + n
        /\ ngh3'.fin = IF ngh3.eof /\ n = Expected THEN "concluded" ELSE "none"
    BY Zenon, <1>t DEF WriteStream, Ngh3Stream
  <2>3. ngh3.fin = "none"
    BY DEF WriteStream, CanWrite
  <2>4. ngh3'.fin = "concluded" => ngh3.eof /\ ngh3'.sent = ngh3.handed
    BY <1>s, <2>1, <2>2 DEF Expected
  <2> QED BY <1>t, <2>1, <2>2, <2>3, <2>4, PipeTake DEF WriteStream
<1>6. CASE SwallowStream
  <2> DEFINE n == Expected
  <2>1. n \in Nat /\ ngh3.sent + n = ngh3.handed
    BY <1>s DEF Expected
  <2>2. ngh3'.sent = ngh3.handed /\ ngh3'.fin \in {"swallowed", "none"}
    BY Zenon, <1>6, <1>t DEF SwallowStream, Ngh3Stream
  <2>3. ngh3.fin = "none"
    BY <1>6 DEF SwallowStream, CanWrite
  <2> HIDE DEF n
  <2>4. ngh3.sent + n <= ngh3.handed /\ ngh3'.sent = ngh3.sent + n
    BY <1>s, <2>1, <2>2
  <2> QED BY <1>6, <1>t, <2>1, <2>2, <2>3, <2>4, PipeTake DEF SwallowStream
<1>7. CASE EndFlush(FALSE) \/ EndFlush(TRUE)
  <2>1. UNCHANGED <<response_len, tracked, ngh3>>
    BY <1>7 DEF EndFlush
  <2>2. CASE CancelFlags
    BY <2>1, <2>2, PipeCut DEF CancelFlags
  <2>3. CASE UNCHANGED <<response_complete, response_cancelled>>
    BY <2>1, <2>3, PipeStutter
  <2> QED BY <1>7, <2>2, <2>3 DEF EndFlush
<1>8. CASE Reclaim
  <2>1. response_cancelled' = TRUE
    BY <1>8, <1>t DEF Reclaim, Flags, TypeOK
  <2> QED BY <1>8, <2>1, PipeCut DEF Reclaim
<1>9. CASE Destroy
  <2>1. ngh3'.sent = ngh3.sent /\ ngh3'.fin = ngh3.fin
    BY Zenon, <1>9, <1>t DEF Destroy, Ngh3Stream
  <2>2. response_cancelled' = TRUE
    BY <1>9, <1>t DEF Destroy, CancelFlags, Flags, TypeOK
  <2> QED BY <1>9, <2>1, <2>2, PipeCut DEF Destroy
<1> QED BY Zenon, <1>1, <1>2, <1>3, <1>4, <1>5, <1>6, <1>7, <1>8, <1>9 DEF EventThread

\* The response queue of h3_session.c is the bounded pipe of ResponsePipe: what
\* h3_stream_response_append puts in comes out of flush_nghttp3 in order and
\* never more than H3StreamBufferSize later, and the stream of a response that
\* was not cancelled ends only with its last byte.
THEOREM ImplementsPipeHolds == Spec => ImplementsPipe
<1>1. Init => Pipe!Init
  BY DEF Init, Pipe!Init
<1>2. IInv /\ [Next]_vars => [Pipe!Next]_(Pipe!pipeVars)
  <2> SUFFICES ASSUME IInv, [Next]_vars PROVE [Pipe!Next]_(Pipe!pipeVars)
    OBVIOUS
  <2>1. CASE PeerAck \/ Tick \/ UNCHANGED vars
    BY <2>1, PipeStutter DEF PeerAck, Tick, vars, queueVars, flagVars, streamVars
  <2> QED BY <2>1, PipeWorker, PipeEvent DEF Next
<1> QED BY <1>1, <1>2, Invariance, PTL DEF Spec, ImplementsPipe, Pipe!Spec
-----------------------------------------------------------------------------
(* Which responses abandon_stalled_responses gives up.                     *)

\* nghttp3 is asked again for what append has queued, and knows the stream as
\* long as the response is wanted.
Offered ==
  /\ ngh3.open \/ response_cancelled \/ event = "gone"
  /\ response_len > 0 \/ worker \in {"append", "wait"} => response_submitted
  /\ submit_chunk # NoChunk => ngh3.ready
  /\ ngh3.fin # "none" => ngh3.eof
  /\ ~tracked => ~qstream

\* What a flush saw when it began is no younger than what the peer did last.
\* While the send buffer is full the peer has freed nothing since its bytes
\* were acknowledged, and of a stream that flush_nghttp3 leaves write blocked
\* that is what the flush saw, even if the peer has made room since.
Pace ==
  /\ seen_age >= peer_age
  /\ tracked /\ ackleft = 0 /\ inflight = SendBuf => peer_age >= progress_age
  /\ tracked /\ ackleft = 0 /\ write_blocked /\ event \in {"flush", "service"} =>
       seen_age >= progress_age

\* Every step keeps what nghttp3 is offered.
LEMMA OfferedStep == ASSUME IInv, Offered, [Next]_vars PROVE Offered'
<1> USE DEF queueVars, flagVars, streamVars
<1>t. TypeOK /\ ngh3 \in Ngh3Stream
  BY DEF IInv, TypeOK
<1>r. /\ Resumed.open = ngh3.open /\ Resumed.ready = TRUE /\ Resumed.eof = ngh3.eof
      /\ Resumed.fin = ngh3.fin
  BY Zenon, <1>t DEF Resumed, Ngh3Stream
<1>1. CASE StartResponse \/ FinalStart
  BY <1>1, <1>r, <1>t DEF StartResponse, FinalStart, SubmitResponse, CancelFlags, Offered
<1>2. CASE \E len \in 1..MaxWrite : BeginAppend(len)
  BY SMTT(20), <1>2, <1>t DEF BeginAppend, Offered
<1>3. CASE AppendWait \/ AppendTimeout \/ AppendFail \/ AppendCancel \/ WorkerDone
  BY <1>3 DEF AppendWait, AppendTimeout, AppendFail, AppendCancel, WorkerDone, CancelFlags,
              Offered
<1>4. CASE AppendChunk
  <2>1. response_submitted /\ ngh3' = Resumed
    BY SMTT(20), <1>4 DEF AppendChunk, Offered
  <2> QED BY <1>4, <1>r, <2>1 DEF AppendChunk, Offered
<1>5. CASE FilterEos \/ WorkerComplete
  <2>1. ngh3' \in {ngh3, Resumed}
    BY <1>5 DEF FilterEos, WorkerComplete, Complete, ResumeOnComplete
  <2> QED BY <1>5, <1>r, <2>1 DEF FilterEos, WorkerComplete, Complete, Offered
<1>6. CASE BeginDrain \/ BeginFlush \/ Abort \/ MarkDead \/ AbortDead \/ PeerAck \/ Tick
  <2>1. /\ UNCHANGED <<ngh3, response_cancelled, response_len, worker, response_submitted>>
        /\ UNCHANGED <<submit_chunk, tracked, qstream>>
    <3>1. CASE BeginDrain \/ BeginFlush \/ Abort
      BY Zenon, <3>1 DEF BeginDrain, BeginFlush, Abort
    <3>2. CASE MarkDead \/ AbortDead \/ PeerAck \/ Tick
      BY Zenon, <3>2 DEF MarkDead, AbortDead, PeerAck, Tick
    <3> QED BY Zenon, <1>6, <3>1, <3>2
  <2>2. event = "gone" => event' = "gone"
    BY <1>6 DEF BeginDrain, BeginFlush, Abort, MarkDead, AbortDead, PeerAck, Tick
  <2> QED BY <2>1, <2>2 DEF Offered
<1>7. CASE OnStreamClose
  <2>1. ngh3'.ready = ngh3.ready /\ ngh3'.eof = ngh3.eof /\ ngh3'.fin = ngh3.fin
    BY Zenon, <1>7, <1>t DEF OnStreamClose, Ngh3Stream
  <2> QED BY <1>7, <2>1 DEF OnStreamClose, CancelFlags, Broadcast, Offered
<1>8. CASE OnStopSending \/ OnResetStream
  BY <1>8 DEF OnStopSending, OnResetStream, CancelFlags, Broadcast, Offered
<1>9. CASE ReadData
  <2>1. CanRead
    BY <1>9 DEF ReadData
  <2>2. /\ ngh3'.open = ngh3.open /\ ngh3'.fin = ngh3.fin
        /\ ngh3'.ready = ngh3.ready \/ (submit_chunk = NoChunk /\ UNCHANGED submit_chunk)
    BY Zenon, <1>9, <1>t DEF ReadData, Ngh3Stream
  <2>3. ngh3.fin = "none" /\ ngh3.ready
    BY <2>1 DEF CanRead, Offered
  <2> QED BY Zenon, <1>9, <2>2, <2>3 DEF ReadData, Offered
<1>10. CASE SwallowStream \/ \E accepted \in 0..Expected : WriteStream(accepted)
  <2>1. /\ ngh3'.open = ngh3.open /\ ngh3'.ready = ngh3.ready /\ ngh3'.eof = ngh3.eof
        /\ ngh3'.fin = "none" \/ ngh3.eof
    BY Zenon, <1>10, <1>t DEF WriteStream, SwallowStream, Ngh3Stream
  <2>2. UNCHANGED <<response_cancelled, response_len, worker, response_submitted,
                    submit_chunk, tracked, qstream, event>>
    BY Zenon, <1>10 DEF WriteStream, SwallowStream
  <2>3. ngh3'.fin # "none" => ngh3'.eof
    BY <2>1
  <2> QED BY Zenon, <2>1, <2>2, <2>3 DEF Offered
<1>11. CASE AckChunk \/ AckNothing
  BY <1>11 DEF AckChunk, AckNothing, Broadcast, Offered
<1>12. CASE EndFlush(FALSE) \/ EndFlush(TRUE)
  <2>1. /\ UNCHANGED <<response_len, response_submitted, submit_chunk, ngh3, tracked, qstream>>
        /\ response_cancelled => response_cancelled'
        /\ event # "gone"
        /\ worker' \in {"append", "wait"} => worker \in {"append", "wait"}
    BY <1>12 DEF EndFlush, Flushing, CancelFlags, Broadcast
  <2> QED BY <2>1 DEF Offered
<1>13. CASE Reclaim
  BY <1>13 DEF Reclaim, CleanupLocked, Offered
<1>14. CASE Destroy
  <2>1. ngh3'.ready = ngh3.ready /\ ngh3'.eof = ngh3.eof /\ ngh3'.fin = ngh3.fin
    BY Zenon, <1>14, <1>t DEF Destroy, Ngh3Stream
  <2>2. submit_chunk' = NoChunk \/ submit_chunk' = submit_chunk
    BY <1>14 DEF Destroy, CleanupLocked
  <2> QED BY <1>14, <2>1, <2>2 DEF Destroy, Offered
<1>15. CASE UNCHANGED vars
  BY <1>15 DEF vars, Offered
<1> QED BY Zenon, <1>1, <1>2, <1>3, <1>4, <1>5, <1>6, <1>7, <1>8, <1>9, <1>10, <1>11, <1>12,
           <1>13, <1>14, <1>15 DEF Next, Worker, EventThread

\* Every step keeps the ages in their order.
LEMMA PaceStep == ASSUME IInv, Offered, Pace, [Next]_vars PROVE Pace'
<1> USE DEF queueVars, flagVars, streamVars, netVars
<1>t. TypeOK /\ Window
  BY Zenon DEF IInv
<1>n. /\ inflight \in 0..SendBuf /\ peer_age \in 0..StallTimeout
      /\ progress_age \in 0..StallTimeout /\ seen_age \in 0..StallTimeout
      /\ ackleft \in Nat
      /\ ngh3.sent \in Nat /\ ngh3.handed \in Nat /\ ngh3.sent <= ngh3.handed
      /\ SendBuf \in Nat \ {0} /\ StallTimeout \in Nat \ {0}
  BY <1>t, QueueTypes, ConstantsAssumption DEF TypeOK, Window
<1>1. CASE Worker
  <2>1. UNCHANGED <<event, write_blocked, inflight, tracked, ackleft, peer_age, progress_age,
                    seen_age>>
    BY Zenon, <1>1 DEF Worker, StartResponse, FinalStart, SubmitResponse, BeginAppend, AppendWait,
                AppendTimeout, AppendFail, AppendCancel, AppendChunk, FilterEos,
                WorkerComplete, Complete, WorkerDone
  <2> QED BY <2>1 DEF Pace
<1>2. CASE \/ BeginDrain \/ OnStreamClose \/ OnStopSending \/ OnResetStream \/ Abort
           \/ MarkDead \/ AbortDead \/ ReadData \/ EndFlush(FALSE) \/ EndFlush(TRUE)
           \/ UNCHANGED vars
  <2>1. UNCHANGED <<write_blocked, inflight, tracked, ackleft, peer_age, progress_age, seen_age>>
    BY Zenon, <1>2 DEF BeginDrain, OnStreamClose, OnStopSending, OnResetStream, Abort, MarkDead,
                AbortDead, ReadData, EndFlush, vars
  <2>2. event' \in {"flush", "service"} => event' = event
    BY Zenon, <1>2 DEF BeginDrain, OnStreamClose, OnStopSending, OnResetStream, Abort, MarkDead,
                AbortDead, ReadData, EndFlush, vars
  <2> QED BY Zenon, <2>1, <2>2 DEF Pace
<1>3. CASE BeginFlush
  <2>1. /\ seen_age' = peer_age /\ UNCHANGED <<inflight, tracked, ackleft, peer_age, progress_age>>
        /\ write_blocked' => inflight = SendBuf
    BY Zenon, <1>3 DEF BeginFlush
  <2> QED BY <1>n, <2>1 DEF Pace
<1>4. CASE \E accepted \in 0..Expected : WriteStream(accepted)
  <2> PICK n \in 0..Expected : WriteStream(n)
    BY <1>4
  <2>1. /\ n \in Nat /\ Room \in Nat /\ n >= Least(Expected, Room) /\ Expected \in Nat
        /\ ackleft = 0 /\ ackleft' = n
        /\ inflight' = Least(SendBuf, inflight + n)
        /\ peer_age' = IF n > Room THEN 0 ELSE peer_age
        /\ UNCHANGED <<tracked, progress_age, seen_age, event>>
    BY <1>n DEF WriteStream, Flushing, Room, Expected
  <2>2. write_blocked' => n < Expected
    BY Zenon DEF WriteStream
  <2>3. seen_age' >= peer_age'
    BY <1>n, <2>1 DEF Pace
  <2>4. n = 0 => UNCHANGED <<inflight, peer_age>>
    BY <1>n, <2>1 DEF Least
  <2>5. n = 0 /\ write_blocked' => inflight = SendBuf
    BY <1>n, <2>1, <2>2 DEF Least, Room
  <2> QED BY <1>n, <2>1, <2>3, <2>4, <2>5 DEF Pace
<1>5. CASE SwallowStream
  BY <1>5 DEF SwallowStream, Flushing, Pace
<1>6. CASE AckChunk
  <2>1. progress_age' = 0 /\ UNCHANGED <<peer_age, seen_age>>
    BY <1>6 DEF AckChunk
  <2> QED BY <1>n, <2>1 DEF Pace
<1>7. CASE AckNothing
  <2>1. ~tracked
    <3> SUFFICES ASSUME tracked PROVE FALSE
      OBVIOUS
    <3>1. /\ AckPos = response_len /\ AckPos + ackleft = ngh3.sent /\ ackleft > 0
          /\ ngh3.handed <= response_len
      BY <1>7, <1>t DEF AckNothing, AckPos, Window
    <3> QED BY <1>n, <1>t, <3>1, QueueTypes
  <2> QED BY <1>7, <2>1 DEF AckNothing, Pace
<1>8. CASE Reclaim \/ Destroy
  BY <1>8 DEF Reclaim, Destroy, Pace
<1>9. CASE PeerAck
  <2>1. /\ peer_age' = 0 /\ inflight' < SendBuf
        /\ UNCHANGED <<seen_age, tracked, ackleft, write_blocked, event, progress_age>>
    BY <1>9, <1>n DEF PeerAck
  <2>2. inflight' # SendBuf /\ seen_age' >= peer_age'
    BY <1>n, <2>1
  <2> QED BY <2>1, <2>2 DEF Pace
<1>10. CASE Tick
  <2>1. \A a, b \in 0..StallTimeout : a >= b => Older(a) >= Older(b)
    BY <1>n DEF Older
  <2>2. /\ peer_age' = Older(peer_age) /\ progress_age' = Older(progress_age)
        /\ seen_age' = Older(seen_age)
        /\ UNCHANGED <<tracked, ackleft, write_blocked, event, inflight>>
    BY <1>10 DEF Tick
  <2> QED BY <1>n, <2>1, <2>2 DEF Pace
<1> QED BY Zenon, <1>1, <1>2, <1>3, <1>4, <1>5, <1>6, <1>7, <1>8, <1>9, <1>10
        DEF Next, EventThread

\* A flush that ends with the queue full and the response wanted ended because
\* the stream is write blocked: otherwise nghttp3 would have more to read or
\* write.
LEMMA FullBecauseBlocked ==
  ASSUME IInv, Offered, Flushing, Stalled, ~CanRead, ~CanWrite
  PROVE  write_blocked /\ tracked
<1>t. TypeOK /\ Window /\ Flags
  BY DEF IInv
<1>1. ~response_cancelled /\ ~response_complete /\ response_buffered >= BufferLimit
  BY DEF Stalled
<1>2. tracked /\ ngh3.open /\ ~ngh3.eof /\ ngh3.fin = "none"
  BY <1>t, <1>1 DEF Flags, Flushing, Offered
<1>3. /\ ngh3.sent \in Nat /\ ngh3.handed \in Nat /\ response_len \in Nat /\ AckPos \in Nat
      /\ response_buffered \in Nat /\ BufferLimit \in Nat \ {0}
  BY SMTT(20), <1>t, QueueTypes, ConstantsAssumption
<1>4. AckPos = ngh3.sent /\ response_buffered = response_len - AckPos
  BY <1>t, <1>2, <1>3 DEF IInv, Shape, BufferAccounting, Window, Flushing
<1>5. ngh3.sent < response_len /\ response_submitted
  BY <1>1, <1>3, <1>4 DEF Offered
<1>6. CASE write_blocked
  BY <1>2, <1>6
<1>7. CASE ~write_blocked
  <2>1. Scheduled
    BY <1>2, <1>5, <1>7 DEF Scheduled
  <2>2. submit_chunk = NoChunk
    BY <1>2, <2>1 DEF CanRead, Offered
  <2>3. ngh3.sent < ngh3.handed
    BY <1>t, <1>2, <1>5, <2>2 DEF Window
  <2> QED BY <1>2, <2>1, <2>3 DEF CanWrite
<1> QED BY <1>6, <1>7

\* abandon_stalled_responses cancels a response only when what the peer had
\* freed at the time unblock_writable_streams last looked is at least
\* H3StreamTimeout old, or when nghttp3 died in the flush before it: room that
\* a pass could see always restarts response_progress_at first.
THEOREM AbandonOnlyStalledHolds == Spec => AbandonOnlyStalled
<1>1. Init => Offered /\ Pace
  BY ConstantsAssumption DEF Init, Offered, Pace
<1>2. IInv /\ Offered /\ Pace /\ [Next]_vars => Offered' /\ Pace'
  BY OfferedStep, PaceStep
<1>3. IInv /\ Offered /\ Pace /\ [Next]_vars =>
        [abandoned' # abandoned => seen_age = StallTimeout \/ ngh3_dead']_vars
  <2> SUFFICES ASSUME IInv, Offered, Pace, Next, abandoned' # abandoned
               PROVE  seen_age = StallTimeout \/ ngh3_dead'
    OBVIOUS
  <2>1. EndFlush(FALSE) \/ EndFlush(TRUE)
    BY Zenon DEF Next, Worker, StartResponse, FinalStart, SubmitResponse, BeginAppend, AppendWait,
           AppendTimeout, AppendFail, AppendCancel, AppendChunk, FilterEos, WorkerComplete,
           Complete, WorkerDone, EventThread, BeginDrain, OnStreamClose, OnStopSending,
           OnResetStream, BeginFlush, ReadData, WriteStream, SwallowStream, AckChunk,
           AckNothing, Abort, MarkDead, AbortDead, Reclaim, Destroy, PeerAck, Tick
  <2>2. CASE EndFlush(TRUE)
    BY <2>2 DEF EndFlush
  <2>3. CASE EndFlush(FALSE)
    <3>1. event = "service" /\ Stalled /\ Flushing /\ ~CanRead /\ ~CanWrite
      BY <2>3 DEF EndFlush
    <3>2. write_blocked /\ tracked
      BY <3>1, FullBecauseBlocked
    <3>3. seen_age >= progress_age /\ progress_age >= StallTimeout
      BY <3>1, <3>2 DEF Pace, Flushing, Stalled
    <3>4. seen_age \in 0..StallTimeout /\ progress_age \in Nat /\ StallTimeout \in Nat
      BY ConstantsAssumption DEF IInv, TypeOK
    <3> QED BY <3>3, <3>4
  <2> QED BY Zenon, <2>1, <2>2, <2>3
<1> QED BY <1>1, <1>2, <1>3, Invariance, PTL DEF Spec, AbandonOnlyStalled
=============================================================================
