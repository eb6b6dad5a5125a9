--------------------------- MODULE EventLoopProofs ---------------------------
(***************************************************************************)
(* Proofs about EventLoop, and DatagramQueue under it, for every set of    *)
(* peers and workers, every batch size and number of datagrams, every      *)
(* wakeup socket, bound on draining it and longest wait.                   *)
(***************************************************************************)
EXTENDS EventLoop, SequenceTheorems, TLAPS

Natural(s) == Len(s) \in Nat /\ \A k \in 1..Len(s) : s[k] \in Nat

Upto(s, m) == \A k \in 1..Len(s) : 1 <= s[k] /\ s[k] <= m

Rising(s) == \A j, k \in 1..Len(s) : j < k => s[j] < s[k]

Before(s, t) == \A j \in 1..Len(s), k \in 1..Len(t) : s[j] < t[k]

\* Of m datagrams d are delivered, q are in the filter's queue and s in the
\* socket, or were lost.
Line(d, q, s, m) ==
  /\ d \in Seq(Nat) /\ q \in Seq(Nat) /\ s \in Seq(Nat)
  /\ Upto(d, m) /\ Upto(q, m) /\ Upto(s, m)
  /\ Rising(d) /\ Rising(q) /\ Rising(s)
  /\ Before(d, q) /\ Before(d, s) /\ Before(q, s)

\* What Line says about the numbers themselves.
LEMMA LineFacts ==
  ASSUME NEW d, NEW q, NEW s, NEW m, Line(d, q, s, m)
  PROVE  Natural(d) /\ Natural(q) /\ Natural(s)
  BY DEF Line, Natural

\* A number at the end of a sequence that is not smaller than any in it.
LEMMA AppendRises ==
  ASSUME NEW s \in Seq(Nat), NEW n \in Nat, Rising(s), \A k \in 1..Len(s) : s[k] < n
  PROVE  /\ Rising(Append(s, n)) /\ Append(s, n) \in Seq(Nat)
         /\ Len(Append(s, n)) = Len(s) + 1 /\ Append(s, n)[Len(s) + 1] = n
         /\ \A k \in 1..Len(s) : Append(s, n)[k] = s[k]
<1> DEFINE t == Append(s, n)
<1>1. /\ t \in Seq(Nat) /\ Len(t) = Len(s) + 1 /\ t[Len(s) + 1] = n /\ Len(s) \in Nat
      /\ \A k \in 1..Len(s) : t[k] = s[k]
  OBVIOUS
<1>2. ASSUME NEW j \in 1..Len(t), NEW k \in 1..Len(t), j < k PROVE t[j] < t[k]
  <2>1. j \in 1..Len(s) /\ (k \in 1..Len(s) \/ k = Len(s) + 1)
    BY <1>1, <1>2
  <2>2. CASE k = Len(s) + 1
    BY <1>1, <2>1, <2>2
  <2>3. CASE k \in 1..Len(s)
    <3>1. s[j] < s[k]
      BY <1>2, <2>1, <2>3 DEF Rising
    <3> QED BY <1>1, <2>1, <2>3, <3>1
  <2> QED BY <2>1, <2>2, <2>3
<1> QED BY <1>1, <1>2 DEF Rising

\* A datagram that arrives is behind all others.
LEMMA ArriveLine ==
  ASSUME NEW d, NEW q, NEW s, NEW m \in Nat, Line(d, q, s, m)
  PROVE  Line(d, q, Append(s, m + 1), m + 1)
<1> DEFINE t == Append(s, m + 1)
<1>1. Natural(d) /\ Natural(q) /\ Natural(s)
  BY LineFacts
<1>2. Upto(d, m) /\ Upto(q, m) /\ Upto(s, m)
  BY DEF Line
<1>3. \A k \in 1..Len(s) : s[k] < m + 1
  BY <1>1, <1>2 DEF Natural, Upto
<1>4. /\ Rising(t) /\ t \in Seq(Nat) /\ Len(t) = Len(s) + 1 /\ t[Len(s) + 1] = m + 1
      /\ \A k \in 1..Len(s) : t[k] = s[k]
  <2>1. s \in Seq(Nat) /\ Rising(s) /\ m + 1 \in Nat
    BY DEF Line
  <2> QED BY <1>3, <2>1, AppendRises
<1> HIDE DEF t
<1>5. Len(s) \in Nat /\ \A k \in 1..Len(t) : k \in 1..Len(s) \/ k = Len(s) + 1
  BY <1>1, <1>4 DEF Natural
<1>6. Upto(d, m + 1) /\ Upto(q, m + 1)
  BY <1>1, <1>2 DEF Natural, Upto
<1>7. ASSUME NEW k \in 1..Len(t) PROVE 1 <= t[k] /\ t[k] <= m + 1
  <2>1. CASE k = Len(s) + 1
    BY <1>4, <2>1
  <2>2. CASE k \in 1..Len(s)
    BY <1>1, <1>2, <1>4, <2>2 DEF Natural, Upto
  <2> QED BY <1>5, <2>1, <2>2
<1>8. ASSUME NEW e, Natural(e), Upto(e, m), Before(e, s) PROVE Before(e, t)
  <2> SUFFICES ASSUME NEW j \in 1..Len(e), NEW k \in 1..Len(t) PROVE e[j] < t[k]
    BY DEF Before
  <2>1. CASE k = Len(s) + 1
    BY <1>4, <1>8, <2>1 DEF Natural, Upto
  <2>2. CASE k \in 1..Len(s)
    BY <1>4, <1>8, <2>2 DEF Before
  <2> QED BY <1>5, <2>1, <2>2
<1>9. Before(d, t) /\ Before(q, t)
  BY <1>1, <1>2, <1>8 DEF Line
<1> QED BY <1>4, <1>6, <1>7, <1>9 DEF Line, Upto, t

\* h3q_queue_drop_head leaves the others in line.
LEMMA DropLine ==
  ASSUME NEW d, NEW q, NEW s, NEW m \in Nat, Line(d, q, s, m), q # <<>>
  PROVE  Line(d, Tail(q), s, m) /\ Len(Tail(q)) = Len(q) - 1
<1> DEFINE t == Tail(q)
<1>1. Natural(d) /\ Natural(q) /\ Natural(s)
  BY LineFacts
<1>2. t \in Seq(Nat) /\ Len(t) = Len(q) - 1 /\ \A k \in 1..Len(t) : t[k] = q[k + 1]
  BY DEF Line
<1> HIDE DEF t
<1>3. \A k \in 1..Len(t) : k \in Nat /\ k + 1 \in 1..Len(q)
  BY <1>1, <1>2 DEF Natural
<1>4. Upto(q, m) /\ Rising(q) /\ Before(d, q) /\ Before(q, s)
  BY DEF Line
<1>5. Upto(t, m)
  BY <1>2, <1>3, <1>4 DEF Upto
<1>6. ASSUME NEW j \in 1..Len(t), NEW k \in 1..Len(t), j < k PROVE t[j] < t[k]
  <2>1. j + 1 < k + 1
    BY <1>3, <1>6
  <2> QED BY <1>2, <1>3, <1>4, <2>1 DEF Rising
<1>7. Before(d, t) /\ Before(t, s)
  BY <1>2, <1>3, <1>4 DEF Before
<1> QED BY <1>2, <1>5, <1>6, <1>7 DEF Line, Rising, t

\* h3q_queue_pop moves the head of the queue to the end of what is delivered.
LEMMA PopLine ==
  ASSUME NEW d, NEW q, NEW s, NEW m \in Nat, Line(d, q, s, m), q # <<>>
  PROVE  Line(Append(d, Head(q)), Tail(q), s, m) /\ Head(q) \in 1..m
<1> DEFINE t == Tail(q)
           h == Head(q)
           e == Append(d, h)
<1>1. Natural(d) /\ Natural(q) /\ Natural(s) /\ Line(d, t, s, m)
  BY LineFacts, DropLine
<1>2. Len(q) >= 1 /\ h = q[1] /\ Len(t) = Len(q) - 1 /\ \A k \in 1..Len(t) : t[k] = q[k + 1]
  BY DEF Line
<1>3. 1 \in 1..Len(q) /\ \A k \in 1..Len(t) : k + 1 \in 1..Len(q) /\ 1 < k + 1
  BY <1>1, <1>2 DEF Natural
<1>4. h \in Nat /\ 1 <= h /\ h <= m
  BY <1>1, <1>2, <1>3 DEF Natural, Line, Upto
<1>5. \A k \in 1..Len(d) : d[k] < h
  BY <1>2, <1>3 DEF Line, Before
<1>6. /\ Rising(e) /\ e \in Seq(Nat) /\ Len(e) = Len(d) + 1 /\ e[Len(d) + 1] = h
      /\ \A k \in 1..Len(d) : e[k] = d[k]
  BY <1>4, <1>5, AppendRises DEF Line
<1> HIDE DEF t, h, e
<1>7. \A k \in 1..Len(e) : k \in 1..Len(d) \/ k = Len(d) + 1
  BY <1>1, <1>6 DEF Natural
<1>8. Upto(e, m)
  BY <1>4, <1>6, <1>7 DEF Line, Upto
<1>9. (\A k \in 1..Len(t) : h < t[k]) /\ (\A k \in 1..Len(s) : h < s[k])
  BY <1>2, <1>3 DEF Line, Rising, Before
<1>10. Before(d, t) /\ Before(d, s)
  BY <1>1 DEF Line
<1>11. Before(e, t) /\ Before(e, s)
  BY <1>6, <1>7, <1>9, <1>10 DEF Before
<1> QED BY <1>1, <1>4, <1>6, <1>8, <1>11 DEF Line, t, h, e

\* A batch is a prefix of what the socket holds.
LEMMA BatchLine ==
  ASSUME NEW d, NEW s, NEW m \in Nat, Line(d, <<>>, s, m), NEW k \in 1..Len(s)
  PROVE  /\ Line(d, SubSeq(s, 1, k), SubSeq(s, k + 1, Len(s)), m)
         /\ Line(d, <<>>, SubSeq(s, k + 1, Len(s)), m)
         /\ SubSeq(s, 1, k) # <<>> /\ Len(SubSeq(s, 1, k)) = k
<1> DEFINE a == SubSeq(s, 1, k)
           b == SubSeq(s, k + 1, Len(s))
<1>1. s \in Seq(Nat) /\ Len(s) \in Nat /\ k \in Nat /\ k >= 1 /\ k <= Len(s)
  BY DEF Line
<1>2. a \in Seq(Nat) /\ Len(a) = k /\ \A j \in 1..k : a[j] = s[j] /\ j \in 1..Len(s)
  BY <1>1
<1>3. b \in Seq(Nat) /\ Len(b) = Len(s) - k
  BY <1>1
<1>4. \A j \in 1..Len(b) : b[j] = s[k + j] /\ k + j \in 1..Len(s) /\ k < k + j /\ j \in Nat
  <2>1. \A j \in 1..Len(b) : b[j] = s[k + j]
    BY <1>1, <1>3
  <2>2. \A j \in 1..(Len(s) - k) : k + j \in 1..Len(s) /\ k < k + j /\ j \in Nat
    BY <1>1
  <2> QED BY <1>3, <2>1, <2>2
<1>5. a # <<>>
  BY <1>1, <1>2
<1> HIDE DEF a, b
<1>6. Upto(s, m) /\ Rising(s) /\ Before(d, s)
  BY DEF Line
<1>7. Upto(a, m) /\ Rising(a)
  BY <1>2, <1>6 DEF Upto, Rising
<1>8. Upto(b, m)
  BY <1>4, <1>6 DEF Upto
<1>9. ASSUME NEW i1 \in 1..Len(b), NEW j \in 1..Len(b), i1 < j PROVE b[i1] < b[j]
  <2>1. k + i1 < k + j
    BY <1>1, <1>4, <1>9
  <2> QED BY <1>4, <1>6, <2>1 DEF Rising
<1>10. Before(d, a) /\ Before(d, b)
  BY <1>2, <1>4, <1>6 DEF Before
<1>11. ASSUME NEW i1 \in 1..Len(a), NEW j \in 1..Len(b) PROVE a[i1] < b[j]
  <2>1. i1 < k + j
    BY <1>1, <1>2, <1>4
  <2> QED BY <1>2, <1>4, <1>6, <2>1 DEF Rising
<1>12. Before(<<>>, b)
  BY DEF Before
<1>13. Before(a, b) /\ Rising(b)
  BY <1>9, <1>11 DEF Before, Rising
<1> QED BY <1>2, <1>3, <1>5, <1>7, <1>8, <1>10, <1>12, <1>13 DEF Line, a, b

\* The elements of a concatenation.
LEMMA ConcatFacts ==
  ASSUME NEW a \in Seq(Nat), NEW b \in Seq(Nat)
  PROVE  /\ a \o b \in Seq(Nat) /\ Len(a \o b) = Len(a) + Len(b)
         /\ Len(a) \in Nat /\ Len(b) \in Nat
         /\ \A j \in 1..Len(a) : (a \o b)[j] = a[j]
         /\ \A j \in 1..Len(b) : (a \o b)[Len(a) + j] = b[j]
         /\ \A j \in 1..Len(a \o b) :
              j \in 1..Len(a) \/ \E k \in 1..Len(b) : j = Len(a) + k
<1>1. /\ a \o b \in Seq(Nat) /\ Len(a \o b) = Len(a) + Len(b)
      /\ Len(a) \in Nat /\ Len(b) \in Nat
  OBVIOUS
<1>2. \A j \in 1..Len(a) : (a \o b)[j] = a[j]
  OBVIOUS
<1>3. \A j \in 1..Len(b) : (a \o b)[Len(a) + j] = b[j]
  BY <1>1
<1>4. ASSUME NEW j \in 1..Len(a \o b), j \notin 1..Len(a)
      PROVE  \E k \in 1..Len(b) : j = Len(a) + k
  <2>1. j - Len(a) \in 1..Len(b) /\ j = Len(a) + (j - Len(a))
    BY <1>1, <1>4
  <2> QED BY <2>1
<1> QED BY <1>1, <1>2, <1>3, <1>4

\* Two sequences in line rise together.
LEMMA ConcatRises ==
  ASSUME NEW a \in Seq(Nat), NEW b \in Seq(Nat), Rising(a), Rising(b), Before(a, b)
  PROVE  Rising(a \o b)
<1> DEFINE c == a \o b
<1>1. /\ Len(a) \in Nat /\ Len(b) \in Nat
      /\ \A j \in 1..Len(a) : c[j] = a[j]
      /\ \A j \in 1..Len(b) : c[Len(a) + j] = b[j]
      /\ \A j \in 1..Len(c) : j \in 1..Len(a) \/ \E k \in 1..Len(b) : j = Len(a) + k
  BY ConcatFacts
<1> HIDE DEF c
<1>2. ASSUME NEW j \in 1..Len(c), NEW k \in 1..Len(c), j < k PROVE c[j] < c[k]
  <2>1. CASE j \in 1..Len(a) /\ k \in 1..Len(a)
    BY <1>1, <1>2, <2>1 DEF Rising
  <2>2. CASE j \in 1..Len(a) /\ k \notin 1..Len(a)
    BY <1>1, <2>2 DEF Before
  <2>3. CASE j \notin 1..Len(a)
    <3>1. PICK x \in 1..Len(b) : j = Len(a) + x
      BY <1>1, <2>3
    <3>2. k \notin 1..Len(a)
      BY <1>1, <1>2, <3>1
    <3>3. PICK y \in 1..Len(b) : k = Len(a) + y
      BY <1>1, <3>2
    <3>4. x < y
      BY <1>1, <1>2, <3>1, <3>3
    <3> QED BY <1>1, <3>1, <3>3, <3>4 DEF Rising
  <2> QED BY <2>1, <2>2, <2>3
<1> QED BY <1>2 DEF Rising, c

\* What is before a third sequence.
LEMMA ConcatBefore ==
  ASSUME NEW a \in Seq(Nat), NEW b \in Seq(Nat), NEW t, Before(a, t), Before(b, t)
  PROVE  Before(a \o b, t)
<1> SUFFICES ASSUME NEW j \in 1..Len(a \o b), NEW k \in 1..Len(t) PROVE (a \o b)[j] < t[k]
  BY DEF Before
<1>1. CASE j \in 1..Len(a)
  BY <1>1, ConcatFacts DEF Before
<1>2. CASE \E x \in 1..Len(b) : j = Len(a) + x
  <2>1. PICK x \in 1..Len(b) : j = Len(a) + x
    BY <1>2
  <2>2. (a \o b)[j] = b[x]
    BY <2>1, ConcatFacts
  <2> QED BY <2>2 DEF Before
<1> QED BY <1>1, <1>2, ConcatFacts

\* What is in line is in order.
LEMMA LineInOrder ==
  ASSUME NEW m, Line(delivered, peer_rx, socket, m)
  PROVE  InOrder
<1> DEFINE dq == delivered \o peer_rx
           line == dq \o socket
<1>1. dq \in Seq(Nat) /\ socket \in Seq(Nat) /\ Rising(dq) /\ Before(dq, socket)
  BY ConcatFacts, ConcatRises, ConcatBefore DEF Line
<1>2. Rising(line) /\ line \in Seq(Nat)
  BY <1>1, ConcatRises, ConcatFacts DEF Line
<1> HIDE DEF dq
<1>3. Len(line) \in Nat
  BY <1>2
<1> HIDE DEF line
<1>4. \A j \in 2..Len(line) : j - 1 \in 1..Len(line) /\ j \in 1..Len(line) /\ j - 1 < j
  BY <1>3
<1>5. \A j \in 2..Len(line) : line[j - 1] < line[j]
  BY <1>2, <1>4 DEF Rising
<1> QED BY <1>5 DEF InOrder, line, dq
-----------------------------------------------------------------------------
(* The datagram filter and the pump.                                       *)

\* The datagrams are in line, OpenSSL works on one whose sender is the current
\* peer, and what was recorded for a connection is its sender.
QueueInv ==
  /\ arrived \in Seq(Peers) /\ Len(arrived) <= MaxDatagrams
  /\ Line(delivered, peer_rx, socket, Len(arrived)) /\ Len(peer_rx) < Batch
  /\ current_peer_addr \in Peers \cup {NoAddr}
  /\ reading \in Nat
  /\ reading # 0 => reading <= Len(arrived) /\ current_peer_addr = arrived[reading]
  /\ conn \in [Numbers -> Peers \cup {NoAddr, "none", "refused"}]
  /\ client \in [Numbers -> Peers \cup {NoAddr, "none"}]
  /\ \A n \in Numbers :
       conn[n] \notin {"none", "refused"} => n <= Len(arrived) /\ conn[n] = arrived[n]
  /\ \A n \in Numbers :
       client[n] \notin {"none", NoAddr} => n <= Len(arrived) /\ client[n] = arrived[n]
  /\ pump \in {"idle", "events", "process", "tick"} /\ pumped \in {-1, 0, 1}

\* Before anything arrives nothing is out of line.
LEMMA QueueInit == Init => QueueInv
<1> SUFFICES ASSUME Init PROVE QueueInv
  OBVIOUS
<1>1. arrived = <<>> /\ Len(arrived) = 0 /\ arrived \in Seq(Peers)
  BY DEF Init
<1>2. Line(<<>>, <<>>, <<>>, 0)
  BY DEF Line, Upto, Rising, Before
<1>3. conn = [n \in Numbers |-> "none"] /\ client = [n \in Numbers |-> "none"]
  BY DEF Init
<1>4. /\ Line(delivered, peer_rx, socket, Len(arrived)) /\ Len(peer_rx) < Batch
      /\ reading = 0
  BY <1>1, <1>2, DatagramAssumption DEF Init
<1> QED BY <1>1, <1>3, <1>4, DatagramAssumption DEF Init, QueueInv

\* A datagram arrives in the socket.
LEMMA ArriveInv ==
  ASSUME QueueInv, NEW p \in Peers, Arrive(p)
  PROVE  QueueInv'
<1> DEFINE m == Len(arrived)
<1>1. m \in Nat /\ arrived \in Seq(Peers)
  BY DEF QueueInv
<1>2. /\ arrived' \in Seq(Peers) /\ Len(arrived') = m + 1 /\ m + 1 <= MaxDatagrams
      /\ \A n \in 1..m : arrived'[n] = arrived[n]
  BY <1>1, DatagramAssumption DEF Arrive
<1>3. Line(delivered, peer_rx, Append(socket, m + 1), m + 1)
  BY <1>1, ArriveLine DEF QueueInv
<1>4. Line(delivered, peer_rx, socket, Len(arrived))'
  BY <1>2, <1>3 DEF Arrive
<1>5. UNCHANGED <<peer_rx, current_peer_addr, reading, conn, client, pump, pumped>>
  BY DEF Arrive
<1>6. reading' # 0 => reading' <= Len(arrived') /\ current_peer_addr' = arrived'[reading']
  BY <1>1, <1>2, <1>5 DEF QueueInv
<1>7. \A n \in Numbers : n <= m => n <= m + 1 /\ arrived'[n] = arrived[n]
  BY <1>1, <1>2, DatagramAssumption DEF Numbers
<1>8. \A n \in Numbers : conn'[n] \notin {"none", "refused"} =>
        n <= Len(arrived') /\ conn'[n] = arrived'[n]
  BY <1>2, <1>5, <1>7 DEF QueueInv
<1>9. \A n \in Numbers : client'[n] \notin {"none", NoAddr} =>
        n <= Len(arrived') /\ client'[n] = arrived'[n]
  BY <1>2, <1>5, <1>7 DEF QueueInv
<1> QED BY <1>2, <1>4, <1>5, <1>6, <1>8, <1>9 DEF QueueInv

\* Steps of the pump and of OpenSSL's other calls that read nothing.
LEMMA PumpInv ==
  ASSUME QueueInv, BeginPump \/ EndEvents \/ FailEvents \/ EndTick
  PROVE  QueueInv'
<1>1. UNCHANGED <<arrived, socket, peer_rx, current_peer_addr, delivered, conn, client>>
  BY DEF BeginPump, EndEvents, FailEvents, EndTick
<1>2. /\ reading' \in {0, reading} /\ pump' \in {"idle", "events"} /\ pumped' \in {-1, 0, 1}
  BY DEF BeginPump, EndEvents, FailEvents, EndTick, QueueInv
<1> QED BY <1>1, <1>2 DEF QueueInv

\* h3q_queue_pop from a queue q, with what is in the socket then.
LEMMA PopInv ==
  ASSUME QueueInv, NEW q, q # <<>>, Line(delivered, q, socket', Len(arrived)), Len(q) <= Batch,
         Pop(q), pump' \in {"process", "tick"}, UNCHANGED <<arrived, conn, client, pumped>>
  PROVE  QueueInv'
<1>1. Len(arrived) \in Nat /\ arrived \in Seq(Peers)
  BY DEF QueueInv
<1>2. /\ Line(Append(delivered, Head(q)), Tail(q), socket', Len(arrived))
      /\ Head(q) \in 1..Len(arrived)
  BY <1>1, PopLine
<1>3. Len(Tail(q)) = Len(q) - 1 /\ Len(q) \in Nat
  BY <1>1, DropLine DEF Line
<1>4. Line(delivered, peer_rx, socket, Len(arrived))' /\ Len(peer_rx') < Batch
  BY <1>2, <1>3, DatagramAssumption DEF Pop, AfterPop
<1>5. /\ reading' \in Nat /\ reading' \in 1..Len(arrived)
      /\ current_peer_addr' = arrived[reading'] /\ current_peer_addr' \in Peers
  BY <1>1, <1>2 DEF Pop, AddrOf
<1> QED BY <1>4, <1>5 DEF QueueInv

\* OpenSSL reads and is given nothing.
LEMMA NothingInv ==
  ASSUME QueueInv, Nothing, Line(delivered, peer_rx', socket', Len(arrived)),
         Len(peer_rx') < Batch, pump' \in {"process", "tick"},
         UNCHANGED <<arrived, conn, client, pumped>>
  PROVE  QueueInv'
<1>1. Line(delivered, peer_rx, socket, Len(arrived))'
  BY DEF Nothing
<1>2. reading' = 0 /\ current_peer_addr' = NoAddr
  BY DEF Nothing
<1> QED BY <1>1, <1>2 DEF QueueInv

\* SSL_handle_events reads, or another call does.
LEMMA HandleEventsInv ==
  ASSUME QueueInv, HandleEvents \/ CallTicks
  PROVE  QueueInv'
<1>1. /\ Len(arrived) \in Nat /\ Line(delivered, peer_rx, socket, Len(arrived))
      /\ peer_rx \in Seq(Nat) /\ socket \in Seq(Nat) /\ Len(peer_rx) < Batch
  BY DEF QueueInv, Line
<1>2. pump' \in {"process", "tick"} /\ UNCHANGED <<arrived, conn, client, pumped>>
  BY DEF HandleEvents, CallTicks
<1>3. CASE RecvQueued
  <2>1. peer_rx # <<>> /\ socket' = socket
    BY <1>3 DEF RecvQueued
  <2>2. CASE Pop(peer_rx)
    BY <1>1, <1>2, <2>1, <2>2, PopInv, DatagramAssumption
  <2>3. CASE peer_rx' = AfterShort(peer_rx) /\ Nothing
    <3>1. Line(delivered, Tail(peer_rx), socket, Len(arrived)) /\ Len(Tail(peer_rx)) < Batch
      BY <1>1, <2>1, DropLine, DatagramAssumption
    <3> QED BY <1>2, <2>1, <2>3, <3>1, NothingInv DEF AfterShort
  <2> QED BY <1>3, <2>2, <2>3 DEF RecvQueued
<1>4. CASE RecvBatch
  <2>1. peer_rx = <<>>
    BY <1>4 DEF RecvBatch
  <2>2. CASE socket = <<>>
    BY <1>1, <1>2, <1>4, <2>2, NothingInv DEF RecvBatch
  <2>3. CASE socket # <<>>
    <3>1. PICK k \in 1..Batch :
            /\ k <= Len(socket)
            /\ socket' = SubSeq(socket, k + 1, Len(socket))
            /\ Pop(SubSeq(socket, 1, k)) \/ (Nothing /\ UNCHANGED peer_rx)
      BY <1>4, <2>3 DEF RecvBatch
    <3>2. k \in 1..Len(socket) /\ k <= Batch
      BY <1>1, <3>1, DatagramAssumption
    <3> DEFINE q == SubSeq(socket, 1, k)
    <3>3. /\ Line(delivered, q, socket', Len(arrived))
          /\ Line(delivered, <<>>, socket', Len(arrived))
          /\ q # <<>> /\ Len(q) = k
      BY <1>1, <2>1, <3>1, <3>2, BatchLine
    <3>4. CASE Pop(q)
      <4> HIDE DEF q
      <4> QED BY <1>2, <3>2, <3>3, <3>4, PopInv
    <3>5. CASE Nothing /\ UNCHANGED peer_rx
      BY <1>1, <1>2, <2>1, <3>3, <3>5, NothingInv
    <3> QED BY <3>1, <3>4, <3>5
  <2> QED BY <2>2, <2>3
<1> QED BY <1>3, <1>4 DEF HandleEvents, CallTicks

\* h3q_new_pending_conn_cb records the current peer for a connection.
LEMMA NewPendingConnInv ==
  ASSUME QueueInv, NewPendingConn
  PROVE  QueueInv'
<1>1. UNCHANGED <<arrived, socket, peer_rx, current_peer_addr, reading, delivered, client, pump,
                  pumped>>
  BY DEF NewPendingConn
<1>2. /\ reading \in Nat /\ reading # 0 /\ Len(arrived) \in Nat
      /\ reading <= Len(arrived) /\ current_peer_addr = arrived[reading]
      /\ current_peer_addr \in Peers \cup {NoAddr} /\ Len(arrived) <= MaxDatagrams
  BY DEF NewPendingConn, QueueInv
<1>3. reading \in Numbers
  BY <1>2, DatagramAssumption DEF Numbers
<1>4. PICK a \in {current_peer_addr, "refused"} : conn' = [conn EXCEPT ![reading] = a]
  BY DEF NewPendingConn
<1>5. conn' \in [Numbers -> Peers \cup {NoAddr, "none", "refused"}]
  BY <1>2, <1>4 DEF QueueInv
<1>6. ASSUME NEW n \in Numbers, conn'[n] \notin {"none", "refused"}
      PROVE  n <= Len(arrived) /\ conn'[n] = arrived[n]
  BY <1>2, <1>3, <1>4, <1>6 DEF QueueInv
<1> QED BY <1>1, <1>5, <1>6 DEF QueueInv

\* h3_synth_conn gives the requests of a connection the recorded address.
LEMMA SynthConnInv ==
  ASSUME QueueInv, NEW n \in Numbers, SynthConn(n)
  PROVE  QueueInv'
<1>1. UNCHANGED <<arrived, socket, peer_rx, current_peer_addr, reading, delivered, conn, pump,
                  pumped>>
  BY DEF SynthConn
<1>2. PICK a \in {h3q_engine_peer_addr(n), NoAddr} : client' = [client EXCEPT ![n] = a]
  BY DEF SynthConn, peer_addr_resolve
<1>3. a = NoAddr \/ (a \in Peers /\ a = conn[n])
  BY <1>2 DEF h3q_engine_peer_addr
<1>4. conn[n] \notin {"none", "refused"}
  BY DEF SynthConn
<1>5. a = NoAddr \/ (n <= Len(arrived) /\ a = arrived[n])
  BY <1>3, <1>4 DEF QueueInv
<1>6. client' \in [Numbers -> Peers \cup {NoAddr, "none"}]
  BY <1>2, <1>3 DEF QueueInv
<1>7. ASSUME NEW k \in Numbers, client'[k] \notin {"none", NoAddr}
      PROVE  k <= Len(arrived) /\ client'[k] = arrived[k]
  BY <1>2, <1>5, <1>7 DEF QueueInv
<1> QED BY <1>1, <1>6, <1>7 DEF QueueInv
-----------------------------------------------------------------------------
(* The loop.                                                               *)

\* Work that no pass has seen is announced, by a wakeup that is there or about
\* to be sent, or the pass that will see it has begun; likewise the stop.
WakeInv ==
  /\ work \subseteq Workers /\ at \in [Signallers -> {"run", "signal"}] /\ wakeup \in Nat
  /\ \A p \in work :
       \/ at[p] = "signal" \/ wakeup > 0
       \/ loop = "pump" \/ (loop = "service" /\ p \in todo)
  /\ ~thread_running /\ ~active =>
       \/ at["stop"] = "signal" \/ wakeup > 0
       \/ loop \in {"pump", "service", "top", "exit"}

\* Poll's timeout is the one h3q_engine_want computed when the wait began.
ClockInv ==
  /\ timer \in 0..Never /\ waited \in Nat /\ left \in Nat
  /\ loop # "wait" => waited = 0
  /\ loop = "wait" => waited + left = Timeout(timer) * Ms

LoopInv == QueueInv /\ WakeInv /\ ClockInv /\ PumpEmpties

\* The event thread starts with nothing announced and nothing to see.
LEMMA LoopInitInv == LoopInit => LoopInv
<1> SUFFICES ASSUME LoopInit PROVE LoopInv
  OBVIOUS
<1>1. QueueInv
  BY QueueInit DEF LoopInit
<1>2. WakeInv /\ PumpEmpties
  BY DEF LoopInit, WakeInv, PumpEmpties
<1>3. ClockInv
  BY EventLoopAssumption DEF LoopInit, ClockInv, Never
<1> QED BY <1>1, <1>2, <1>3 DEF LoopInv

\* Every step of the loop and of the other threads keeps the datagrams in line.
LEMMA LoopKeepsQueue ==
  ASSUME QueueInv, [LoopNext]_loopVars
  PROVE  QueueInv'
<1>1. CASE UNCHANGED vars
  BY <1>1 DEF QueueInv, vars
<1>2. CASE DatagramArrives
  BY <1>2, ArriveInv DEF DatagramArrives
<1>3. CASE BeginPump
  BY <1>3, PumpInv
<1>4. CASE Pump
  BY <1>4, PumpInv, HandleEventsInv, NewPendingConnInv DEF Pump
<1>5. CASE Spawn
  BY <1>5, SynthConnInv DEF Spawn
<1>9. CASE Calls
  BY <1>9, PumpInv, HandleEventsInv, NewPendingConnInv DEF Calls
<1>10. CASE EndPump
  BY <1>10 DEF EndPump, QueueInv
<1>6. Top => BeginPump \/ UNCHANGED vars
  BY DEF Top
<1>7. DrainWakeup => BeginPump
  BY DEF DrainWakeup
<1>8. \/ UNCHANGED vars \/ DatagramArrives \/ BeginPump \/ Pump \/ EndPump \/ Calls \/ Spawn
  BY <1>6, <1>7 DEF LoopNext, loopVars, Publish, Stop, Signal, Tick, PollReady, PollOther, EndWait,
                    Service, EndPass
<1> QED BY <1>1, <1>2, <1>3, <1>4, <1>5, <1>8, <1>9, <1>10

\* Every step keeps it so that the pump returns only when the queue is empty.
LEMMA LoopKeepsPump ==
  ASSUME PumpEmpties, [LoopNext]_loopVars
  PROVE  PumpEmpties'
<1> USE DEF PumpEmpties
<1>1. CASE UNCHANGED <<loop, pump, pumped, peer_rx>>
  BY <1>1
<1>2. CASE BeginPump \/ loop' # "pump"
  BY <1>2 DEF BeginPump
<1>3. CASE Pump
  <2>1. CASE HandleEvents
    BY <2>1 DEF HandleEvents
  <2>2. CASE EndEvents
    BY <2>2 DEF EndEvents, PumpAgain
  <2>3. CASE NewPendingConn \/ FailEvents
    BY <1>3, <2>3 DEF Pump, NewPendingConn, FailEvents, threadVars
  <2> QED BY <1>3, <2>1, <2>2, <2>3 DEF Pump
<1>4. Top \/ EndWait \/ DrainWakeup => BeginPump \/ loop' # "pump"
  BY DEF Top, EndWait, DrainWakeup
<1>5. EndPump \/ Calls \/ Spawn \/ EndPass \/ (\E p \in Workers, b \in BOOLEAN : Service(p, b)) =>
        loop' # "pump"
  BY DEF EndPump, Calls, Spawn, EndPass, Service, threadVars
<1>6. DatagramArrives \/ Stop \/ Tick \/ UNCHANGED loopVars => UNCHANGED <<loop, pump, pumped, peer_rx>>
  BY DEF DatagramArrives, Arrive, Stop, Tick, loopVars, vars, threadVars
<1>7. (\E p \in Workers : Publish(p)) \/ (\E p \in Signallers : Signal(p)) =>
        UNCHANGED <<loop, pump, pumped, peer_rx>>
  BY DEF Publish, Signal, vars, threadVars
<1> QED BY Zenon, <1>1, <1>2, <1>3, <1>4, <1>5, <1>6, <1>7 DEF LoopNext, PollReady, PollOther

\* Every step keeps work and the stop announced.
LEMMA LoopKeepsWake ==
  ASSUME WakeInv, [LoopNext]_loopVars
  PROVE  WakeInv'
<1> USE DEF WakeInv
<1>1. ASSUME NEW p \in Workers, Publish(p) PROVE WakeInv'
  BY <1>1, EventLoopAssumption DEF Publish, threadVars, Signallers
<1>2. CASE Stop
  BY <1>2 DEF Stop, threadVars, Signallers
<1>3. ASSUME NEW p \in Signallers, Signal(p) PROVE WakeInv'
  <2>1. wakeup' \in Nat /\ wakeup' > 0
    BY <1>3, EventLoopAssumption DEF Signal
  <2> QED BY <1>3, <2>1 DEF Signal, threadVars
<1>4. CASE Top
  BY <1>4 DEF Top, signalVars
<1>5. CASE EndWait
  BY <1>5 DEF EndWait, signalVars
<1>6. CASE DrainWakeup
  <2>1. wakeup' \in Nat
    BY <1>6, EventLoopAssumption DEF DrainWakeup, Drained
  <2> QED BY <1>6, <2>1 DEF DrainWakeup
<1>7. CASE EndPump
  BY <1>7 DEF EndPump, signalVars
<1>8. ASSUME NEW p \in Workers, NEW b \in BOOLEAN, Service(p, b) PROVE WakeInv'
  BY <1>8 DEF Service
<1>9. CASE EndPass
  BY <1>9 DEF EndPass, signalVars
<1>10. CASE UNCHANGED <<loop, todo, active, work, at, wakeup, thread_running>>
  BY <1>10
<1>11. DatagramArrives \/ Tick \/ Pump \/ Calls \/ Spawn \/ UNCHANGED loopVars =>
         UNCHANGED <<loop, todo, active, work, at, wakeup, thread_running>>
  BY DEF DatagramArrives, Tick, Pump, Calls, Spawn, loopVars, threadVars, signalVars
<1> QED BY <1>1, <1>2, <1>3, <1>4, <1>5, <1>6, <1>7, <1>8, <1>9, <1>10, <1>11
        DEF LoopNext, PollReady, PollOther

\* The timeout is at least a millisecond and at most a second, and not past the
\* timer unless it is that millisecond.
LEMMA TimeoutFacts ==
  ASSUME NEW t \in Nat
  PROVE  /\ Timeout(t) \in 1..Second
         /\ Timeout(t) = 1 \/ Timeout(t) * Ms <= t
<1> DEFINE ms == t \div Ms
<1>1. Ms \in Nat \ {0} /\ Second \in Nat \ {0}
  BY EventLoopAssumption
<1>2. ms \in Nat /\ ms * Ms <= t
  BY <1>1
<1> HIDE DEF ms
<1>3. CASE ms < Second
  <2>1. Timeout(t) = IF ms < 1 THEN 1 ELSE ms
    BY <1>3 DEF Timeout, ms
  <2> QED BY <1>1, <1>2, <1>3, <2>1
<1>4. CASE ~(ms < Second)
  <2>1. Timeout(t) = Second
    BY <1>1, <1>4 DEF Timeout, ms
  <2>2. Second * Ms <= ms * Ms
    BY <1>1, <1>2, <1>4
  <2> QED BY <1>1, <1>2, <2>1, <2>2
<1> QED BY <1>3, <1>4

\* Every step keeps poll's timeout the one of OpenSSL's timer.
LEMMA LoopKeepsClock ==
  ASSUME ClockInv, [LoopNext]_loopVars
  PROVE  ClockInv'
<1> USE DEF ClockInv
<1>n. Ms \in Nat /\ Never \in Nat
  BY EventLoopAssumption DEF Never
<1>1. CASE Top
  <2>1. CASE UNCHANGED timeVars /\ loop' # "wait"
    BY <1>1, <2>1 DEF Top, timeVars
  <2>2. CASE /\ loop' = "wait" /\ timer' \in 0..Never
             /\ left' = Timeout(timer') * Ms /\ waited' = waited
    <3>1. timer' \in Nat /\ waited' = 0
      BY <1>1, <1>n, <2>2 DEF Top
    <3>2. left' \in Nat
      <4>1. Timeout(timer') \in Nat
        BY <3>1, TimeoutFacts, EventLoopAssumption
      <4> QED BY <1>n, <2>2, <4>1
    <3> QED BY <2>2, <3>1, <3>2
  <2> QED BY <1>1, <2>1, <2>2 DEF Top
<1>2. CASE Tick
  <2>1. left' = left - 1 /\ waited' = waited + 1 /\ left > 0 /\ UNCHANGED <<loop, timer>>
        /\ loop = "wait"
    BY <1>2 DEF Tick, threadVars
  <2>2. waited' + left' = waited + left /\ waited' \in Nat /\ left' \in Nat
    BY <2>1
  <2> QED BY <2>1, <2>2
<1>3. CASE EndWait
  BY <1>3, <1>n DEF EndWait
<1>4. CASE UNCHANGED timeVars /\ (loop' = loop \/ (loop # "wait" /\ loop' # "wait"))
  BY <1>4 DEF timeVars
<1>5. \/ Top \/ Tick \/ EndWait
      \/ UNCHANGED timeVars /\ (loop' = loop \/ (loop # "wait" /\ loop' # "wait"))
  BY DEF LoopNext, loopVars, Publish, Stop, Signal, DatagramArrives, PollReady, PollOther,
         DrainWakeup, Pump, EndPump, Calls, Spawn, Service, EndPass, threadVars
<1> QED BY <1>1, <1>2, <1>3, <1>4, <1>5

\* The invariant of the event thread: datagrams in line, work announced, poll's
\* timeout that of OpenSSL's timer, the queue empty when the pump returns,
\* whatever the other threads, the peers and OpenSSL do.
THEOREM Invariance == LoopSpec => []LoopInv
<1>1. LoopInv /\ [LoopNext]_loopVars => LoopInv'
  BY LoopKeepsQueue, LoopKeepsWake, LoopKeepsClock, LoopKeepsPump DEF LoopInv
<1> QED BY <1>1, LoopInitInv, PTL DEF LoopSpec

\* The types of the datagram filter's state: datagrams are numbers of arrived
\* ones, and its queue holds less than a batch after the first is handed on.
THEOREM TypeCorrect == LoopSpec => []TypeOK
<1>1. ASSUME NEW s \in Seq(Nat), NEW m \in Nat, m <= MaxDatagrams, Upto(s, m)
      PROVE  s \in Seq(Numbers)
  <2>1. Len(s) \in Nat /\ s = [k \in 1..Len(s) |-> s[k]] /\ \A k \in 1..Len(s) : s[k] \in Nat
    OBVIOUS
  <2>2. \A k \in 1..Len(s) : s[k] \in Numbers
    BY <1>1, <2>1, DatagramAssumption DEF Upto, Numbers
  <2> QED BY <2>1, <2>2
<1>2. ASSUME LoopInv PROVE TypeOK
  <2> USE <1>2 DEF LoopInv, QueueInv
  <2>1. Len(arrived) \in Nat /\ Len(arrived) <= MaxDatagrams
    OBVIOUS
  <2>2. socket \in Seq(Numbers) /\ peer_rx \in Seq(Numbers) /\ delivered \in Seq(Numbers)
    BY <1>1, <2>1 DEF Line
  <2>3. reading \in 0..MaxDatagrams
    BY <2>1, DatagramAssumption
  <2> QED BY <2>2, <2>3 DEF TypeOK
<1> QED BY <1>2, Invariance, PTL

\* A connection, and every request on it, is attributed to the address its own
\* datagram came from (h3q_new_pending_conn_cb, h3_synth_conn).
THEOREM AttributedToSenderHolds == LoopSpec => []AttributedToSender
<1>1. LoopInv => AttributedToSender
  BY DEF LoopInv, QueueInv, AttributedToSender
<1> QED BY <1>1, Invariance, PTL

\* The filter's batches neither duplicate nor reorder datagrams.
THEOREM InOrderHolds == LoopSpec => []InOrder
<1>1. LoopInv => InOrder
  BY LineInOrder DEF LoopInv, QueueInv
<1> QED BY <1>1, Invariance, PTL

\* wait_for_event is never entered with work or a stop that nothing would wake
\* the thread for.
THEOREM SleepsOnlyIdleHolds == LoopSpec => []SleepsOnlyIdle
<1>1. LoopInv => SleepsOnlyIdle
  BY DEF LoopInv, WakeInv, SleepsOnlyIdle
<1> QED BY <1>1, Invariance, PTL

\* h3q_engine_pump returns with the filter's queue empty unless OpenSSL failed,
\* whatever the calls of earlier passes had left in it.
THEOREM PumpEmptiesHolds == LoopSpec => []PumpEmpties
<1>1. LoopInv => PumpEmpties
  BY DEF LoopInv
<1> QED BY <1>1, Invariance, PTL

\* The timeout h3q_engine_want computes lies between a millisecond and a second
\* and, unless it is that millisecond, ends the wait no later than the timer,
\* for every clock rate.
THEOREM TimersKeptHolds == LoopSpec => []TimersKept
<1>1. ASSUME LoopInv, loop = "wait"
      PROVE  /\ waited <= timer \/ waited <= Ms
             /\ waited + left >= Ms /\ waited + left <= Second * Ms
  <2> DEFINE w == Timeout(timer)
  <2>1. /\ timer \in Nat /\ waited \in Nat /\ left \in Nat /\ waited + left = w * Ms
        /\ Ms \in Nat /\ Second \in Nat
    BY <1>1, EventLoopAssumption DEF LoopInv, ClockInv
  <2>2. w \in 1..Second /\ (w = 1 \/ w * Ms <= timer)
    BY <2>1, TimeoutFacts
  <2> HIDE DEF w
  <2>3. w * Ms >= Ms /\ w * Ms <= Second * Ms /\ (w = 1 => w * Ms = Ms)
    BY <2>1, <2>2
  <2> QED BY <2>1, <2>2, <2>3
<1>2. LoopInv => TimersKept
  BY <1>1 DEF TimersKept
<1> QED BY <1>2, Invariance, PTL
=============================================================================
