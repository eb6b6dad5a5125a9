---------------------------- MODULE DatagramQueue ----------------------------
(***************************************************************************)
(* The filter BIO between OpenSSL's QUIC listener and the UDP socket       *)
(* (quic/detail/h3q_addr.c) and h3q_engine_pump (quic/h3q.c).  The filter  *)
(* takes a batch from the socket, hands it on one datagram at a time and   *)
(* remembers whose datagram OpenSSL is working on, so that a connection    *)
(* created meanwhile can be told its peer's address.                       *)
(*                                                                         *)
(* OpenSSL is external: one SSL_handle_events reads once and processes     *)
(* what it read, which may create a connection.  Its event handling is     *)
(* left implicit, so SSL_accept_connection, SSL_accept_stream, SSL_read_ex,*)
(* SSL_write_ex and SSL_shutdown_ex do the same outside the pump, and are  *)
(* not repeated until the queue is empty.                                  *)
(***************************************************************************)
EXTENDS Integers, Sequences

CONSTANTS
  Peers,        \* source addresses
  NoAddr,       \* AF_UNSPEC
  Batch,        \* messages OpenSSL asks BIO_recvmmsg for
  MaxDatagrams  \* bound: datagrams that arrive

ASSUME DatagramAssumption ==
  NoAddr \notin Peers /\ Batch \in Nat \ {0} /\ MaxDatagrams \in Nat

VARIABLES
  arrived,            \* the source address of each datagram so far
  socket,             \* datagrams in the socket's buffer, by number
  peer_rx,            \* the queue peer_rx_head .. peer_rx_tail
  current_peer_addr,
  reading,            \* the datagram OpenSSL was given in this turn, 0 if none
  delivered,          \* all of them, in order
  conn,               \* for each datagram: "none", "refused" or the address
                      \* recorded for the connection it created
  client,             \* for each: "none", or the client address of that
                      \* connection's requests, NoAddr for 0.0.0.0
  pump,               \* "idle", "events", "process", "tick"
  pumped              \* what h3q_engine_pump is about to return, 0 outside it

vars == <<arrived, socket, peer_rx, current_peer_addr, reading, delivered, conn, client, pump,
          pumped>>

Numbers == 1..MaxDatagrams

TypeOK ==
  /\ arrived \in Seq(Peers) /\ Len(arrived) <= MaxDatagrams
  /\ socket \in Seq(Numbers) /\ peer_rx \in Seq(Numbers) /\ delivered \in Seq(Numbers)
  /\ Len(peer_rx) < Batch
  /\ current_peer_addr \in Peers \cup {NoAddr}
  /\ reading \in 0..MaxDatagrams
  /\ conn \in [Numbers -> Peers \cup {NoAddr, "none", "refused"}]
  /\ client \in [Numbers -> Peers \cup {NoAddr, "none"}]
  /\ pump \in {"idle", "events", "process", "tick"} /\ pumped \in {-1, 0, 1}

Init ==
  /\ arrived = <<>> /\ socket = <<>> /\ peer_rx = <<>> /\ delivered = <<>>
  /\ current_peer_addr = NoAddr /\ reading = 0
  /\ conn = [n \in Numbers |-> "none"] /\ client = [n \in Numbers |-> "none"]
  /\ pump = "idle" /\ pumped = 0

Arrive(p) ==
  /\ Len(arrived) < MaxDatagrams
  /\ arrived' = Append(arrived, p)
  /\ socket' = Append(socket, Len(arrived) + 1)
  /\ UNCHANGED <<peer_rx, current_peer_addr, reading, delivered, conn, client, pump, pumped>>

\* h3q_engine_pump is called
BeginPump ==
  /\ pump = "idle"
  /\ pump' = "events" /\ pumped' = 0
  /\ UNCHANGED <<arrived, socket, peer_rx, current_peer_addr, reading, delivered, conn, client>>
-----------------------------------------------------------------------------
(* h3q_peer_addr_bio_recvmmsg.                                             *)

AddrOf_Last(q) == arrived[q[Len(q)]]

\* the address that came with the head of the queue
AddrOf(q) == arrived[Head(q)]

AfterPop_Kept(q) == q

\* h3q_queue_drop_head
AfterPop(q) == Tail(q)

\* h3q_queue_pop hands out the head of q
Pop(q) ==
  /\ peer_rx' = AfterPop(q)
  /\ reading' = Head(q) /\ delivered' = Append(delivered, Head(q))
  /\ current_peer_addr' = AddrOf(q)

AfterShort_Kept(q) == q

\* drop it, or the queue head never clears and the pump spins
AfterShort(q) == Tail(q)

Nothing == reading' = 0 /\ current_peer_addr' = NoAddr /\ UNCHANGED delivered

\* the queue is not empty: its head, unless OpenSSL's buffer is too short
RecvQueued ==
  /\ peer_rx # <<>>
  /\ Pop(peer_rx) \/ (peer_rx' = AfterShort(peer_rx) /\ Nothing)
  /\ UNCHANGED socket

\* the queue is empty: a batch from the socket, queued and popped, or lost
\* because h3q_queue_fill cannot copy it, or nothing there
RecvBatch ==
  /\ peer_rx = <<>>
  /\ IF socket = <<>> THEN Nothing /\ UNCHANGED <<socket, peer_rx>>
     ELSE \E k \in 1..Batch :
       /\ k <= Len(socket)
       /\ socket' = SubSeq(socket, k + 1, Len(socket))
       /\ Pop(SubSeq(socket, 1, k)) \/ (Nothing /\ UNCHANGED peer_rx)

\* SSL_handle_events reads
HandleEvents ==
  /\ pump = "events" /\ pump' = "process"
  /\ RecvQueued \/ RecvBatch
  /\ UNCHANGED <<arrived, conn, client, pumped>>

\* so does any other call that may do network work
CallTicks ==
  /\ pump = "idle" /\ pump' = "tick"
  /\ RecvQueued \/ RecvBatch
  /\ UNCHANGED <<arrived, conn, client, pumped>>
-----------------------------------------------------------------------------
(* The call goes on, and h3q_new_pending_conn_cb.                          *)

\* the datagram creates a connection: its peer's address is recorded, or the
\* callback cannot copy it and refuses the connection
NewPendingConn ==
  /\ pump \in {"process", "tick"} /\ reading # 0 /\ conn[reading] = "none"
  /\ conn' = [conn EXCEPT ![reading] = current_peer_addr]
     \/ (current_peer_addr # NoAddr /\ conn' = [conn EXCEPT ![reading] = "refused"])
  /\ UNCHANGED <<arrived, socket, peer_rx, current_peer_addr, reading, delivered, client, pump,
                 pumped>>

\* the loop of h3q_engine_pump
PumpAgain == peer_rx # <<>>

\* SSL_handle_events returned 1: once more while the queue is not empty
EndEvents ==
  /\ pump = "process"
  /\ pump' = IF PumpAgain THEN "events" ELSE "idle"
  /\ pumped' = IF PumpAgain THEN 1 ELSE pumped
  /\ reading' = 0
  /\ UNCHANGED <<arrived, socket, peer_rx, current_peer_addr, delivered, conn, client>>

\* the other call returns, whatever is left in the queue
EndTick ==
  /\ pump = "tick"
  /\ pump' = "idle" /\ reading' = 0
  /\ UNCHANGED <<arrived, socket, peer_rx, current_peer_addr, delivered, conn, client, pumped>>

\* SSL_handle_events failed, before or after it read: the pump returns and
\* leaves the queue as it is
FailEvents ==
  /\ pump \in {"events", "process"}
  /\ pump' = "idle" /\ pumped' = -1 /\ reading' = 0
  /\ UNCHANGED <<arrived, socket, peer_rx, current_peer_addr, delivered, conn, client>>

\* h3q_engine_peer_addr
h3q_engine_peer_addr(n) == IF conn[n] \in Peers THEN conn[n] ELSE NoAddr

\* peer_addr_resolve, which may fail on the way to APR
peer_addr_resolve(n) == {h3q_engine_peer_addr(n), NoAddr}

\* h3_synth_conn gives the connection's requests a client address
SynthConn(n) ==
  /\ conn[n] \notin {"none", "refused"} /\ client[n] = "none"
  /\ client' \in {[client EXCEPT ![n] = a] : a \in peer_addr_resolve(n)}
  /\ UNCHANGED <<arrived, socket, peer_rx, current_peer_addr, reading, delivered, conn, pump,
                 pumped>>

Next ==
  \/ (\E p \in Peers : Arrive(p)) \/ BeginPump \/ HandleEvents \/ NewPendingConn
  \/ EndEvents \/ FailEvents \/ CallTicks \/ EndTick
  \/ (\E n \in Numbers : pump = "idle" /\ SynthConn(n))

Spec == Init /\ [][Next]_vars
-----------------------------------------------------------------------------
(* Properties.                                                             *)

\* A connection is attributed to the address its own datagram came from, also
\* when that datagram came in a batch with those of other peers, and its
\* requests are given that address as their client's, or 0.0.0.0.
AttributedToSender ==
  \A n \in Numbers :
    /\ conn[n] \notin {"none", "refused"} => conn[n] = arrived[n]
    /\ client[n] \notin {"none", NoAddr} => client[n] = arrived[n]

\* Batching neither duplicates nor reorders: OpenSSL gets the datagrams in the
\* order they arrived, those in the queue come next and those in the socket
\* after them.
InOrder ==
  LET line == delivered \o peer_rx \o socket
  IN \A j \in 2..Len(line) : line[j - 1] < line[j]
=============================================================================
