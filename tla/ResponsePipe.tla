---------------------------- MODULE ResponsePipe ----------------------------
(***************************************************************************)
(* What the response queue promises: a bounded pipe of bytes.  written     *)
(* bytes went in, taken bytes came out on the event thread's side, in      *)
(* order and never more than Capacity behind.  The producer closes the     *)
(* pipe when the response is complete; either side may cut it at any time. *)
(* The end of the stream is signalled once, on a closed pipe only when it  *)
(* is empty, and nothing comes out after it.                               *)
(***************************************************************************)
EXTENDS Integers

CONSTANT Capacity

VARIABLES written, taken, phase, ended

pipeVars == <<written, taken, phase, ended>>

Init == written = 0 /\ taken = 0 /\ phase = "open" /\ ended = FALSE

Write(n) ==
  /\ phase = "open" /\ written + n - taken <= Capacity
  /\ written' = written + n
  /\ UNCHANGED <<taken, phase, ended>>

\* the last bytes may carry the end of the stream
Take(n) ==
  /\ ~ended /\ taken + n <= written
  /\ taken' = taken + n
  /\ ended' \in BOOLEAN
  /\ ended' => phase = "cut" \/ (phase = "closed" /\ taken' = written)
  /\ UNCHANGED <<written, phase>>

Close ==
  /\ phase = "open" /\ phase' = "closed"
  /\ UNCHANGED <<written, taken, ended>>

Cut ==
  /\ phase' = "cut"
  /\ taken' \in {taken, written}
  /\ UNCHANGED <<written, ended>>

Next ==
  \/ \E n \in 1..Capacity : Write(n)
  \/ \E n \in 0..(written - taken) : Take(n)
  \/ Close \/ Cut

Spec == Init /\ [][Next]_pipeVars
=============================================================================
