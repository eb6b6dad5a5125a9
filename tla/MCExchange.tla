----------------------------- MODULE MCExchange -----------------------------
(* Exchange on a small instance. *)
EXTENDS Exchange

Answer(status, n) ==
  [status |-> status, table |-> <<"X-Listed", "Connection", "Content-Length">>, clength |-> n]

\* a page of unknown length, one that is empty, one that does not fit, and one
\* without a body
MCAnswers ==
  {[status |-> "200", table |-> <<>>, clength |-> 0], Answer("200", 0),
   Answer("200", MaxOut), Answer("304", 1)}
=============================================================================
