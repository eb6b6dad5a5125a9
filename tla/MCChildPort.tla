----------------------------- MODULE MCChildPort -----------------------------
(* ChildPort on a small instance. *)
EXTENDS ChildPort
==============================================================================
