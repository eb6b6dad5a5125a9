----------------------------- MODULE MCListener -----------------------------
(* Listener on small instances. *)
EXTENDS Listener
=============================================================================
