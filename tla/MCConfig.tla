------------------------------ MODULE MCConfig ------------------------------
(* Config with each directive tried at and just outside the ends of its range. *)
EXTENDS Config

MCHostPort == <<0, 443>>

MCArguments == [f \in Numeric |-> {-1, 0, 1, Maximum[f], Maximum[f] + 1}]
=============================================================================
