--------------------------- MODULE MCSlowTransfer ---------------------------
(***************************************************************************)
(* ResponseQueue with a history variable: whether the peer has, so far,    *)
(* freed send buffer space again within every stall timeout.               *)
(***************************************************************************)
EXTENDS ResponseQueue

VARIABLE advancing

SlowInit == Init /\ advancing = TRUE

SlowNext == Next /\ advancing' = (advancing /\ peer_age' < StallTimeout)

SlowSpec == SlowInit /\ [][SlowNext]_<<vars, advancing>>

\* H3StreamTimeout is documented never to cut off a slow but advancing
\* transfer: a response that abandon_stalled_responses gives up is one whose
\* peer once freed nothing for the whole timeout, or nghttp3 is dead.
AdvancingNotCutOff == abandoned /\ advancing => ngh3_dead
=============================================================================
