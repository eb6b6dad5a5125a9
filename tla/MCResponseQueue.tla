------------------------- MODULE MCResponseQueue -------------------------
EXTENDS ResponseQueue
==========================================================================
