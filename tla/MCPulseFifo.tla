---------------------------- MODULE MCPulseFifo ----------------------------
(* Model checking of PulseFifo: a ring of Size slots that is filled, overrun and flushed. *)
EXTENDS PulseFifo
=============================================================================
