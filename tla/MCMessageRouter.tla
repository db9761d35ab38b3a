-------------------------- MODULE MCMessageRouter ---------------------------
(* MessageRouter for TLC: MCRouting.cfg names the calls and the events.  No *)
(* symmetry is declared, as the run checks liveness.                       *)
EXTENDS MessageRouter
=============================================================================
