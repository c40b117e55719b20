--------------------------- MODULE MCDBAgentPool ---------------------------
(* Two agents for three threads: all agents are busy while a third thread  *)
(* looks for one, and it gives up after two rounds of sleep.  The run      *)
(* checks liveness, so it uses no symmetry.                                *)
EXTENDS DBAgentPool
=============================================================================
