----------------------------- MODULE AdminGate -----------------------------
(***************************************************************************)
(* What an admin section promises to the command that changes the rules in *)
(* it, without flags, polls or sockets.  Workers run requests; a section   *)
(* is announced and then entered.  A request that was under way when it    *)
(* was announced is over when it is entered, or the workers have been told *)
(* to stop.  New requests are not excluded, but no worker begins a second  *)
(* one before the section is left.  AgentServer implements this.           *)
(***************************************************************************)
EXTENDS FiniteSets

CONSTANT Members   (* the workers *)

VARIABLES
  section,   (* "none", "announced" or "entered"                            *)
  busy,      (* the workers that run a request                              *)
  old,       (* those whose request began before the announcement           *)
  intruded,  (* the workers that have begun a request since then            *)
  stopping   (* the workers have been told to stop                          *)

gateVars == <<section, busy, old, intruded, stopping>>

GateInit ==
  /\ section = "none" /\ stopping = FALSE
  /\ busy = {} /\ old = {} /\ intruded = {}

BeginRequest(w) ==
  /\ w \notin busy
  /\ section # "none" => w \notin intruded
  /\ busy' = busy \cup {w}
  /\ intruded' = IF section = "none" THEN intruded ELSE intruded \cup {w}
  /\ UNCHANGED <<section, old, stopping>>

FinishRequest(w) ==
  /\ w \in busy
  /\ busy' = busy \ {w} /\ old' = old \ {w}
  /\ UNCHANGED <<section, intruded, stopping>>

(* By an administrator, or because a request takes too long. *)
StopWorkers ==
  /\ section # "entered"
  /\ stopping' = TRUE
  /\ UNCHANGED <<section, busy, old, intruded>>

Announce ==
  /\ section = "none"
  /\ section' = "announced"
  /\ old' = busy
  /\ UNCHANGED <<busy, intruded, stopping>>

Enter ==
  /\ section = "announced"
  /\ old = {} \/ stopping
  /\ section' = "entered"
  /\ UNCHANGED <<busy, old, intruded, stopping>>

Leave ==
  /\ section = "entered"
  /\ section' = "none"
  /\ old' = {} /\ intruded' = {}
  /\ UNCHANGED <<busy, stopping>>

(* The process ends, and everything with it. *)
End ==
  /\ section' = "none" /\ stopping' = FALSE
  /\ busy' = {} /\ old' = {} /\ intruded' = {}

GateNext ==
  \/ \E w \in Members : BeginRequest(w) \/ FinishRequest(w)
  \/ StopWorkers \/ Announce \/ Enter \/ Leave \/ End

GateSpec == GateInit /\ [][GateNext]_gateVars
=============================================================================
