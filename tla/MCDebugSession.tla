--------------------------- MODULE MCDebugSession ---------------------------
(* A small debugger session: three rules with a name each and one without. *)
EXTENDS DebugSession

MCRules  == 2 .. 5
MCNameOf == [r \in MCRules |-> 5 - r]
=============================================================================
