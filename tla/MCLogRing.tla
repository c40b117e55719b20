----------------------------- MODULE MCLogRing -----------------------------
(* A ring of three records (the code allocates at least 500): it wraps,    *)
(* fills up and is lapped within the messages of the bound.                *)
EXTENDS LogRing
=============================================================================
