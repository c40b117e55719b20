--------------------------- MODULE MCAgentServer ---------------------------
EXTENDS AgentServer, TLC

ClientSymmetry == Permutations(Clients)
=============================================================================
