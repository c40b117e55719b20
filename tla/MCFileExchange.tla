---------------------------- MODULE MCFileExchange ----------------------------
EXTENDS FileExchange, TLC

CONSTANTS c1, c2
MCOps == (c1 :> {"view", "create", "build"}) @@ (c2 :> {"create", "delete", "ping"})
MCReads == (c1 :> {TRUE}) @@ (c2 :> {FALSE})
MCCalls == [c \in Client |-> 1]
===============================================================================
