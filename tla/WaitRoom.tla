------------------------------ MODULE WaitRoom ------------------------------
(***************************************************************************)
(* What the socket table of the agent promises, without cursors or slots:  *)
(* a room of Capacity places.  A client enters when there is a place,      *)
(* waits, is called in by one worker, and leaves.  The order is not first  *)
(* come first served: turns[c] bounds how often client c may still be      *)
(* overtaken, and every call lowers the bound of everyone still waiting.   *)
(* SocketQueue implements this specification.                              *)
(***************************************************************************)
EXTENDS Integers, FiniteSets

CONSTANTS
  Capacity,   (* places, a positive number *)
  Clients

VARIABLES
  turns,    (* a function from the waiting clients to 0 .. Capacity-1      *)
  inside    (* the clients that are being served                           *)

roomVars == <<turns, inside>>

Queued == DOMAIN turns
Room   == Queued \cup inside

RoomInit == turns = [c \in {} |-> 0] /\ inside = {}

Enter(c) ==
  /\ c \in Clients \ Room
  /\ Cardinality(Room) < Capacity
  /\ \E n \in 0 .. Capacity - 1 :
       turns' = [d \in Queued \cup {c} |-> IF d = c THEN n ELSE turns[d]]
  /\ UNCHANGED inside

Call(c) ==
  /\ c \in Queued
  /\ inside' = inside \cup {c}
  /\ DOMAIN turns' = Queued \ {c}
  /\ turns' \in [Queued \ {c} -> 0 .. Capacity - 1]
  /\ \A d \in Queued \ {c} : turns'[d] < turns[d]

Leave(c) ==
  /\ c \in inside
  /\ inside' = inside \ {c}
  /\ UNCHANGED turns

RoomNext == \E c \in Clients : Enter(c) \/ Call(c) \/ Leave(c)

RoomSpec == RoomInit /\ [][RoomNext]_roomVars
=============================================================================
