---------------------------- MODULE SocketQueue ----------------------------
(***************************************************************************)
(* The socket table of the agent (CMRCSQueue, src_c/Admin/MRCSQueu.cpp).   *)
(*                                                                         *)
(* The listener thread puts every accepted socket into a slot of a fixed   *)
(* array (pushSocket), a worker thread takes the next waiting slot         *)
(* (popSocket), serves it IN PLACE, and gives the slot back                *)
(* (CloseChildSoc).  A slot is therefore occupied from accept to close,    *)
(* and the two cursors m_pFirst and m_pLast walk round an array in which   *)
(* waiting, running and free slots are mixed.                              *)
(*                                                                         *)
(* All three operations hold the mutex m_CSect_Q for the whole of their    *)
(* access to the table, so each is one action here.  The threads that call *)
(* them are in AgentServer; here any thread may call any operation that    *)
(* the calling discipline allows (see Next).                               *)
(***************************************************************************)
EXTENDS Integers, FiniteSets

CONSTANTS
  MaxQueue,   (* m_MaxQueueCount, the number of slots (ulNoMaxQueueing)     *)
  Sockets,    (* descriptors the kernel can return from accept              *)
  NoSocket    (* the value of a slot that never held a socket               *)

ASSUME SocketQueueAssumption ==
  /\ MaxQueue \in Nat \ {0}
  /\ NoSocket \notin Sockets

VARIABLES
  use,          (* m_socInfo[i].use                                         *)
  soc,          (* m_socInfo[i].soc; not cleared when the slot is freed     *)
  m_pFirst,     (* the slot handed out last; -1 before the first popSocket  *)
  m_pLast,      (* where the next search for a free slot starts             *)
  m_QueueCount  (* occupied slots, as counted by push and close             *)

queueVars == <<use, soc, m_pFirst, m_pLast, m_QueueCount>>

Slots == 0 .. MaxQueue - 1

(* The values of m_socInfo[i].use. *)
Free == 0
Waiting == 1
Running == 2

InUse(u)     == {i \in Slots : u[i] # Free}
WaitingSlots == {i \in Slots : use[i] = Waiting}
RunningSlots == {i \in Slots : use[i] = Running}

(* "if (++p == m_MaxQueueCount) p = 0": the cursor after slot i.            *)
(* (An operator whose name adds a suffix to another's, as After_NoWrap does *)
(* to After, is that operator with a slip one could make in such code.  No  *)
(* specification uses it: TLC finds a property violated when it takes the   *)
(* other's place, so the property depends on what it gets wrong.)           *)
After_NoWrap(i) == i + 1
After(i) == IF i + 1 = MaxQueue THEN 0 ELSE i + 1

(* How many increments bring a cursor that stands at p to slot i: popSocket *)
(* increments before it looks (1 .. MaxQueue), pushSocket after             *)
(* (0 .. MaxQueue-1).                                                       *)
StepsTo(p, i)   == IF i > p THEN i - p ELSE i - p + MaxQueue
StepsFrom(p, i) == IF i >= p THEN i - p ELSE i - p + MaxQueue

QueueTypeOK ==
  /\ use \in [Slots -> {Free, Waiting, Running}]
  /\ soc \in [Slots -> Sockets \cup {NoSocket}]
  /\ m_pFirst \in Slots \cup {-1}
  /\ m_pLast \in Slots
  /\ m_QueueCount \in Int

QueueInit ==
  /\ use = [i \in Slots |-> Free]
  /\ soc = [i \in Slots |-> NoSocket]
  /\ m_pFirst = -1
  /\ m_pLast = 0
  /\ m_QueueCount = 0

-----------------------------------------------------------------------------
(* The slot pushSocket selects: the first free one from m_pLast on. *)
PushSlot_Unchecked(i) == i = m_pLast

PushSlot(i) ==
  /\ use[i] = Free
  /\ \A j \in Slots : use[j] = Free => StepsFrom(m_pLast, i) <= StepsFrom(m_pLast, j)

(* pushSocket returning the index i. *)
pushSocket(s, i) ==
  /\ PushSlot(i)
  /\ soc' = [soc EXCEPT ![i] = s]
  /\ use' = [use EXCEPT ![i] = Waiting]
  /\ m_QueueCount' = m_QueueCount + 1
  /\ m_pLast' = After(i)
  /\ UNCHANGED m_pFirst

(* pushSocket returning -1: m_pLast has gone once round and is where it was. *)
TableFull == \A i \in Slots : use[i] # Free

(* The slot popSocket selects: the first waiting one after m_pFirst. *)
PopSlot_FromZero(i) == use[i] = Waiting /\ \A j \in Slots : use[j] = Waiting => i <= j

PopSlot(i) ==
  /\ use[i] = Waiting
  /\ \A j \in Slots : use[j] = Waiting => StepsTo(m_pFirst, i) <= StepsTo(m_pFirst, j)

(* popSocket returning the index i. *)
popSocket_CursorKept(i) ==
  /\ m_QueueCount > 0
  /\ PopSlot(i)
  /\ use' = [use EXCEPT ![i] = Running]
  /\ UNCHANGED <<soc, m_pFirst, m_pLast, m_QueueCount>>

popSocket_NotMarked(i) ==
  /\ m_QueueCount > 0
  /\ PopSlot(i)
  /\ m_pFirst' = i
  /\ UNCHANGED <<use, soc, m_pLast, m_QueueCount>>

popSocket(i) ==
  /\ m_QueueCount > 0
  /\ PopSlot(i)
  /\ use' = [use EXCEPT ![i] = Running]
  /\ m_pFirst' = i
  /\ UNCHANGED <<soc, m_pLast, m_QueueCount>>

(* popSocket returning -1: the count says empty, or the scan came back to  *)
(* the slot it started from.  It never comes back when it started at -1.   *)
PopNothing ==
  \/ m_QueueCount <= 0
  \/ WaitingSlots = {} /\ m_pFirst # -1

(* The locked half of CloseChildSoc; the shutdown and close of the         *)
(* descriptor come before it, outside the lock.                            *)
FreeSlot_NotCounted(i) ==
  /\ use' = [use EXCEPT ![i] = Free]
  /\ UNCHANGED <<soc, m_pFirst, m_pLast, m_QueueCount>>

FreeSlot(i) ==
  /\ use' = [use EXCEPT ![i] = Free]
  /\ m_QueueCount' = m_QueueCount - 1
  /\ UNCHANGED <<soc, m_pFirst, m_pLast>>

-----------------------------------------------------------------------------
(* The table alone, under the discipline its callers keep while the agent  *)
(* is up: the kernel returns a descriptor that no open slot has, and a     *)
(* slot is closed by the one thread that was handed it.                    *)
OpenSockets == {soc[i] : i \in InUse(use)}

Push(s)  == s \notin OpenSockets /\ \E i \in Slots : pushSocket(s, i)
Pop      == \E i \in Slots : popSocket(i)
Close(i) == use[i] = Running /\ FreeSlot(i)

QueueNext ==
  \/ \E s \in Sockets : Push(s)
  \/ Pop
  \/ \E i \in Slots : Close(i)

QueueSpec == QueueInit /\ [][QueueNext]_queueVars

(* Some worker polls popSocket again and again (every idle worker does). *)
FairQueueSpec == QueueSpec /\ WF_queueVars(Pop)

-----------------------------------------------------------------------------
(* m_QueueCount is the number of occupied slots.  popSocket refuses to     *)
(* look at the table when the count is not positive, so a count that       *)
(* drifts below the truth leaves accepted clients waiting for ever         *)
(* (MRCSQueu.cpp:381), and one that drifts above it makes the scan spin.   *)
CountIsExact == m_QueueCount = Cardinality(InUse(use))

(* The do-while of popSocket ends: it starts at -1, a position it never    *)
(* comes back to, only when there is a waiting slot to stop at             *)
(* (MRCSQueu.cpp:386-398).  Otherwise it would spin with m_CSect_Q held    *)
(* and every thread of the agent would stop at its next table operation.   *)
ScanTerminates == m_QueueCount > 0 /\ m_pFirst = -1 => WaitingSlots # {}

(* The cursor never passes a waiting client: whenever popSocket hands out  *)
(* a slot, every other waiting slot gets nearer to m_pFirst.  So a client  *)
(* is overtaken at most MaxQueue - 1 times, although later arrivals can    *)
(* be put in front of it (MRCSQueu.cpp:390-397).                           *)
WaitersAdvance ==
  [][\A i \in Slots :
        use[i] = Waiting /\ use'[i] = Waiting /\ m_pFirst' # m_pFirst =>
          StepsTo(m_pFirst', i) < StepsTo(m_pFirst, i)]_queueVars

(* Every accepted client is handed to a worker (the round robin of         *)
(* popSocket starves no slot, however many clients arrive later).          *)
EveryWaiterServed ==
  \A i \in Slots : use[i] = Waiting ~> use[i] = Running

(* The table implements the room of WaitRoom: waiting and running clients  *)
(* are those of the slots, and a client may still be overtaken as often as *)
(* the cursor has slots to visit before its own.                           *)
SlotOf(s)     == CHOOSE i \in InUse(use) : soc[i] = s
QueuedSockets == {soc[i] : i \in WaitingSlots}

WaitRoomOfTable ==
  INSTANCE WaitRoom WITH
    Capacity <- MaxQueue,
    Clients  <- Sockets,
    turns    <- [s \in QueuedSockets |-> StepsTo(m_pFirst, SlotOf(s)) - 1],
    inside   <- {soc[i] : i \in RunningSlots}

ImplementsWaitRoom == WaitRoomOfTable!RoomSpec
=============================================================================
