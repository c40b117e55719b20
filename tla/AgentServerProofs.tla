------------------------- MODULE AgentServerProofs -------------------------
(***************************************************************************)
(* The socket table is correct for every number of slots and every set of  *)
(* descriptors; and the threads of the agent keep the table, the           *)
(* connections and the admin sections in order, for every number of slots, *)
(* of worker threads and of clients.                                       *)
(***************************************************************************)
EXTENDS AgentServer, FiniteSetTheorems, TLAPS

(***************************************************************************)
(* The socket table by itself (QueueSpec of SocketQueue).                  *)
(***************************************************************************)
(* Before the first popSocket no slot is running. *)
FreshCursor == m_pFirst = -1 => RunningSlots = {}

(* The occupied slots hold different descriptors, because the kernel does  *)
(* not return an open one from accept.                                     *)
SocketsDistinct ==
  \A i, j \in InUse(use) : soc[i] = soc[j] => i = j

SocketsKnown == \A i \in InUse(use) : soc[i] \in Sockets

(* The inductive invariant.  CountIsExact alone is not inductive: a close  *)
(* decrements the count for a slot that must have been occupied.           *)
QueueInv ==
  /\ QueueTypeOK
  /\ CountIsExact
  /\ FreshCursor
  /\ SocketsDistinct
  /\ SocketsKnown

-----------------------------------------------------------------------------
(* The slots are finitely many. *)
LEMMA SlotsFinite == IsFiniteSet(Slots)
<1>1. MaxQueue \in Nat
  BY SocketQueueAssumption
<1> QED BY <1>1, FS_Interval DEF Slots

(* Marking a free slot occupied makes the occupied slots one more. *)
LEMMA OccupyCounts ==
  ASSUME NEW u \in [Slots -> {Free, Waiting, Running}], NEW i \in Slots,
         u[i] = Free, NEW k \in {Waiting, Running}
  PROVE  /\ InUse([u EXCEPT ![i] = k]) = InUse(u) \cup {i}
         /\ Cardinality(InUse([u EXCEPT ![i] = k])) = Cardinality(InUse(u)) + 1
         /\ Cardinality(InUse(u)) \in Nat
<1>1. InUse([u EXCEPT ![i] = k]) = InUse(u) \cup {i}
  BY DEF InUse, Free, Waiting, Running
<1>2. i \notin InUse(u)
  BY DEF InUse
<1>3. IsFiniteSet(InUse(u))
  BY SlotsFinite, FS_Subset DEF InUse
<1> QED BY <1>1, <1>2, <1>3, FS_AddElement, FS_CardinalityType

(* Freeing an occupied slot makes them one less. *)
LEMMA ReleaseCounts ==
  ASSUME NEW u \in [Slots -> {Free, Waiting, Running}], NEW i \in InUse(u)
  PROVE  /\ InUse([u EXCEPT ![i] = Free]) = InUse(u) \ {i}
         /\ Cardinality(InUse([u EXCEPT ![i] = Free])) = Cardinality(InUse(u)) - 1
<1>1. InUse([u EXCEPT ![i] = Free]) = InUse(u) \ {i}
  BY DEF InUse, Free
<1>2. IsFiniteSet(InUse(u))
  BY SlotsFinite, FS_Subset DEF InUse
<1> QED BY <1>1, <1>2, FS_RemoveElement

(* The cursor stays in the table. *)
LEMMA AfterInSlots == \A i \in Slots : After(i) \in Slots
BY SocketQueueAssumption DEF After, Slots

-----------------------------------------------------------------------------
(* Each operation preserves the inductive invariant. *)
LEMMA PushPreserves ==
  ASSUME QueueInv, NEW s \in Sockets, s \notin OpenSockets,
         NEW i \in Slots, pushSocket(s, i)
  PROVE  QueueInv'
<1> USE DEF QueueInv, QueueTypeOK
<1>1. use[i] = Free /\ use' = [use EXCEPT ![i] = Waiting] /\ soc' = [soc EXCEPT ![i] = s]
  BY DEF pushSocket, PushSlot
<1>2. QueueTypeOK'
  BY <1>1, AfterInSlots DEF pushSocket, Waiting, Free
<1>3. InUse(use') = InUse(use) \cup {i} /\ Cardinality(InUse(use')) = Cardinality(InUse(use)) + 1
  BY <1>1, OccupyCounts
<1>4. CountIsExact'
  BY <1>3 DEF CountIsExact, pushSocket
<1>5. FreshCursor'
  BY <1>1 DEF FreshCursor, RunningSlots, pushSocket, Waiting, Running
<1>6. \A j \in InUse(use) : j # i /\ soc'[j] = soc[j] /\ soc'[j] # s
  BY <1>1 DEF InUse, OpenSockets
<1>7. soc'[i] = s
  BY <1>1
<1>8. SocketsDistinct'
  BY <1>3, <1>6, <1>7 DEF SocketsDistinct
<1>9. SocketsKnown'
  BY <1>3, <1>6, <1>7 DEF SocketsKnown
<1> QED BY <1>2, <1>4, <1>5, <1>8, <1>9

LEMMA PopPreserves ==
  ASSUME QueueInv, NEW i \in Slots, popSocket(i)
  PROVE  QueueInv'
<1> USE DEF QueueInv, QueueTypeOK
<1>1. use[i] = Waiting /\ use' = [use EXCEPT ![i] = Running] /\ m_pFirst' = i
  BY DEF popSocket, PopSlot
<1>2. QueueTypeOK'
  BY <1>1 DEF popSocket, Running, Waiting
<1>3. InUse(use') = InUse(use)
  BY <1>1 DEF InUse, Free, Waiting, Running
<1>4. CountIsExact' /\ SocketsDistinct' /\ SocketsKnown'
  BY <1>3 DEF CountIsExact, SocketsDistinct, SocketsKnown, popSocket
<1>5. FreshCursor'
  BY <1>1 DEF FreshCursor, Slots
<1> QED BY <1>2, <1>4, <1>5

LEMMA ClosePreserves ==
  ASSUME QueueInv, NEW i \in Slots, Close(i)
  PROVE  QueueInv'
<1> USE DEF QueueInv, QueueTypeOK
<1>1. use[i] = Running /\ use' = [use EXCEPT ![i] = Free]
  BY DEF Close, FreeSlot
<1>2. QueueTypeOK'
  BY <1>1 DEF Close, FreeSlot, Free
<1>3. i \in InUse(use)
  BY <1>1 DEF InUse, Running, Free
<1>4. InUse(use') = InUse(use) \ {i} /\ Cardinality(InUse(use')) = Cardinality(InUse(use)) - 1
  BY <1>1, <1>3, ReleaseCounts
<1>5. CountIsExact' /\ SocketsDistinct' /\ SocketsKnown'
  BY <1>4 DEF CountIsExact, SocketsDistinct, SocketsKnown, Close, FreeSlot
<1>6. FreshCursor'
  BY <1>1 DEF FreshCursor, RunningSlots, Close, FreeSlot, Free, Running
<1> QED BY <1>2, <1>5, <1>6

LEMMA InitEstablishes == QueueInit => QueueInv
<1> SUFFICES ASSUME QueueInit PROVE QueueInv
  OBVIOUS
<1>1. InUse(use) = {}
  BY DEF QueueInit, InUse
<1>2. CountIsExact
  BY <1>1, FS_EmptySet DEF QueueInit, CountIsExact
<1>3. QueueTypeOK
  BY SocketQueueAssumption DEF QueueInit, QueueTypeOK, Slots, Free, Waiting, Running
<1>4. FreshCursor
  BY DEF QueueInit, FreshCursor, RunningSlots, Free, Running
<1> QED BY <1>1, <1>2, <1>3, <1>4 DEF QueueInv, SocketsDistinct, SocketsKnown

LEMMA StepPreserves == QueueInv /\ [QueueNext]_queueVars => QueueInv'
<1> SUFFICES ASSUME QueueInv, [QueueNext]_queueVars PROVE QueueInv'
  OBVIOUS
<1>1. ASSUME NEW s \in Sockets, Push(s) PROVE QueueInv'
  BY <1>1, PushPreserves DEF Push
<1>2. CASE Pop
  BY <1>2, PopPreserves DEF Pop
<1>3. ASSUME NEW i \in Slots, Close(i) PROVE QueueInv'
  BY <1>3, ClosePreserves
<1>4. CASE UNCHANGED queueVars
  BY <1>4 DEF queueVars, QueueInv, QueueTypeOK, CountIsExact, FreshCursor, RunningSlots,
              SocketsDistinct, SocketsKnown
<1> QED BY <1>1, <1>2, <1>3, <1>4 DEF QueueNext

(* The inductive invariant holds in every reachable state. *)
THEOREM QueueInvariance == QueueSpec => []QueueInv
<1> QED BY InitEstablishes, StepPreserves, PTL DEF QueueSpec

(* The table's variables keep their types. *)
THEOREM QueueTypeCorrect == QueueSpec => []QueueTypeOK
<1>1. QueueInv => QueueTypeOK
  BY DEF QueueInv
<1> QED BY <1>1, QueueInvariance, PTL

(* m_QueueCount never drifts from the number of occupied slots. *)
THEOREM CountCorrect == QueueSpec => []CountIsExact
<1>1. QueueInv => CountIsExact
  BY DEF QueueInv
<1> QED BY <1>1, QueueInvariance, PTL

(* The scan of popSocket never runs for ever with the mutex held. *)
THEOREM ScanEnds == QueueSpec => []ScanTerminates
<1>1. QueueInv => ScanTerminates
  <2> SUFFICES ASSUME QueueInv, m_QueueCount > 0, m_pFirst = -1 PROVE WaitingSlots # {}
    BY DEF ScanTerminates
  <2>1. InUse(use) # {}
    BY FS_EmptySet DEF QueueInv, CountIsExact
  <2>2. PICK i \in Slots : use[i] # Free
    BY <2>1 DEF InUse
  <2>3. use[i] # Running
    BY DEF QueueInv, FreshCursor, RunningSlots
  <2> QED BY <2>2, <2>3 DEF QueueInv, QueueTypeOK, WaitingSlots
<1> QED BY <1>1, QueueInvariance, PTL

-----------------------------------------------------------------------------
(* Moving the cursor to the nearest waiting slot brings it nearer to every *)
(* other waiting slot.                                                     *)
LEMMA CursorAdvances ==
  ASSUME NEW p \in Slots \cup {-1}, NEW i \in Slots, NEW j \in Slots, i # j,
         StepsTo(p, i) <= StepsTo(p, j)
  PROVE  StepsTo(i, j) < StepsTo(p, j)
BY SocketQueueAssumption DEF StepsTo, Slots

LEMMA StepAdvances ==
  ASSUME QueueInv, QueueNext, NEW j \in Slots,
         use[j] = Waiting, use'[j] = Waiting, m_pFirst' # m_pFirst
  PROVE  StepsTo(m_pFirst', j) < StepsTo(m_pFirst, j)
<1>1. PICK i \in Slots : popSocket(i)
  BY DEF QueueNext, Push, Pop, Close, pushSocket, FreeSlot
<1>2. /\ use'[i] = Running
      /\ m_pFirst' = i
      /\ StepsTo(m_pFirst, i) <= StepsTo(m_pFirst, j)
  BY <1>1 DEF popSocket, PopSlot, QueueInv, QueueTypeOK
<1>3. i # j
  BY <1>2 DEF Running, Waiting
<1> QED BY <1>2, <1>3, CursorAdvances DEF QueueInv, QueueTypeOK

(* No waiting client is ever passed by the cursor of popSocket. *)
THEOREM WaitersAlwaysAdvance == QueueSpec => WaitersAdvance
<1> DEFINE Nearer ==
      \A i \in Slots :
        use[i] = Waiting /\ use'[i] = Waiting /\ m_pFirst' # m_pFirst =>
          StepsTo(m_pFirst', i) < StepsTo(m_pFirst, i)
<1>1. QueueInv /\ [QueueNext]_queueVars => [Nearer]_queueVars
  BY StepAdvances
<1>2. QueueSpec => [][Nearer]_queueVars
  BY <1>1, QueueInvariance, PTL DEF QueueSpec
<1> QED BY <1>2 DEF WaitersAdvance

-----------------------------------------------------------------------------
(* The refinement.  Under the invariant a socket determines its slot, so   *)
(* the mapping of SocketQueue is well defined.                             *)
SlotsNamed == \A i \in InUse(use) : SlotOf(soc[i]) = i

LEMMA DistinctNamed == SocketsDistinct => SlotsNamed
<1> SUFFICES ASSUME SocketsDistinct, NEW i \in InUse(use) PROVE SlotOf(soc[i]) = i
  BY DEF SlotsNamed
<1>1. \E k \in InUse(use) : soc[k] = soc[i]
  OBVIOUS
<1>2. SlotOf(soc[i]) \in InUse(use) /\ soc[SlotOf(soc[i])] = soc[i]
  BY <1>1 DEF SlotOf
<1> QED BY <1>2 DEF SocketsDistinct

(* The variables of WaitRoom as the mapping gives them. *)
Turns  == [s \in QueuedSockets |-> StepsTo(m_pFirst, SlotOf(s)) - 1]
Inside == {soc[i] : i \in RunningSlots}

TurnsMatch ==
  \A i \in WaitingSlots :
    /\ Turns[soc[i]] = StepsTo(m_pFirst, i) - 1
    /\ Turns[soc[i]] \in 0 .. MaxQueue - 1

RoomMatches ==
  /\ DOMAIN Turns = QueuedSockets
  /\ QueuedSockets \cup Inside = OpenSockets
  /\ QueuedSockets \cap Inside = {}

LEMMA MappingFacts == QueueInv => TurnsMatch /\ RoomMatches
<1> SUFFICES ASSUME QueueInv PROVE TurnsMatch /\ RoomMatches
  OBVIOUS
<1>1. DOMAIN Turns = QueuedSockets
  BY DEF Turns
<1>2. WaitingSlots \subseteq InUse(use) /\ RunningSlots \subseteq InUse(use)
  BY DEF WaitingSlots, RunningSlots, InUse, Waiting, Running, Free
<1>3. ASSUME NEW i \in WaitingSlots PROVE Turns[soc[i]] = StepsTo(m_pFirst, i) - 1
  BY <1>2, <1>3, DistinctNamed DEF SlotsNamed, Turns, QueuedSockets, QueueInv
<1>4. ASSUME NEW i \in WaitingSlots PROVE StepsTo(m_pFirst, i) - 1 \in 0 .. MaxQueue - 1
  <2>1. i \in Slots /\ m_pFirst \in Slots \cup {-1}
    BY <1>4 DEF WaitingSlots, QueueInv, QueueTypeOK
  <2> QED BY <2>1, SocketQueueAssumption DEF StepsTo, Slots
<1>5. InUse(use) = WaitingSlots \cup RunningSlots
  BY DEF QueueInv, QueueTypeOK, WaitingSlots, RunningSlots, InUse, Waiting, Running, Free
<1>6. QueuedSockets \cup Inside = OpenSockets
  BY <1>5 DEF QueuedSockets, Inside, OpenSockets
<1>7. WaitingSlots \cap RunningSlots = {}
  BY DEF WaitingSlots, RunningSlots, Waiting, Running
<1>8. QueuedSockets \cap Inside = {}
  BY <1>2, <1>7 DEF QueueInv, SocketsDistinct, QueuedSockets, Inside
<1> QED BY <1>1, <1>3, <1>4, <1>6, <1>8 DEF TurnsMatch, RoomMatches

(* While a slot is free, there are fewer clients in the room than places. *)
LEMMA RoomLeft ==
  ASSUME QueueInv, NEW i \in Slots, use[i] = Free
  PROVE  Cardinality(OpenSockets) < MaxQueue /\ IsFiniteSet(OpenSockets)
<1> DEFINE f == [k \in InUse(use) |-> soc[k]]
<1>1. f \in Surjection(InUse(use), OpenSockets)
  BY DEF Surjection, OpenSockets
<1>2. IsFiniteSet(InUse(use)) /\ InUse(use) \in SUBSET Slots /\ InUse(use) # Slots
  BY SlotsFinite, FS_Subset DEF InUse
<1>3. Cardinality(Slots) = MaxQueue
  BY SocketQueueAssumption, FS_Interval DEF Slots
<1>4. Cardinality(InUse(use)) <= MaxQueue /\ Cardinality(InUse(use)) # MaxQueue
  BY <1>2, <1>3, SlotsFinite, FS_Subset
<1>5. IsFiniteSet(OpenSockets) /\ Cardinality(OpenSockets) <= Cardinality(InUse(use))
  BY <1>1, <1>2, FS_Surjection
<1>6. Cardinality(OpenSockets) \in Int /\ Cardinality(InUse(use)) \in Int
  BY <1>2, <1>5, FS_CardinalityType
<1> HIDE DEF f
<1> QED BY <1>4, <1>5, <1>6, SocketQueueAssumption

(* Cardinality as WaitRoom sees it through the instance. *)
LEMMA SameCardinality ==
  ASSUME NEW S
  PROVE  WaitRoomOfTable!Cardinality(S) = Cardinality(S)
BY DEF WaitRoomOfTable!Cardinality, Cardinality

(* Each operation on the table is one on the room. *)
LEMMA PushEnters ==
  ASSUME QueueInv, QueueInv', NEW s \in Sockets, s \notin OpenSockets,
         NEW i \in Slots, pushSocket(s, i)
  PROVE  WaitRoomOfTable!Enter(s)
<1> DEFINE n == StepsTo(m_pFirst, i) - 1
<1>1. /\ use[i] = Free
      /\ use' = [use EXCEPT ![i] = Waiting]
      /\ soc' = [soc EXCEPT ![i] = s]
      /\ m_pFirst' = m_pFirst
  BY DEF pushSocket, PushSlot
<1>2. use \in [Slots -> {Free, Waiting, Running}] /\ soc \in [Slots -> Sockets \cup {NoSocket}]
  BY DEF QueueInv, QueueTypeOK
<1>3. /\ WaitingSlots' = WaitingSlots \cup {i} /\ i \notin WaitingSlots
      /\ RunningSlots' = RunningSlots /\ i \notin RunningSlots
  BY <1>1, <1>2 DEF WaitingSlots, RunningSlots, Free, Waiting, Running
<1>4. \A j \in WaitingSlots \cup RunningSlots : soc'[j] = soc[j]
  BY <1>1, <1>2, <1>3 DEF WaitingSlots, RunningSlots
<1>5. soc'[i] = s
  BY <1>1, <1>2
<1>6. QueuedSockets' = QueuedSockets \cup {s} /\ Inside' = Inside
  BY <1>3, <1>4, <1>5 DEF QueuedSockets, Inside
<1>7. \A j \in WaitingSlots \cup {i} : Turns'[soc'[j]] = StepsTo(m_pFirst, j) - 1
  <2>1. TurnsMatch'
    BY MappingFacts, PTL
  <2> QED BY <1>1, <1>3, <2>1 DEF TurnsMatch, StepsTo
<1>8. n \in 0 .. MaxQueue - 1 /\ Turns'[s] = n
  <2>1. Turns'[s] = n
    BY <1>5, <1>7
  <2>2. m_pFirst \in Slots \cup {-1}
    BY DEF QueueInv, QueueTypeOK
  <2>3. n \in 0 .. MaxQueue - 1
    BY <2>2, SocketQueueAssumption DEF StepsTo, Slots
  <2> QED BY <2>1, <2>3
<1>9. \A d \in QueuedSockets : Turns'[d] = Turns[d]
  <2> SUFFICES ASSUME NEW j \in WaitingSlots PROVE Turns'[soc[j]] = Turns[soc[j]]
    BY DEF QueuedSockets
  <2> QED BY <1>4, <1>7, MappingFacts DEF TurnsMatch
<1>10. Turns' = [d \in QueuedSockets \cup {s} |-> IF d = s THEN n ELSE Turns[d]]
  <2>1. Turns' = [d \in QueuedSockets' |-> Turns'[d]]
    BY DEF Turns
  <2> HIDE DEF n
  <2> QED BY <1>6, <1>8, <1>9, <2>1
<1>11. QueuedSockets \cup Inside = OpenSockets /\ DOMAIN Turns = QueuedSockets
  BY MappingFacts DEF RoomMatches
<1>12. Cardinality(OpenSockets) < MaxQueue
  BY <1>1, RoomLeft
<1> HIDE DEF n
<1> QED BY <1>6, <1>8, <1>10, <1>11, <1>12, SameCardinality
        DEF WaitRoomOfTable!Enter, WaitRoomOfTable!Room, WaitRoomOfTable!Queued, Turns, Inside

LEMMA PopCalls ==
  ASSUME QueueInv, QueueInv', NEW i \in Slots, popSocket(i),
         NEW s \in Sockets, s = soc[i]
  PROVE  WaitRoomOfTable!Call(s)
<1>1. /\ use[i] = Waiting
      /\ use' = [use EXCEPT ![i] = Running]
      /\ soc' = soc
      /\ m_pFirst' = i
      /\ m_pFirst \in Slots \cup {-1}
      /\ \A j \in WaitingSlots : StepsTo(m_pFirst, i) <= StepsTo(m_pFirst, j)
  BY DEF popSocket, PopSlot, WaitingSlots, QueueInv, QueueTypeOK
<1>2. use \in [Slots -> {Free, Waiting, Running}]
  BY DEF QueueInv, QueueTypeOK
<1>3. /\ WaitingSlots' = WaitingSlots \ {i} /\ i \in WaitingSlots
      /\ RunningSlots' = RunningSlots \cup {i}
  BY <1>1, <1>2 DEF WaitingSlots, RunningSlots, Free, Waiting, Running
<1>4. \A j \in WaitingSlots \ {i} : soc[j] # soc[i]
  BY <1>3 DEF QueueInv, SocketsDistinct, WaitingSlots, InUse, Waiting, Free
<1>5. QueuedSockets' = QueuedSockets \ {soc[i]} /\ soc[i] \in QueuedSockets
  BY <1>1, <1>3, <1>4 DEF QueuedSockets
<1>6. Inside' = Inside \cup {soc[i]}
  BY <1>1, <1>3 DEF Inside
<1>7. TurnsMatch /\ TurnsMatch' /\ RoomMatches
  BY MappingFacts, PTL
<1>8. \A d \in QueuedSockets' : Turns'[d] \in 0 .. MaxQueue - 1 /\ Turns'[d] < Turns[d]
  <2> SUFFICES ASSUME NEW j \in WaitingSlots \ {i}
               PROVE  /\ Turns'[soc[j]] \in 0 .. MaxQueue - 1
                      /\ Turns'[soc[j]] < Turns[soc[j]]
    BY <1>1, <1>3 DEF QueuedSockets
  <2>1. Turns'[soc[j]] = StepsTo(i, j) - 1 /\ Turns'[soc[j]] \in 0 .. MaxQueue - 1
    BY <1>1, <1>3, <1>7 DEF TurnsMatch, StepsTo
  <2>2. Turns[soc[j]] = StepsTo(m_pFirst, j) - 1
    BY <1>7 DEF TurnsMatch
  <2>3. j \in Slots
    BY DEF WaitingSlots
  <2>4. StepsTo(i, j) < StepsTo(m_pFirst, j)
    BY <1>1, <2>3, CursorAdvances
  <2>5. StepsTo(i, j) \in Int /\ StepsTo(m_pFirst, j) \in Int
    BY <1>1, <2>3, SocketQueueAssumption DEF StepsTo, Slots
  <2> QED BY <2>1, <2>2, <2>4, <2>5
<1>9. Turns' \in [QueuedSockets' -> 0 .. MaxQueue - 1] /\ DOMAIN Turns' = QueuedSockets'
  <2>1. Turns' = [d \in QueuedSockets' |-> Turns'[d]]
    BY DEF Turns
  <2> QED BY <1>8, <2>1
<1>10. DOMAIN Turns = QueuedSockets
  BY <1>7 DEF RoomMatches
<1> QED BY <1>5, <1>6, <1>8, <1>9, <1>10
        DEF WaitRoomOfTable!Call, WaitRoomOfTable!Queued, Turns, Inside

LEMMA CloseLeaves ==
  ASSUME QueueInv, QueueInv', NEW i \in Slots, Close(i),
         NEW s \in Sockets, s = soc[i]
  PROVE  WaitRoomOfTable!Leave(s)
<1>1. /\ use[i] = Running
      /\ use' = [use EXCEPT ![i] = Free]
      /\ soc' = soc
      /\ m_pFirst' = m_pFirst
  BY DEF Close, FreeSlot
<1>2. use \in [Slots -> {Free, Waiting, Running}]
  BY DEF QueueInv, QueueTypeOK
<1>3. /\ WaitingSlots' = WaitingSlots
      /\ RunningSlots' = RunningSlots \ {i} /\ i \in RunningSlots
  BY <1>1, <1>2 DEF WaitingSlots, RunningSlots, Free, Waiting, Running
<1>4. \A j \in RunningSlots \ {i} : soc[j] # soc[i]
  BY <1>3 DEF QueueInv, SocketsDistinct, RunningSlots, InUse, Running, Free
<1>5. Inside' = Inside \ {soc[i]} /\ soc[i] \in Inside
  BY <1>1, <1>3, <1>4 DEF Inside
<1>6. TurnsMatch /\ TurnsMatch'
  BY MappingFacts, PTL
<1>7. Turns' = Turns
  <2>1. Turns' = [d \in QueuedSockets |-> Turns'[d]] /\ Turns = [d \in QueuedSockets |-> Turns[d]]
    BY <1>1, <1>3 DEF Turns, QueuedSockets
  <2>2. ASSUME NEW j \in WaitingSlots PROVE Turns'[soc[j]] = Turns[soc[j]]
    BY <1>1, <1>3, <1>6, <2>2 DEF TurnsMatch, StepsTo
  <2> QED BY <2>1, <2>2 DEF QueuedSockets
<1> QED BY <1>5, <1>7 DEF WaitRoomOfTable!Leave, Turns, Inside

LEMMA InitOfRoom == QueueInit => WaitRoomOfTable!RoomInit
<1> SUFFICES ASSUME QueueInit PROVE WaitRoomOfTable!RoomInit
  OBVIOUS
<1>1. WaitingSlots = {} /\ RunningSlots = {}
  BY DEF QueueInit, WaitingSlots, RunningSlots, Free, Waiting, Running
<1>2. QueuedSockets = {}
  BY <1>1 DEF QueuedSockets
<1> QED BY <1>1, <1>2 DEF WaitRoomOfTable!RoomInit

LEMMA StepOfRoom ==
  QueueInv /\ QueueInv' /\ [QueueNext]_queueVars
    => [WaitRoomOfTable!RoomNext]_(WaitRoomOfTable!roomVars)
<1> SUFFICES ASSUME QueueInv, QueueInv', [QueueNext]_queueVars
             PROVE  [WaitRoomOfTable!RoomNext]_(WaitRoomOfTable!roomVars)
  OBVIOUS
<1>1. ASSUME NEW s \in Sockets, Push(s) PROVE WaitRoomOfTable!RoomNext
  BY <1>1, PushEnters DEF Push, WaitRoomOfTable!RoomNext
<1>2. ASSUME NEW i \in Slots, popSocket(i) PROVE WaitRoomOfTable!RoomNext
  <2>1. soc[i] \in Sockets
    BY <1>2 DEF popSocket, PopSlot, QueueInv, SocketsKnown, InUse, Waiting, Free
  <2>2. PICK s \in Sockets : s = soc[i]
    BY <2>1
  <2>3. WaitRoomOfTable!Call(s)
    BY <1>2, <2>2, PopCalls
  <2> QED BY <2>3 DEF WaitRoomOfTable!RoomNext
<1>3. ASSUME NEW i \in Slots, Close(i) PROVE WaitRoomOfTable!RoomNext
  <2>1. soc[i] \in Sockets
    BY <1>3 DEF Close, QueueInv, SocketsKnown, InUse, Running, Free
  <2>2. PICK s \in Sockets : s = soc[i]
    BY <2>1
  <2>3. WaitRoomOfTable!Leave(s)
    BY <1>3, <2>2, CloseLeaves
  <2> QED BY <2>3 DEF WaitRoomOfTable!RoomNext
<1>4. CASE UNCHANGED queueVars
  BY <1>4 DEF queueVars, WaitRoomOfTable!roomVars, QueuedSockets, WaitingSlots, RunningSlots,
              SlotOf, InUse, StepsTo
<1> QED BY <1>1, <1>2, <1>3, <1>4 DEF QueueNext, Pop

(* The socket table implements the room with MaxQueue places: the client   *)
(* that popSocket hands out was waiting, and everyone else has one turn    *)
(* less to wait.                                                           *)
THEOREM TableImplementsRoom == QueueSpec => ImplementsWaitRoom
<1> QED BY InitOfRoom, StepOfRoom, QueueInvariance, PTL
        DEF QueueSpec, ImplementsWaitRoom, WaitRoomOfTable!RoomSpec

-----------------------------------------------------------------------------
(***************************************************************************)
(* The table among the threads of the agent (Spec of AgentServer).         *)
(***************************************************************************)
(* Slot i is in the hands of a worker. *)
Owned(i) == \E w \in Workers : m_pChildSoc[w] = i

(* A worker has a slot from popSocket to the end of CloseChildSoc. *)
SlotAtHand ==
  \A w \in Workers : m_pChildSoc[w] # -1 <=> workerPc[w] \in {"top", "gate", "read", "work", "close", "free"}

SlotsApart ==
  \A v, w \in Workers : m_pChildSoc[v] = m_pChildSoc[w] /\ v # w => m_pChildSoc[v] = -1

(* Main is at a slot of the table while it closes one. *)
MainInTable ==
  /\ Serving => rmIdx = 0
  /\ mainPc \in {"rmclose", "rmfree"} => rmIdx \in Slots

(* A slot in a worker's hands does not wait for one.  While main serves it *)
(* is running, and then the running slots are those; later RemoveAllQueue  *)
(* may have freed it under the worker.                                     *)
OwnedRuns ==
  /\ \A w \in Workers : m_pChildSoc[w] # -1 => use[m_pChildSoc[w]] # Waiting
  /\ Serving => RunningSlots = {m_pChildSoc[w] : w \in Workers} \ {-1}
  /\ m_pFirst = -1 => RunningSlots = {}

(* The slots main has freed and a worker is still to free a second time.   *)
FreedTwice == {i \in Slots : use[i] = Free /\ Owned(i)}

(* The count lacks the slots that have been freed twice: of those          *)
(* RemoveAllQueue has passed, the ones that no worker is still to free.    *)
CountLags ==
  /\ \A i \in FreedTwice : i < rmIdx
  /\ Cardinality(InUse(use)) - m_QueueCount + Cardinality(FreedTwice) <= rmIdx
  /\ m_QueueCount <= Cardinality(InUse(use))

(* The slots whose descriptor is open: waiting, or attended to. *)
Live == WaitingSlots \cup {m_pChildSoc[w] : w \in {v \in Workers : Attending(v)}}

(* Different live slots have different clients, whose descriptors are open. *)
StreamsOpen ==
  Serving =>
    /\ \A i \in Live : soc[i] \in Clients /\ ~Closed(soc[i])
    /\ \A i, j \in Live : soc[i] = soc[j] => i = j

(* A worker runs a request with m_bUsing set, and the flag m_AdminRunning  *)
(* is set exactly from StartAdminProcess to EndAdminProcess.               *)
FlagsTell ==
  /\ \A w \in Workers : workerPc[w] = "work" => m_bUsing[w]
  /\ m_AdminRunning <=> adminPc \in {"drain", "section"}

(* An old request is under way; StartAdminProcess has seen its worker idle *)
(* (then it is over) or has given up (then the workers are to stop).       *)
OldRequestsSeen ==
  /\ \A w \in early : workerPc[w] = "work"
  /\ adminPc = "drain" => \A w \in early : w < adminIdx => m_bTerminate
  /\ OldRequestsDrained

(* A worker that began a request in the section does not read again. *)
IntruderStops ==
  \A w \in Workers :
    /\ begun[w] \in {0, 1}
    /\ begun[w] = 1 => m_AdminRunning /\ workerPc[w] # "read"

(* The inductive invariant. *)
ServerInv ==
  /\ TypeOK
  /\ SlotAtHand
  /\ SlotsApart
  /\ MainInTable
  /\ OwnedRuns
  /\ CountLags
  /\ StreamsOpen
  /\ FlagsTell
  /\ OldRequestsSeen
  /\ IntruderStops

-----------------------------------------------------------------------------
(* The steps of the threads and of the clients, before the process ends. *)
Working ==
  \/ \E c \in Clients : ClientStep(c)
  \/ MainStep
  \/ \E w \in Workers : Worker(w)
  \/ AdminStep

LEMMA Sizes ==
  /\ MaxQueue \in Nat \ {0} /\ NoWThreads \in Nat \ {0}
  /\ Slots \subseteq Nat /\ -1 \notin Slots /\ 0 \in Slots
  /\ Workers \subseteq Nat
BY SocketQueueAssumption, AgentServerAssumption DEF Slots, Workers

(* What the operations do to the table. *)
LEMMA TableTypes ==
  ASSUME QueueTypeOK
  PROVE  /\ \A c \in Clients, i \in Slots : pushSocket(c, i) => QueueTypeOK'
         /\ \A i \in Slots : popSocket(i) => QueueTypeOK'
         /\ \A i \in Slots : FreeSlot(i) => QueueTypeOK'
<1> USE DEF QueueTypeOK
<1>1. ASSUME NEW c \in Clients, NEW i \in Slots, pushSocket(c, i) PROVE QueueTypeOK'
  <2>1. After(i) \in Slots
    BY AfterInSlots
  <2> QED BY <1>1, <2>1 DEF pushSocket, Free, Waiting, Running, Clients
<1>2. ASSUME NEW i \in Slots, popSocket(i) PROVE QueueTypeOK'
  BY <1>2 DEF popSocket, Free, Waiting, Running
<1>3. ASSUME NEW i \in Slots, FreeSlot(i) PROVE QueueTypeOK'
  BY <1>3 DEF FreeSlot, Free, Waiting, Running
<1> QED BY <1>1, <1>2, <1>3

(* Every step of the table is one of its operations, on a slot. *)
LEMMA TableSteps ==
  ASSUME ServerInv, Working
  PROVE  \/ UNCHANGED queueVars
         \/ \E c \in Clients : Accept(c) /\ MainStep /\ \E i \in Slots : pushSocket(c, i)
         \/ \E w \in Workers : GetNextRequest(w) /\ Worker(w) /\ \E i \in Slots : popSocket(i)
         \/ RemoveFree /\ MainStep /\ rmIdx \in Slots /\ FreeSlot(rmIdx)
         \/ \E w \in Workers : FreeClientSlot(w) /\ Worker(w) /\ m_pChildSoc[w] \in Slots
                               /\ FreeSlot(m_pChildSoc[w])
<1>1. ASSUME NEW c \in Clients, ClientStep(c) PROVE UNCHANGED queueVars
  BY <1>1 DEF ClientStep
<1>2. CASE AdminStep
  BY <1>2 DEF AdminStep
<1>3. CASE MainStep
  <2>1. CASE CheckStop \/ PollTimeout \/ (\E c \in Clients : Refuse(c)) \/ RemoveCheck \/ RemoveClose
    BY <2>1 DEF CheckStop, PollTimeout, Refuse, RemoveCheck, RemoveClose
  <2>2. ASSUME NEW c \in Clients, Accept(c) PROVE \E i \in Slots : pushSocket(c, i)
    BY <2>2 DEF Accept
  <2>3. ASSUME RemoveFree PROVE rmIdx \in Slots /\ FreeSlot(rmIdx)
    BY <2>3 DEF RemoveFree, ServerInv, MainInTable
  <2> QED BY <1>3, <2>1, <2>2, <2>3 DEF MainStep
<1>4. ASSUME NEW w \in Workers, Worker(w)
      PROVE  \/ UNCHANGED queueVars
             \/ GetNextRequest(w) /\ \E i \in Slots : popSocket(i)
             \/ FreeClientSlot(w) /\ m_pChildSoc[w] \in Slots /\ FreeSlot(m_pChildSoc[w])
  <2>1. CASE GetNextRequest(w)
    BY <2>1 DEF GetNextRequest
  <2>2. CASE FreeClientSlot(w)
    <3>1. m_pChildSoc[w] \in Slots
      BY <2>2 DEF FreeClientSlot, ServerInv, SlotAtHand, TypeOK
    <3> QED BY <2>2, <3>1 DEF FreeClientSlot
  <2>3. CASE CheckFlags(w) \/ BeginLoop(w) \/ Gate(w) \/ Read(w) \/ EndRequest(w) \/ CloseClient(w)
    BY <2>3 DEF CheckFlags, BeginLoop, Gate, Read, EndRequest, CloseClient
  <2> QED BY <1>4, <2>1, <2>2, <2>3 DEF Worker
<1> QED BY <1>1, <1>2, <1>3, <1>4 DEF Working

-----------------------------------------------------------------------------
(* Types. *)
LEMMA TableTypesKept ==
  ASSUME ServerInv, Working PROVE QueueTypeOK'
<1>1. QueueTypeOK
  BY DEF ServerInv, TypeOK
<1>2. CASE UNCHANGED queueVars
  BY <1>1, <1>2 DEF QueueTypeOK, queueVars
<1> QED BY <1>1, <1>2, TableSteps, TableTypes

LEMMA TypesKept ==
  ASSUME ServerInv, Working PROVE TypeOK'
<1> USE Sizes DEF ServerInv, TypeOK
<1>1. QueueTypeOK'
  BY TableTypesKept
<1>2. ASSUME NEW c \in Clients, ClientStep(c) PROVE TypeOK'
  <2>1. peer' \in [Clients -> {"out", "backlog", "open", "gone"}]
        /\ inbox' \in [Clients -> {"empty", "part", "full"}]
    BY <1>2 DEF ClientStep, Connect, Send, HangUp
  <2> QED BY <1>1, <1>2, <2>1 DEF ClientStep, flagVars, mainVars, workerVars, adminVars, histVars
<1>3. CASE MainStep
  <2>1. UNCHANGED <<workerVars, adminVars, histVars>> /\ proc' = proc
    BY <1>3 DEF MainStep, CheckStop, PollTimeout, Accept, Refuse, RemoveCheck, RemoveClose, RemoveFree
  <2>2. m_bStop' \in BOOLEAN /\ m_bTerminate' = m_bTerminate /\ m_AdminRunning' = m_AdminRunning
    BY <1>3 DEF MainStep, CheckStop, PollTimeout, Accept, Refuse, RemoveCheck, RemoveClose, RemoveFree,
                flagVars
  <2>3. mainPc' \in MainPcs /\ rmIdx' \in 0 .. MaxQueue
    BY <1>3 DEF MainStep, CheckStop, PollTimeout, Accept, Refuse, RemoveCheck, RemoveClose, RemoveFree,
                MainPcs, MainInTable, Slots
  <2>4. peer' \in [Clients -> {"out", "backlog", "open", "gone"}]
        /\ inbox' \in [Clients -> {"empty", "part", "full"}]
    BY <1>3 DEF MainStep, CheckStop, PollTimeout, Accept, Refuse, RemoveCheck, RemoveClose, RemoveFree,
                CloseDescriptor, clientVars
  <2> QED BY <1>1, <2>1, <2>2, <2>3, <2>4 DEF workerVars, adminVars, histVars
<1>4. ASSUME NEW w \in Workers, Worker(w) PROVE TypeOK'
  <2>1. UNCHANGED <<flagVars, mainVars, adminVars>> /\ proc' = proc
    BY <1>4 DEF Worker, CheckFlags, GetNextRequest, BeginLoop, Gate, Read, EndRequest, CloseClient,
                FreeClientSlot
  <2>2. workerPc' \in [Workers -> WorkerPcs]
    BY <1>4, ZenonT(30) DEF Worker, CheckFlags, GetNextRequest, BeginLoop, Gate, Read, ReadTimeout, ReadHeader,
                ReadClosed, EndRequest, Answered, HeaderRefused, RequestThrows, CloseClient,
                FreeClientSlot, Goto, WorkerPcs
  <2>3. m_pChildSoc' \in [Workers -> Slots \cup {-1}]
    BY <1>4 DEF Worker, CheckFlags, GetNextRequest, BeginLoop, Gate, Read, EndRequest, CloseClient,
                FreeClientSlot
  <2>4. m_bUsing' \in [Workers -> BOOLEAN]
    BY <1>4 DEF Worker, CheckFlags, GetNextRequest, BeginLoop, Gate, Read, ReadTimeout, ReadHeader,
                ReadClosed, EndRequest, Answered, HeaderRefused, RequestThrows, CloseClient,
                FreeClientSlot, SetUsing
  <2>5. peer' \in [Clients -> {"out", "backlog", "open", "gone"}]
        /\ inbox' \in [Clients -> {"empty", "part", "full"}]
    BY <1>4, ZenonT(30) DEF Worker, CheckFlags, GetNextRequest, BeginLoop, Gate, Read, ReadTimeout, ReadHeader,
                ReadClosed, EndRequest, CloseClient, FreeClientSlot, CloseDescriptor, clientVars
  <2>6. early' \in {early, early \ {w}}
    BY <1>4 DEF Worker, CheckFlags, GetNextRequest, BeginLoop, Gate, Read, EndRequest, CloseClient,
                FreeClientSlot, histVars
  <2>7. begun' \in {begun, [begun EXCEPT ![w] = begun[w] + 1]}
    BY <1>4 DEF Worker, CheckFlags, GetNextRequest, BeginLoop, Gate, Read, ReadTimeout, ReadHeader,
                ReadClosed, EndRequest, CloseClient, FreeClientSlot, histVars
  <2>8. begun' \in [Workers -> Nat]
    BY <2>7
  <2> QED BY <1>1, <2>1, <2>2, <2>3, <2>4, <2>5, <2>6, <2>8 DEF flagVars, mainVars, adminVars
<1>5. CASE AdminStep
  <2>1. UNCHANGED <<proc, mainVars, workerVars, clientVars>>
    BY <1>5 DEF AdminStep
  <2>2. m_bStop' \in BOOLEAN /\ m_bTerminate' \in BOOLEAN /\ m_AdminRunning' \in BOOLEAN
    BY <1>5 DEF AdminStep, NormalTerminate, StartAdminProcess, SeenIdle, SelfTerminate, EnterSection,
                EndAdminProcess, flagVars
  <2>3. adminPc' \in AdminPcs /\ adminIdx' \in 0 .. NoWThreads
    BY <1>5 DEF AdminStep, NormalTerminate, StartAdminProcess, SeenIdle, SelfTerminate, EnterSection,
                EndAdminProcess, AdminPcs
  <2>4. early' \in SUBSET Workers /\ begun' \in [Workers -> Nat]
    BY <1>5 DEF AdminStep, NormalTerminate, StartAdminProcess, SeenIdle, SelfTerminate, EnterSection,
                EndAdminProcess, histVars
  <2> QED BY <1>1, <2>1, <2>2, <2>3, <2>4 DEF mainVars, workerVars, clientVars
<1> QED BY <1>2, <1>3, <1>4, <1>5 DEF Working

-----------------------------------------------------------------------------
(* The admin section.  A worker step leaves the administrator's variables  *)
(* alone, and moves one worker.                                            *)
LEMMA WorkerMoves ==
  ASSUME ServerInv, NEW w \in Workers, Worker(w)
  PROVE  /\ UNCHANGED <<flagVars, mainVars, adminVars, proc>>
         /\ \A v \in Workers : v # w =>
              workerPc'[v] = workerPc[v] /\ m_pChildSoc'[v] = m_pChildSoc[v]
              /\ m_bUsing'[v] = m_bUsing[v] /\ begun'[v] = begun[v]
<1> USE DEF ServerInv, TypeOK, Goto, SetUsing
<1>1. UNCHANGED <<flagVars, mainVars, adminVars, proc>>
  BY DEF Worker, CheckFlags, GetNextRequest, BeginLoop, Gate, Read, EndRequest, CloseClient,
         FreeClientSlot
<1> SUFFICES ASSUME NEW v \in Workers, v # w
             PROVE  /\ workerPc'[v] = workerPc[v] /\ m_pChildSoc'[v] = m_pChildSoc[v]
                    /\ m_bUsing'[v] = m_bUsing[v] /\ begun'[v] = begun[v]
  BY <1>1
<1>2. workerPc'[v] = workerPc[v]
  BY DEF Worker, CheckFlags, GetNextRequest, BeginLoop, Gate, Read, ReadTimeout, ReadHeader,
         ReadClosed, EndRequest, Answered, HeaderRefused, RequestThrows, CloseClient, FreeClientSlot
<1>3. m_pChildSoc'[v] = m_pChildSoc[v]
  BY DEF Worker, CheckFlags, GetNextRequest, BeginLoop, Gate, Read, EndRequest, CloseClient,
         FreeClientSlot
<1>4. m_bUsing'[v] = m_bUsing[v]
  BY DEF Worker, CheckFlags, GetNextRequest, BeginLoop, Gate, Read, ReadTimeout, ReadHeader,
         ReadClosed, EndRequest, Answered, HeaderRefused, RequestThrows, CloseClient, FreeClientSlot
<1>5. begun'[v] = begun[v]
  BY DEF Worker, CheckFlags, GetNextRequest, BeginLoop, Gate, Read, ReadTimeout, ReadHeader,
         ReadClosed, EndRequest, CloseClient, FreeClientSlot, histVars
<1> QED BY <1>2, <1>3, <1>4, <1>5

(* The administrator's part of the invariant. *)
AdminInv == FlagsTell /\ OldRequestsSeen /\ IntruderStops

LEMMA WorkerKeepsAdmin ==
  ASSUME ServerInv, NEW w \in Workers, Worker(w) PROVE AdminInv'
<1> USE DEF ServerInv, TypeOK
<1>1. /\ UNCHANGED <<m_bStop, m_bTerminate, m_AdminRunning, adminPc, adminIdx>>
      /\ \A v \in Workers : v # w =>
            workerPc'[v] = workerPc[v] /\ m_bUsing'[v] = m_bUsing[v] /\ begun'[v] = begun[v]
  BY WorkerMoves DEF flagVars, adminVars
<1>2. workerPc'[w] = "work" => m_bUsing'[w]
  BY DEF Worker, CheckFlags, GetNextRequest, BeginLoop, Gate, Read, ReadTimeout, ReadHeader,
         ReadClosed, EndRequest, Answered, HeaderRefused, RequestThrows, CloseClient, FreeClientSlot,
         Goto, SetUsing
<1>3. FlagsTell'
  BY <1>1, <1>2 DEF FlagsTell
<1>4. early' \in SUBSET early /\ (workerPc[w] = "work" => w \notin early')
  BY DEF Worker, CheckFlags, GetNextRequest, BeginLoop, Gate, Read, EndRequest, CloseClient,
         FreeClientSlot, histVars
<1>5. OldRequestsSeen'
  <2>1. \A v \in early' : v \in early /\ v \in Workers /\ v # w
    BY <1>4 DEF OldRequestsSeen
  <2> QED BY <1>1, <2>1 DEF OldRequestsSeen, OldRequestsDrained
<1>6. begun'[w] \in {0, 1} /\ (begun'[w] = 1 => m_AdminRunning /\ workerPc'[w] # "read")
  <2>1. CASE workerPc[w] = "read"
    <3>1. begun[w] = 0
      BY <2>1 DEF IntruderStops
    <3>2. Read(w)
      BY <2>1 DEF Worker, CheckFlags, GetNextRequest, BeginLoop, Gate, EndRequest, CloseClient,
                  FreeClientSlot
    <3>3. workerPc'[w] # "read"
      BY <3>2 DEF Read, ReadTimeout, ReadHeader, ReadClosed, Goto
    <3>4. begun' = begun \/ (m_AdminRunning /\ begun' = [begun EXCEPT ![w] = begun[w] + 1])
      BY <3>2 DEF Read, ReadTimeout, ReadHeader, ReadClosed
    <3> QED BY <3>1, <3>3, <3>4
  <2>2. CASE workerPc[w] # "read"
    <3>1. begun' = begun
      BY <2>2 DEF Worker, CheckFlags, GetNextRequest, BeginLoop, Gate, Read, EndRequest, CloseClient,
                  FreeClientSlot, histVars
    <3>2. workerPc'[w] = "read" => ~m_AdminRunning
      BY <2>2 DEF Worker, CheckFlags, GetNextRequest, BeginLoop, Gate, Read, EndRequest, Answered,
                  HeaderRefused, RequestThrows, CloseClient, FreeClientSlot, Goto
    <3> QED BY <3>1, <3>2 DEF IntruderStops
  <2> QED BY <2>1, <2>2
<1>7. IntruderStops'
  BY <1>1, <1>6 DEF IntruderStops
<1> QED BY <1>3, <1>5, <1>7 DEF AdminInv

LEMMA AdminKeepsAdmin ==
  ASSUME ServerInv, AdminStep PROVE AdminInv'
<1> USE Sizes DEF ServerInv, TypeOK, AdminInv, FlagsTell, OldRequestsSeen, OldRequestsDrained, IntruderStops
<1>1. UNCHANGED <<workerPc, m_pChildSoc, m_bUsing>>
  BY DEF AdminStep, workerVars
<1>2. CASE NormalTerminate
  BY <1>1, <1>2 DEF NormalTerminate, histVars
<1>3. CASE StartAdminProcess
  BY <1>1, <1>3 DEF StartAdminProcess
<1>4. CASE SeenIdle
  <2>1. /\ adminPc = "drain" /\ adminPc' = "drain" /\ adminIdx' = adminIdx + 1 /\ ~m_bUsing[adminIdx]
        /\ UNCHANGED <<m_bStop, m_bTerminate, m_AdminRunning, early, begun>>
    BY <1>4 DEF SeenIdle, flagVars, histVars
  <2>2. \A w \in early : w # adminIdx
    BY <2>1
  <2>3. \A w \in early : w < adminIdx + 1 => w < adminIdx
    BY <2>2
  <2> QED BY <1>1, <2>1, <2>3
<1>5. CASE SelfTerminate
  BY <1>1, <1>5 DEF SelfTerminate, histVars
<1>6. CASE EnterSection
  <2>1. \A w \in early : w < adminIdx
    BY <1>6 DEF EnterSection, Workers
  <2> QED BY <1>1, <1>6, <2>1 DEF EnterSection, flagVars, histVars
<1>7. CASE EndAdminProcess
  BY <1>1, <1>7 DEF EndAdminProcess
<1> QED BY <1>2, <1>3, <1>4, <1>5, <1>6, <1>7 DEF AdminStep

LEMMA OthersKeepAdmin ==
  ASSUME ServerInv, MainStep \/ \E c \in Clients : ClientStep(c) PROVE AdminInv'
<1>1. UNCHANGED <<workerVars, adminVars, histVars, m_bTerminate, m_AdminRunning>>
  BY DEF MainStep, ClientStep, CheckStop, PollTimeout, Accept, Refuse, RemoveCheck, RemoveClose,
         RemoveFree, flagVars
<1> QED BY <1>1 DEF ServerInv, AdminInv, FlagsTell, OldRequestsSeen, OldRequestsDrained, IntruderStops,
                    workerVars, adminVars, histVars

LEMMA AdminKept == ServerInv /\ Working => AdminInv'
BY WorkerKeepsAdmin, AdminKeepsAdmin, OthersKeepAdmin DEF Working

-----------------------------------------------------------------------------
(* The slots in the workers' hands. *)
HandInv == SlotAtHand /\ SlotsApart /\ MainInTable /\ OwnedRuns
InHands == {m_pChildSoc[w] : w \in Workers} \ {-1}

(* A worker steps without the table: it keeps its slot. *)
LEMMA QuietWorkerKeepsHands ==
  ASSUME ServerInv, NEW w \in Workers, Worker(w), UNCHANGED queueVars, ~FreeClientSlot(w)
  PROVE  HandInv' /\ m_pChildSoc' = m_pChildSoc
<1> USE DEF ServerInv, TypeOK
<1>1. m_pChildSoc' = m_pChildSoc
  <2>1. CASE GetNextRequest(w)
    <3>1. ~\E i \in Slots : popSocket(i)
      BY DEF popSocket, PopSlot, queueVars, QueueTypeOK, Waiting, Running
    <3> QED BY <2>1, <3>1 DEF GetNextRequest
  <2>2. CASE ~GetNextRequest(w)
    BY <2>2 DEF Worker, CheckFlags, BeginLoop, Gate, Read, EndRequest, CloseClient
  <2> QED BY <2>1, <2>2
<1>2. UNCHANGED <<use, soc, m_pFirst, mainPc, rmIdx>>
  BY WorkerMoves DEF queueVars, mainVars
<1>3. workerPc'[w] \in {"top", "gate", "read", "work", "close", "free"}
        <=> workerPc[w] \in {"top", "gate", "read", "work", "close", "free"}
  <2>1. CASE GetNextRequest(w)
    <3>1. ~\E i \in Slots : popSocket(i)
      BY DEF popSocket, PopSlot, queueVars, QueueTypeOK, Waiting, Running
    <3> QED BY <2>1, <3>1 DEF GetNextRequest, Goto
  <2>2. CASE ~GetNextRequest(w)
    BY <2>2 DEF Worker, CheckFlags, BeginLoop, Gate, Read, ReadTimeout, ReadHeader, ReadClosed,
                EndRequest, Answered, HeaderRefused, RequestThrows, CloseClient, Goto
  <2> QED BY <2>1, <2>2
<1>4. SlotAtHand'
  BY <1>1, <1>3, WorkerMoves DEF SlotAtHand
<1>5. SlotsApart' /\ MainInTable' /\ OwnedRuns'
  BY <1>1, <1>2 DEF SlotsApart, MainInTable, OwnedRuns, Serving, RunningSlots
<1> QED BY <1>1, <1>4, <1>5 DEF HandInv

LEMMA PopKeepsHands ==
  ASSUME ServerInv, NEW w \in Workers, GetNextRequest(w), Worker(w),
         NEW i \in Slots, popSocket(i)
  PROVE  /\ HandInv'
         /\ workerPc[w] = "take" /\ m_pChildSoc[w] = -1 /\ ~Owned(i)
         /\ m_pChildSoc' = [m_pChildSoc EXCEPT ![w] = i] /\ workerPc' = [workerPc EXCEPT ![w] = "top"]
<1> USE Sizes DEF ServerInv, TypeOK, QueueTypeOK
<1>1. /\ use[i] = Waiting /\ use' = [use EXCEPT ![i] = Running] /\ m_pFirst' = i
      /\ UNCHANGED <<mainPc, rmIdx>>
  BY WorkerMoves DEF popSocket, PopSlot, mainVars
<1>2. use' # use
  BY <1>1 DEF Waiting, Running
<1>3. \E k \in Slots : /\ popSocket(k) /\ m_pChildSoc' = [m_pChildSoc EXCEPT ![w] = k]
                       /\ workerPc' = [workerPc EXCEPT ![w] = "top"]
  BY <1>2 DEF GetNextRequest, Goto, queueVars
<1>4. m_pChildSoc' = [m_pChildSoc EXCEPT ![w] = i] /\ workerPc' = [workerPc EXCEPT ![w] = "top"]
  BY <1>1, <1>3 DEF popSocket
<1>5. workerPc[w] = "take" /\ m_pChildSoc[w] = -1 /\ ~Owned(i)
  BY <1>1 DEF GetNextRequest, SlotAtHand, Owned, OwnedRuns
<1>6. SlotAtHand'
  BY <1>4 DEF SlotAtHand
<1>7. SlotsApart'
  BY <1>4, <1>5 DEF SlotsApart, Owned
<1>8. MainInTable'
  BY <1>1 DEF MainInTable, Serving
<1>9. OwnedRuns'
  <2>1. \A v \in Workers : m_pChildSoc'[v] # -1 => use'[m_pChildSoc'[v]] # Waiting
    BY <1>1, <1>4, <1>5 DEF OwnedRuns, Owned, Waiting, Running
  <2>2. RunningSlots' = RunningSlots \cup {i}
    BY <1>1 DEF RunningSlots, Waiting, Running
  <2>3. InHands' = InHands \cup {i}
    BY <1>4, <1>5 DEF InHands
  <2> QED BY <1>1, <2>1, <2>2, <2>3 DEF OwnedRuns, Serving, InHands
<1> QED BY <1>4, <1>5, <1>6, <1>7, <1>8, <1>9 DEF HandInv

LEMMA FreeKeepsHands ==
  ASSUME ServerInv, NEW w \in Workers, FreeClientSlot(w), Worker(w)
  PROVE  /\ HandInv'
         /\ workerPc[w] = "free" /\ m_pChildSoc[w] \in Slots
         /\ m_pChildSoc' = [m_pChildSoc EXCEPT ![w] = -1] /\ workerPc' = [workerPc EXCEPT ![w] = "idle"]
<1> USE Sizes DEF ServerInv, TypeOK, QueueTypeOK
<1> DEFINE i == m_pChildSoc[w]
<1>1. workerPc[w] = "free" /\ i \in Slots
  BY DEF FreeClientSlot, SlotAtHand
<1>2. /\ use' = [use EXCEPT ![i] = Free]
      /\ m_pChildSoc' = [m_pChildSoc EXCEPT ![w] = -1] /\ workerPc' = [workerPc EXCEPT ![w] = "idle"]
      /\ UNCHANGED <<m_pFirst, mainPc, rmIdx>>
  BY WorkerMoves DEF FreeClientSlot, FreeSlot, Goto, mainVars
<1>3. SlotAtHand'
  BY <1>2 DEF SlotAtHand
<1>4. SlotsApart'
  BY <1>2 DEF SlotsApart
<1>5. MainInTable'
  BY <1>2 DEF MainInTable, Serving
<1>6. OwnedRuns'
  <2>1. \A v \in Workers : m_pChildSoc'[v] # -1 => use'[m_pChildSoc'[v]] # Waiting
    BY <1>2 DEF OwnedRuns, Waiting, Free
  <2>2. RunningSlots' = RunningSlots \ {i}
    BY <1>1, <1>2 DEF RunningSlots, Free, Running
  <2>3. InHands' = InHands \ {i}
    BY <1>1, <1>2 DEF InHands, SlotsApart
  <2> QED BY <1>2, <2>1, <2>2, <2>3 DEF OwnedRuns, Serving, InHands
<1> QED BY <1>1, <1>2, <1>3, <1>4, <1>5, <1>6 DEF HandInv

LEMMA AcceptKeepsHands ==
  ASSUME ServerInv, NEW c \in Clients, Accept(c), MainStep, NEW i \in Slots, pushSocket(c, i)
  PROVE  HandInv'
<1> USE Sizes DEF ServerInv, TypeOK, QueueTypeOK
<1>1. /\ use[i] = Free /\ use' = [use EXCEPT ![i] = Waiting]
      /\ mainPc = "poll" /\ mainPc' = "check"
      /\ UNCHANGED <<m_pFirst, rmIdx, m_pChildSoc, workerPc>>
  BY DEF Accept, MainStep, pushSocket, PushSlot, workerVars
<1>2. RunningSlots' = RunningSlots
  BY <1>1 DEF RunningSlots, Free, Waiting, Running
<1>3. \A w \in Workers : m_pChildSoc[w] # -1 => m_pChildSoc[w] # i /\ m_pChildSoc[w] \in Slots
  <2>1. InHands = RunningSlots
    BY <1>1 DEF OwnedRuns, Serving, InHands
  <2>2. \A w \in Workers : m_pChildSoc[w] # -1 => m_pChildSoc[w] \in RunningSlots
    BY <2>1 DEF InHands
  <2> QED BY <1>1, <2>2 DEF RunningSlots, Free, Running
<1>4. OwnedRuns'
  BY <1>1, <1>2, <1>3 DEF OwnedRuns, Serving
<1> QED BY <1>1, <1>4 DEF HandInv, SlotAtHand, SlotsApart, MainInTable, Serving

LEMMA RemoveKeepsHands ==
  ASSUME ServerInv, RemoveFree, MainStep PROVE HandInv'
<1> USE Sizes DEF ServerInv, TypeOK, QueueTypeOK
<1>1. /\ use' = [use EXCEPT ![rmIdx] = Free] /\ mainPc' = "remove"
      /\ UNCHANGED <<m_pFirst, m_pChildSoc, workerPc>>
  BY DEF RemoveFree, FreeSlot, MainStep, workerVars
<1>2. RunningSlots' \subseteq RunningSlots
  BY <1>1 DEF RunningSlots, Free, Running
<1>3. \A w \in Workers : m_pChildSoc[w] # -1 => use'[m_pChildSoc[w]] # Waiting
  BY <1>1 DEF OwnedRuns, Free, Waiting
<1>4. OwnedRuns'
  BY <1>1, <1>2, <1>3 DEF OwnedRuns, Serving
<1> QED BY <1>1, <1>4 DEF HandInv, SlotAtHand, SlotsApart, MainInTable, Serving

LEMMA QuietMainKeepsHands ==
  ASSUME ServerInv, MainStep, UNCHANGED queueVars PROVE HandInv'
<1> USE Sizes DEF ServerInv, TypeOK, QueueTypeOK
<1>1. UNCHANGED <<use, m_pFirst, m_pChildSoc, workerPc>>
  BY DEF MainStep, workerVars, queueVars
<1>2. RunningSlots' = RunningSlots
  BY <1>1 DEF RunningSlots
<1>3. MainInTable' /\ (Serving' => Serving)
  BY DEF MainStep, CheckStop, PollTimeout, Accept, Refuse, RemoveCheck, RemoveClose, RemoveFree,
         MainInTable, Serving, Slots
<1> QED BY <1>1, <1>2, <1>3 DEF HandInv, SlotAtHand, SlotsApart, OwnedRuns

LEMMA OthersKeepHands ==
  ASSUME ServerInv, AdminStep \/ \E c \in Clients : ClientStep(c) PROVE HandInv'
<1>1. UNCHANGED <<queueVars, mainVars, workerVars>>
  BY DEF AdminStep, ClientStep
<1> QED BY <1>1 DEF ServerInv, HandInv, SlotAtHand, SlotsApart, MainInTable, OwnedRuns, Serving,
                    RunningSlots, queueVars, mainVars, workerVars

LEMMA HandsKept == ServerInv /\ Working => HandInv'
<1> SUFFICES ASSUME ServerInv, Working PROVE HandInv'
  OBVIOUS
<1>1. CASE UNCHANGED queueVars
  <2>1. \A w \in Workers : ~FreeClientSlot(w)
    BY <1>1 DEF FreeClientSlot, FreeSlot, queueVars, ServerInv, TypeOK, QueueTypeOK
  <2> QED BY <1>1, <2>1, QuietWorkerKeepsHands, QuietMainKeepsHands, OthersKeepHands DEF Working
<1> QED BY <1>1, TableSteps, AcceptKeepsHands, PopKeepsHands, RemoveKeepsHands, FreeKeepsHands

-----------------------------------------------------------------------------
(* The count. *)
LEMMA SlotSetsFinite ==
  ASSUME NEW S, S \subseteq Slots
  PROVE  IsFiniteSet(S) /\ Cardinality(S) \in Nat
BY SlotsFinite, FS_Subset, FS_CardinalityType

LEMMA RemoveOne ==
  ASSUME NEW S, IsFiniteSet(S), NEW x \in S
  PROVE  Cardinality(S \ {x}) = Cardinality(S) - 1
BY FS_RemoveElement

(* A table whose slot i has been freed: one less in use, unless it was     *)
(* free already.                                                           *)
LEMMA FreeCounts ==
  ASSUME NEW u \in [Slots -> {Free, Waiting, Running}], NEW i \in Slots
  PROVE  Cardinality(InUse([u EXCEPT ![i] = Free]))
           = IF u[i] = Free THEN Cardinality(InUse(u)) ELSE Cardinality(InUse(u)) - 1
<1>1. CASE u[i] = Free
  <2>1. [u EXCEPT ![i] = Free] = u
    BY <1>1
  <2> QED BY <1>1, <2>1
<1>2. CASE u[i] # Free
  BY <1>2, ReleaseCounts DEF InUse
<1> QED BY <1>1, <1>2

(* Steps that change neither the table nor the hands. *)
LEMMA QuietKeepsCount ==
  ASSUME ServerInv, UNCHANGED <<use, m_QueueCount, m_pChildSoc>>, rmIdx' \in Nat, rmIdx <= rmIdx'
  PROVE  CountLags'
<1>1. FreedTwice' = FreedTwice
  BY DEF FreedTwice, Owned
<1>2. rmIdx \in Nat /\ \A i \in FreedTwice : i \in Nat /\ i < rmIdx
  BY Sizes DEF ServerInv, TypeOK, CountLags, FreedTwice
<1>3. Cardinality(FreedTwice) \in Nat /\ Cardinality(InUse(use)) \in Nat /\ m_QueueCount \in Int
  BY SlotSetsFinite DEF FreedTwice, InUse, ServerInv, TypeOK, QueueTypeOK
<1> QED BY <1>1, <1>2, <1>3 DEF ServerInv, CountLags

LEMMA PushKeepsCount ==
  ASSUME ServerInv, NEW c \in Clients, Accept(c), MainStep, NEW i \in Slots, pushSocket(c, i)
  PROVE  CountLags'
<1> USE DEF ServerInv, TypeOK, QueueTypeOK
<1>1. /\ use[i] = Free /\ use' = [use EXCEPT ![i] = Waiting] /\ m_QueueCount' = m_QueueCount + 1
      /\ mainPc = "poll" /\ UNCHANGED <<rmIdx, m_pChildSoc>>
  BY DEF Accept, MainStep, pushSocket, PushSlot, workerVars
<1>2. Cardinality(InUse(use')) = Cardinality(InUse(use)) + 1 /\ Cardinality(InUse(use)) \in Nat
  BY <1>1, OccupyCounts
<1>3. FreedTwice' \subseteq FreedTwice
  BY <1>1 DEF FreedTwice, Owned, Free, Waiting
<1>4. Cardinality(FreedTwice') <= Cardinality(FreedTwice)
      /\ Cardinality(FreedTwice') \in Nat /\ Cardinality(FreedTwice) \in Nat
  BY <1>3, SlotSetsFinite, FS_Subset DEF FreedTwice
<1> QED BY <1>1, <1>2, <1>3, <1>4 DEF CountLags

LEMMA PopKeepsCount ==
  ASSUME ServerInv, NEW w \in Workers, GetNextRequest(w), Worker(w),
         NEW i \in Slots, popSocket(i)
  PROVE  CountLags'
<1> USE DEF ServerInv, TypeOK, QueueTypeOK
<1>1. /\ use[i] = Waiting /\ use' = [use EXCEPT ![i] = Running] /\ m_QueueCount' = m_QueueCount
      /\ rmIdx' = rmIdx /\ m_pChildSoc' = [m_pChildSoc EXCEPT ![w] = i] /\ m_pChildSoc[w] = -1
  <2>1. use[i] = Waiting /\ use' = [use EXCEPT ![i] = Running] /\ m_QueueCount' = m_QueueCount
    BY ONLY popSocket(i) DEF popSocket, PopSlot
  <2>2. m_pChildSoc' = [m_pChildSoc EXCEPT ![w] = i] /\ m_pChildSoc[w] = -1
    BY PopKeepsHands
  <2>3. rmIdx' = rmIdx
    BY WorkerMoves DEF mainVars
  <2> QED
    BY ONLY <2>1, <2>2, <2>3
<1>2. InUse(use') = InUse(use)
  BY <1>1 DEF InUse, Free, Waiting, Running
<1>3. FreedTwice' = FreedTwice
  BY <1>1, Sizes DEF FreedTwice, Owned, Free, Waiting, Running
<1> QED BY <1>1, <1>2, <1>3 DEF CountLags

(* RemoveAllQueue frees its slot: a worker that has it will do so again.   *)
LEMMA RemoveKeepsCount ==
  ASSUME ServerInv, RemoveFree, MainStep PROVE CountLags'
<1> USE DEF ServerInv, TypeOK, QueueTypeOK
<1>1. /\ use' = [use EXCEPT ![rmIdx] = Free] /\ m_QueueCount' = m_QueueCount - 1
      /\ rmIdx' = rmIdx + 1 /\ rmIdx \in Slots /\ rmIdx \in Nat /\ m_pChildSoc' = m_pChildSoc
  BY Sizes DEF RemoveFree, FreeSlot, MainStep, workerVars, MainInTable
<1>2. Cardinality(InUse(use'))
        = IF use[rmIdx] = Free THEN Cardinality(InUse(use)) ELSE Cardinality(InUse(use)) - 1
  BY <1>1, FreeCounts
<1>3. Cardinality(InUse(use)) \in Nat /\ IsFiniteSet(FreedTwice) /\ Cardinality(FreedTwice) \in Nat
  BY SlotSetsFinite DEF InUse, FreedTwice
<1>4. rmIdx \notin FreedTwice
  BY <1>1 DEF CountLags
<1>5. CASE use[rmIdx] # Free /\ Owned(rmIdx)
  <2>1. FreedTwice' = FreedTwice \cup {rmIdx}
    BY <1>1, <1>5 DEF FreedTwice, Owned
  <2>2. Cardinality(FreedTwice') = Cardinality(FreedTwice) + 1
    BY <1>3, <1>4, <2>1, FS_AddElement
  <2>3. \A i \in FreedTwice' : i < rmIdx'
    BY <1>1, <2>1, Sizes DEF CountLags, FreedTwice
  <2> QED BY <1>1, <1>2, <1>3, <1>5, <2>2, <2>3 DEF CountLags
<1>6. CASE use[rmIdx] = Free \/ ~Owned(rmIdx)
  <2>1. FreedTwice' = FreedTwice
    BY <1>1, <1>6 DEF FreedTwice, Owned
  <2>2. \A i \in FreedTwice' : i < rmIdx'
    BY <1>1, <2>1, Sizes DEF CountLags, FreedTwice
  <2> QED BY <1>1, <1>2, <1>3, <2>1, <2>2 DEF CountLags
<1> QED BY <1>5, <1>6

(* A worker frees its slot, for the second time if main was there first.   *)
LEMMA FreeKeepsCount ==
  ASSUME ServerInv, NEW w \in Workers, FreeClientSlot(w), Worker(w) PROVE CountLags'
<1> USE DEF ServerInv, TypeOK, QueueTypeOK
<1> DEFINE i == m_pChildSoc[w]
<1>1. /\ use' = [use EXCEPT ![i] = Free] /\ m_QueueCount' = m_QueueCount - 1
      /\ rmIdx' = rmIdx /\ i \in Slots /\ m_pChildSoc' = [m_pChildSoc EXCEPT ![w] = -1]
  BY FreeKeepsHands, WorkerMoves DEF FreeClientSlot, FreeSlot, mainVars
<1>2. Cardinality(InUse(use')) = IF use[i] = Free THEN Cardinality(InUse(use)) ELSE Cardinality(InUse(use)) - 1
  BY <1>1, FreeCounts
<1>3. Cardinality(InUse(use)) \in Nat /\ IsFiniteSet(FreedTwice) /\ Cardinality(FreedTwice) \in Nat
  BY SlotSetsFinite DEF InUse, FreedTwice
<1>4. FreedTwice' = FreedTwice \ {i}
  <2>1. \A v \in Workers : v # w => m_pChildSoc[v] # i
    BY <1>1, Sizes DEF SlotsApart
  <2>2. \A k \in Slots : (\E v \in Workers : m_pChildSoc'[v] = k) <=> (\E v \in Workers : m_pChildSoc[v] = k) /\ k # i
    <3> SUFFICES ASSUME NEW k \in Slots
                 PROVE  (\E v \in Workers : m_pChildSoc'[v] = k)
                          <=> (\E v \in Workers : m_pChildSoc[v] = k) /\ k # i
      OBVIOUS
    <3>1. k # -1
      BY Sizes
    <3>2. m_pChildSoc'[w] = -1 /\ \A v \in Workers : v # w => m_pChildSoc'[v] = m_pChildSoc[v]
      BY <1>1
    <3> QED BY <2>1, <3>1, <3>2
  <2>3. \A k \in Slots : k # i => use'[k] = use[k]
    BY <1>1
  <2> QED BY <1>1, <2>2, <2>3 DEF FreedTwice, Owned
<1>5. CASE use[i] = Free
  <2>1. i \in FreedTwice
    BY <1>1, <1>5 DEF FreedTwice, Owned
  <2>2. Cardinality(FreedTwice') = Cardinality(FreedTwice) - 1
    <3>1. Cardinality(FreedTwice \ {i}) = Cardinality(FreedTwice) - 1
      BY <1>3, <2>1, RemoveOne
    <3> QED BY <1>4, <3>1
  <2>3. Cardinality(FreedTwice) > 0
    BY <1>3, <2>1, FS_EmptySet
  <2> QED BY <1>1, <1>2, <1>3, <1>4, <1>5, <2>2, <2>3 DEF CountLags
<1>6. CASE use[i] # Free
  <2>1. FreedTwice' = FreedTwice
    BY <1>4, <1>6 DEF FreedTwice
  <2> QED BY <1>1, <1>2, <1>3, <1>6, <2>1 DEF CountLags
<1> QED BY <1>5, <1>6

LEMMA CountKept == ServerInv /\ Working => CountLags'
<1> SUFFICES ASSUME ServerInv, Working PROVE CountLags'
  OBVIOUS
<1>1. CASE UNCHANGED queueVars
  <2>1. rmIdx \in Nat
    BY DEF ServerInv, TypeOK
  <2>2. ASSUME NEW w \in Workers, Worker(w) PROVE m_pChildSoc' = m_pChildSoc /\ rmIdx' = rmIdx
    <3>1. ~FreeClientSlot(w)
      BY <1>1 DEF FreeClientSlot, FreeSlot, queueVars, ServerInv, TypeOK, QueueTypeOK
    <3> QED BY <1>1, <2>2, <3>1, QuietWorkerKeepsHands, WorkerMoves DEF mainVars
  <2>3. ASSUME MainStep PROVE m_pChildSoc' = m_pChildSoc /\ rmIdx' \in {rmIdx, rmIdx + 1}
    BY <2>3 DEF MainStep, CheckStop, PollTimeout, Accept, Refuse, RemoveCheck, RemoveClose, RemoveFree,
                workerVars
  <2>4. AdminStep \/ (\E c \in Clients : ClientStep(c)) => UNCHANGED <<m_pChildSoc, rmIdx>>
    BY DEF AdminStep, ClientStep, workerVars, mainVars
  <2>5. m_pChildSoc' = m_pChildSoc /\ rmIdx' \in {rmIdx, rmIdx + 1}
    BY <2>2, <2>3, <2>4 DEF Working
  <2>6. UNCHANGED <<use, m_QueueCount>>
    BY <1>1 DEF queueVars
  <2>7. rmIdx' \in Nat /\ rmIdx <= rmIdx'
    BY <2>1, <2>5
  <2> QED BY <2>5, <2>6, <2>7, QuietKeepsCount
<1> QED BY <1>1, TableSteps, PushKeepsCount, PopKeepsCount, RemoveKeepsCount, FreeKeepsCount

-----------------------------------------------------------------------------
(* The connections.  When no slot becomes live and no open descriptor of a *)
(* live slot is closed, the streams stay apart.                            *)
LEMMA StreamsShrink ==
  ASSUME StreamsOpen, Serving' => Serving, Live' \subseteq Live,
         \A i \in Live' : soc'[i] = soc[i] /\ (~Closed(soc[i]) => peer'[soc[i]] \notin {"out", "backlog"})
  PROVE  StreamsOpen'
<1> SUFFICES ASSUME Serving'
             PROVE  /\ \A i \in Live' : soc'[i] \in Clients /\ peer'[soc'[i]] \notin {"out", "backlog"}
                    /\ \A i, j \in Live' : soc'[i] = soc'[j] => i = j
  BY DEF StreamsOpen, Closed, Clients
<1>1. /\ \A i \in Live : soc[i] \in Clients /\ ~Closed(soc[i])
      /\ \A i, j \in Live : soc[i] = soc[j] => i = j
  BY DEF StreamsOpen
<1> QED BY <1>1

LEMMA AttendedIsLive ==
  ASSUME ServerInv, NEW w \in Workers, Attending(w)
  PROVE  m_pChildSoc[w] \in Live /\ m_pChildSoc[w] \in Slots /\ m_pChildSoc[w] \notin WaitingSlots
BY DEF Live, Attending, ServerInv, TypeOK, SlotAtHand, OwnedRuns, WaitingSlots

LEMMA AcceptKeepsStreams ==
  ASSUME ServerInv, NEW c \in Clients, Accept(c), MainStep, NEW i \in Slots, pushSocket(c, i)
  PROVE  StreamsOpen'
<1> USE Sizes DEF ServerInv, TypeOK, QueueTypeOK
<1>1. /\ use[i] = Free /\ use' = [use EXCEPT ![i] = Waiting] /\ soc' = [soc EXCEPT ![i] = c]
      /\ mainPc = "poll" /\ peer[c] = "backlog" /\ peer' = [peer EXCEPT ![c] = "open"]
      /\ UNCHANGED <<m_pChildSoc, workerPc>>
  BY DEF Accept, MainStep, pushSocket, PushSlot, workerVars
<1>2. WaitingSlots' = WaitingSlots \cup {i}
  BY <1>1 DEF WaitingSlots, Free, Waiting
<1>3. Live' = Live \cup {i}
  <2>1. {v \in Workers : Attending(v)}' = {v \in Workers : Attending(v)}
    BY <1>1 DEF Attending
  <2> QED BY <1>1, <1>2, <2>1 DEF Live
<1>4. i \notin Live
  <2>1. i \notin WaitingSlots
    BY <1>1 DEF WaitingSlots, Free, Waiting
  <2>2. InHands = RunningSlots /\ i \notin RunningSlots
    BY <1>1 DEF OwnedRuns, Serving, InHands, RunningSlots, Free, Running
  <2> QED BY <2>1, <2>2, AttendedIsLive DEF Live, InHands
<1>5. /\ \A k \in Live : soc[k] \in Clients /\ ~Closed(soc[k])
      /\ \A k, l \in Live : soc[k] = soc[l] => k = l
  BY <1>1 DEF StreamsOpen, Serving
<1>6. \A k \in Live : k \in Slots
  BY AttendedIsLive DEF Live, WaitingSlots
<1>7. \A k \in Live : soc'[k] = soc[k] /\ soc[k] # c /\ peer'[soc[k]] = peer[soc[k]]
  BY <1>1, <1>4, <1>5, <1>6 DEF Closed
<1>8. soc'[i] = c /\ peer'[c] = "open"
  BY <1>1
<1>9. \A k \in Live' : soc'[k] \in Clients /\ peer'[soc'[k]] \notin {"out", "backlog"}
  BY <1>3, <1>5, <1>7, <1>8 DEF Closed
<1>10. \A k, l \in Live' : soc'[k] = soc'[l] => k = l
  BY <1>3, <1>5, <1>7, <1>8
<1> QED BY <1>9, <1>10 DEF StreamsOpen, Closed, Clients

LEMMA WorkerKeepsStreams ==
  ASSUME ServerInv, NEW w \in Workers, Worker(w) PROVE StreamsOpen'
<1> USE Sizes DEF ServerInv, TypeOK, QueueTypeOK
<1>1. /\ mainPc' = mainPc
      /\ \A v \in Workers : v # w => workerPc'[v] = workerPc[v] /\ m_pChildSoc'[v] = m_pChildSoc[v]
  BY WorkerMoves DEF mainVars
<1>2. Serving' => Serving
  BY <1>1 DEF Serving
<1>3. soc' = soc
  BY DEF Worker, CheckFlags, GetNextRequest, BeginLoop, Gate, Read, EndRequest, CloseClient,
         FreeClientSlot, FreeSlot, popSocket, queueVars
<1>4. ASSUME NEW i \in Slots, GetNextRequest(w), popSocket(i) PROVE StreamsOpen'
  <2>1. use[i] = Waiting /\ use' = [use EXCEPT ![i] = Running] /\ peer' = peer
    BY <1>4 DEF popSocket, PopSlot, GetNextRequest, clientVars
  <2>2. m_pChildSoc'[w] = i /\ i \in WaitingSlots
    BY <1>4, <2>1, PopKeepsHands DEF WaitingSlots
  <2>3. WaitingSlots' \subseteq WaitingSlots
    BY <2>1 DEF WaitingSlots, Waiting, Running
  <2>4. Live' \subseteq Live
    <3>1. \A v \in Workers : v # w /\ Attending(v)' => Attending(v) /\ m_pChildSoc'[v] = m_pChildSoc[v]
      BY <1>1 DEF Attending
    <3>2. \A v \in Workers : Attending(v)' => m_pChildSoc'[v] \in Live
      BY <2>2, <3>1 DEF Live
    <3> QED BY <2>3, <3>2 DEF Live
  <2> QED BY <1>2, <1>3, <2>1, <2>4, StreamsShrink DEF Closed
<1>5. CASE FreeClientSlot(w)
  <2>1. m_pChildSoc[w] \in Slots /\ workerPc'[w] = "idle" /\ workerPc[w] = "free"
    BY <1>5, FreeKeepsHands
  <2>2. use' = [use EXCEPT ![m_pChildSoc[w]] = Free] /\ peer' = peer
    BY <1>5 DEF FreeClientSlot, FreeSlot, clientVars
  <2>3. WaitingSlots' \subseteq WaitingSlots
    BY <2>1, <2>2 DEF WaitingSlots, Free, Waiting
  <2>4. Live' \subseteq Live
    BY <1>1, <2>1, <2>3 DEF Live, Attending
  <2> QED BY <1>2, <1>3, <2>2, <2>4, StreamsShrink DEF Closed
<1>6. CASE CloseClient(w)
  <2>1. /\ workerPc[w] = "close" /\ workerPc'[w] = "free" /\ use' = use /\ m_pChildSoc' = m_pChildSoc
        /\ \A c \in Clients : c # Client(w) => peer'[c] = peer[c]
    BY <1>6 DEF CloseClient, CloseDescriptor, Goto, queueVars
  <2>2. Attending(w) /\ m_pChildSoc[w] \in Live /\ m_pChildSoc[w] \notin WaitingSlots
    BY <2>1, AttendedIsLive DEF Attending
  <2>3. Live' \subseteq Live
    BY <1>1, <2>1 DEF Live, Attending, WaitingSlots
  <2>4. \A i \in Live' : i # m_pChildSoc[w]
    <3>1. \A v \in Workers : Attending(v)' => v # w /\ m_pChildSoc[v] # m_pChildSoc[w]
      BY <2>1, <2>2, AttendedIsLive DEF Attending, SlotsApart
    <3>2. WaitingSlots' = WaitingSlots
      BY <2>1 DEF WaitingSlots
    <3> QED BY <2>1, <2>2, <3>1, <3>2 DEF Live
  <2>5. SUFFICES ASSUME Serving PROVE StreamsOpen'
    BY <1>2 DEF StreamsOpen
  <2>6. \A i \in Live' : soc[i] \in Clients /\ soc[i] # Client(w)
    BY <2>2, <2>3, <2>4, <2>5 DEF StreamsOpen, Client
  <2> QED BY <1>2, <1>3, <2>1, <2>3, <2>6, StreamsShrink DEF Closed
<1>7. CASE UNCHANGED queueVars /\ ~FreeClientSlot(w) /\ ~CloseClient(w)
  <2>1. m_pChildSoc' = m_pChildSoc /\ use' = use
    BY <1>7, QuietWorkerKeepsHands DEF queueVars
  <2>2. peer' = peer
    BY <1>7 DEF Worker, CheckFlags, GetNextRequest, BeginLoop, Gate, Read, EndRequest, clientVars
  <2>3. workerPc[w] \in {"idle", "take"} => workerPc'[w] \in {"idle", "take", "done"}
    <3>1. ~\E i \in Slots : popSocket(i)
      BY <1>7 DEF popSocket, PopSlot, queueVars, Waiting, Running
    <3> QED BY <1>7, <3>1 DEF Worker, CheckFlags, GetNextRequest, BeginLoop, Gate, Read, EndRequest, Goto
  <2>4. workerPc[w] \in {"free", "done"} => FALSE
    BY <1>7 DEF Worker, CheckFlags, GetNextRequest, BeginLoop, Gate, Read, EndRequest
  <2>5. Live' \subseteq Live
    <3>1. \A v \in Workers : Attending(v)' => Attending(v)
      BY <1>1, <2>3, <2>4 DEF Attending, WorkerPcs
    <3>2. WaitingSlots' = WaitingSlots
      BY <2>1 DEF WaitingSlots
    <3> QED BY <2>1, <3>1, <3>2 DEF Live
  <2> QED BY <1>2, <1>3, <2>2, <2>5, StreamsShrink DEF Closed
<1>8. UNCHANGED queueVars \/ FreeClientSlot(w) \/ (GetNextRequest(w) /\ \E i \in Slots : popSocket(i))
  BY DEF Worker, CheckFlags, GetNextRequest, BeginLoop, Gate, Read, EndRequest, CloseClient
<1> QED BY <1>4, <1>5, <1>6, <1>7, <1>8

LEMMA OthersKeepStreams ==
  ASSUME ServerInv, \/ AdminStep
                    \/ \E c \in Clients : ClientStep(c)
                    \/ MainStep /\ ~\E c \in Clients : Accept(c)
  PROVE  StreamsOpen'
<1> USE DEF ServerInv, TypeOK
<1>1. CASE Serving'
  <2>1. Serving /\ UNCHANGED <<use, soc, m_pChildSoc, workerPc>>
    BY <1>1 DEF AdminStep, ClientStep, MainStep, CheckStop, PollTimeout, Refuse, RemoveCheck, RemoveClose,
                RemoveFree, queueVars, workerVars, mainVars, Serving
  <2>2. \A c \in Clients : ~Closed(c) => peer'[c] \notin {"out", "backlog"}
    BY <1>1 DEF AdminStep, ClientStep, Connect, Send, HangUp, MainStep, CheckStop, PollTimeout, Refuse,
                RemoveCheck, RemoveClose, RemoveFree, clientVars, Serving, Closed
  <2>3. Live' = Live
    BY <2>1 DEF Live, WaitingSlots, Attending
  <2>4. \A i \in Live : soc[i] \in Clients
    BY <2>1 DEF StreamsOpen
  <2> QED BY <2>1, <2>2, <2>3, <2>4, StreamsShrink
<1>2. CASE ~Serving'
  BY <1>2 DEF StreamsOpen
<1> QED BY <1>1, <1>2

LEMMA StreamsKept == ServerInv /\ Working => StreamsOpen'
<1> SUFFICES ASSUME ServerInv, Working PROVE StreamsOpen'
  OBVIOUS
<1>1. ASSUME NEW c \in Clients, Accept(c), MainStep PROVE StreamsOpen'
  BY <1>1, AcceptKeepsStreams DEF Accept
<1> QED BY <1>1, WorkerKeepsStreams, OthersKeepStreams DEF Working

-----------------------------------------------------------------------------
(* The agent when it starts, and what the end of the process leaves.       *)
Fresh ==
  /\ QueueInit
  /\ m_bStop = FALSE /\ m_bTerminate = FALSE /\ m_AdminRunning = FALSE
  /\ mainPc = "check" /\ rmIdx = 0
  /\ workerPc = [w \in Workers |-> "idle"]
  /\ m_pChildSoc = [w \in Workers |-> -1]
  /\ m_bUsing = [w \in Workers |-> FALSE]
  /\ adminPc = "ready" /\ adminIdx = 0
  /\ peer = [c \in Clients |-> "out"] /\ inbox = [c \in Clients |-> "empty"]
  /\ early = {} /\ begun = [w \in Workers |-> 0]

LEMMA FreshHolds == Fresh /\ proc \in {"up", "exited", "killed"} => ServerInv
<1> SUFFICES ASSUME Fresh, proc \in {"up", "exited", "killed"} PROVE ServerInv
  OBVIOUS
<1> USE Sizes DEF Fresh
<1>1. QueueInv
  BY InitEstablishes
<1>2. TypeOK
  <2>1. QueueTypeOK
    BY <1>1 DEF QueueInv
  <2>2. mainPc \in MainPcs /\ rmIdx \in 0 .. MaxQueue /\ adminPc \in AdminPcs /\ adminIdx \in 0 .. NoWThreads
    BY DEF MainPcs, AdminPcs
  <2>3. /\ workerPc \in [Workers -> WorkerPcs] /\ m_pChildSoc \in [Workers -> Slots \cup {-1}]
        /\ m_bUsing \in [Workers -> BOOLEAN] /\ begun \in [Workers -> Nat] /\ early \in SUBSET Workers
    BY DEF WorkerPcs
  <2>4. /\ peer \in [Clients -> {"out", "backlog", "open", "gone"}]
        /\ inbox \in [Clients -> {"empty", "part", "full"}]
    OBVIOUS
  <2>5. m_bStop \in BOOLEAN /\ m_bTerminate \in BOOLEAN /\ m_AdminRunning \in BOOLEAN
    OBVIOUS
  <2> QED BY <2>1, <2>2, <2>3, <2>4, <2>5 DEF TypeOK
<1>3. RunningSlots = {} /\ WaitingSlots = {} /\ InUse(use) = {}
  BY DEF QueueInit, RunningSlots, WaitingSlots, InUse, Free, Running, Waiting
<1>4. \A w \in Workers : m_pChildSoc[w] = -1 /\ ~Attending(w)
  BY DEF Attending
<1>5. SlotAtHand /\ SlotsApart /\ MainInTable
  BY DEF SlotAtHand, SlotsApart, MainInTable
<1>6. OwnedRuns
  <2>1. {m_pChildSoc[w] : w \in Workers} \ {-1} = {}
    BY <1>4
  <2> QED BY <1>3, <1>4, <2>1 DEF OwnedRuns
<1>7. CountLags
  <2>1. FreedTwice = {}
    BY <1>4 DEF FreedTwice, Owned
  <2>2. Cardinality(FreedTwice) = 0 /\ Cardinality(InUse(use)) = 0
    BY <1>3, <2>1, FS_EmptySet
  <2> QED BY <2>1, <2>2 DEF CountLags, QueueInit
<1>8. StreamsOpen
  <2>1. Live = {}
    BY <1>3, <1>4 DEF Live
  <2> QED BY <2>1 DEF StreamsOpen
<1>9. FlagsTell /\ OldRequestsSeen /\ IntruderStops
  BY DEF FlagsTell, OldRequestsSeen, OldRequestsDrained, IntruderStops
<1> QED BY <1>2, <1>5, <1>6, <1>7, <1>8, <1>9 DEF ServerInv

LEMMA ServerInitEstablishes == Init => ServerInv
BY FreshHolds DEF Init, Fresh

LEMMA ServerStepPreserves == ServerInv /\ [Next]_vars => ServerInv'
<1> SUFFICES ASSUME ServerInv, [Next]_vars PROVE ServerInv'
  OBVIOUS
<1>1. CASE Working
  BY <1>1, TypesKept, AdminKept, HandsKept, CountKept, StreamsKept DEF ServerInv, AdminInv, HandInv
<1>2. CASE Exit \/ ListenFails \/ BrokenPipe
  <2>1. (Fresh /\ proc \in {"up", "exited", "killed"})'
    BY <1>2 DEF Exit, ListenFails, BrokenPipe, ProcessEnds, Fresh, QueueInit
  <2> QED BY <2>1, FreshHolds, PTL
<1>3. CASE UNCHANGED vars
  <2> USE <1>3 DEF vars, queueVars, flagVars, mainVars, workerVars, adminVars, clientVars, histVars
  <2>1. TypeOK'
    BY DEF ServerInv, TypeOK, QueueTypeOK
  <2>2. SlotAtHand' /\ SlotsApart' /\ MainInTable' /\ OwnedRuns'
    BY DEF ServerInv, SlotAtHand, SlotsApart, MainInTable, OwnedRuns, Serving, RunningSlots
  <2>3. CountLags'
    BY DEF ServerInv, CountLags, FreedTwice, Owned
  <2>4. StreamsOpen'
    BY DEF ServerInv, StreamsOpen, Serving, Live, WaitingSlots, Attending, Closed
  <2>5. FlagsTell' /\ OldRequestsSeen' /\ IntruderStops'
    BY DEF ServerInv, FlagsTell, OldRequestsSeen, OldRequestsDrained, IntruderStops
  <2> QED BY <2>1, <2>2, <2>3, <2>4, <2>5 DEF ServerInv
<1> QED BY <1>1, <1>2, <1>3 DEF Next, Working, Over

THEOREM ServerInvariant == Spec => []ServerInv
BY ServerInitEstablishes, ServerStepPreserves, PTL DEF Spec

-----------------------------------------------------------------------------
(* The state of the agent keeps its type: every worker serves a slot of    *)
(* the table or none, and main stays in the table while it empties it.     *)
THEOREM ServerTypeCorrect == Spec => []TypeOK
BY ServerInvariant, PTL DEF ServerInv

(* No slot is served by two workers, none runs without its worker while    *)
(* main serves, and the count of the slots in use is never too large nor   *)
(* too small by more than the slots that RemoveAllQueue has passed.        *)
THEOREM SlotsAreOwned == Spec => []SlotOwnership
<1>1. ASSUME ServerInv PROVE SlotOwnership
  <2>1. rmIdx \in Nat /\ m_QueueCount \in Int
    BY <1>1 DEF ServerInv, TypeOK, QueueTypeOK
  <2>2. Cardinality(InUse(use)) \in Nat /\ Cardinality(FreedTwice) \in Nat
    BY SlotSetsFinite DEF InUse, FreedTwice
  <2>3. Cardinality(InUse(use)) - rmIdx <= m_QueueCount /\ m_QueueCount <= Cardinality(InUse(use))
    BY <1>1, <2>1, <2>2 DEF ServerInv, CountLags
  <2> QED BY <1>1, <2>3 DEF ServerInv, SlotsApart, OwnedRuns, SlotOwnership
<1> QED BY <1>1, ServerInvariant, PTL

(* While main serves, the descriptor a worker attends to is open and no    *)
(* other client has it.                                                    *)
THEOREM StreamsArePrivate == Spec => []StreamsPrivate
<1>1. ASSUME ServerInv PROVE StreamsPrivate
  <2> SUFFICES ASSUME Serving, NEW w \in Workers, Attending(w)
               PROVE  /\ ~Closed(Client(w))
                      /\ \A i \in WaitingSlots : soc[i] # Client(w)
                      /\ \A v \in Workers \ {w} : Attending(v) => Client(v) # Client(w)
    BY DEF StreamsPrivate
  <2>1. /\ \A i \in Live : ~Closed(soc[i])
        /\ \A i, j \in Live : soc[i] = soc[j] => i = j
    BY <1>1 DEF ServerInv, StreamsOpen
  <2>2. WaitingSlots \subseteq Live
    BY DEF Live
  <2>3. \A v \in Workers : Attending(v) =>
           m_pChildSoc[v] \in Live /\ m_pChildSoc[v] \in Slots /\ m_pChildSoc[v] \notin WaitingSlots
    BY <1>1, AttendedIsLive
  <2>4. \A v \in Workers \ {w} : Attending(v) => m_pChildSoc[v] # m_pChildSoc[w]
    BY <1>1, <2>3, Sizes DEF ServerInv, SlotsApart
  <2> QED BY <2>1, <2>2, <2>3, <2>4 DEF Client
<1> QED BY <1>1, ServerInvariant, PTL

(* An admin section begins when the requests it found under way are over,  *)
(* or the agent goes down.                                                 *)
THEOREM SectionsAreDrained == Spec => []OldRequestsDrained
BY ServerInvariant, PTL DEF ServerInv, OldRequestsSeen

(* A worker begins one request in an admin section at most. *)
THEOREM IntrudersAreSingle == Spec => []OneIntruder
<1>1. ServerInv => OneIntruder
  BY DEF ServerInv, IntruderStops, OneIntruder
<1> QED BY <1>1, ServerInvariant, PTL

(* The scan of popSocket ends in the running agent too, where slots may be *)
(* freed twice: the count is never above the slots in use.                 *)
THEOREM ServerScanEnds == Spec => []ScanTerminates
<1>1. ASSUME ServerInv PROVE ScanTerminates
  <2> SUFFICES ASSUME m_QueueCount > 0, m_pFirst = -1 PROVE WaitingSlots # {}
    BY DEF ScanTerminates
  <2>1. m_QueueCount \in Int /\ Cardinality(InUse(use)) \in Nat
    BY <1>1, SlotSetsFinite DEF ServerInv, TypeOK, QueueTypeOK, InUse
  <2>2. Cardinality(InUse(use)) # 0
    BY <1>1, <2>1 DEF ServerInv, CountLags
  <2>3. InUse(use) # {}
    BY <2>2, FS_EmptySet
  <2>4. PICK i \in Slots : use[i] # Free
    BY <2>3 DEF InUse
  <2>5. use[i] # Running
    BY <1>1 DEF ServerInv, OwnedRuns, RunningSlots
  <2> QED BY <1>1, <2>4, <2>5 DEF ServerInv, TypeOK, QueueTypeOK, WaitingSlots
<1> QED BY <1>1, ServerInvariant, PTL

(* In the running agent, too, the cursor of popSocket passes no waiting    *)
(* client, whatever main, the workers and the administrator do between two *)
(* calls.                                                                  *)
THEOREM WaitersAdvanceInServer == Spec => WaitersAdvance
<1> DEFINE Nearer ==
      \A i \in Slots :
        use[i] = Waiting /\ use'[i] = Waiting /\ m_pFirst' # m_pFirst =>
          StepsTo(m_pFirst', i) < StepsTo(m_pFirst, i)
<1>1. ASSUME ServerInv, NEW i \in Slots, popSocket(i) PROVE Nearer
  <2> SUFFICES ASSUME NEW k \in Slots, use[k] = Waiting, use'[k] = Waiting
               PROVE  StepsTo(m_pFirst', k) < StepsTo(m_pFirst, k)
    OBVIOUS
  <2>1. /\ m_pFirst \in Slots \cup {-1} /\ use \in [Slots -> {Free, Waiting, Running}]
    BY <1>1 DEF ServerInv, TypeOK, QueueTypeOK
  <2>2. /\ use'[i] = Running /\ m_pFirst' = i
        /\ StepsTo(m_pFirst, i) <= StepsTo(m_pFirst, k)
    BY <1>1, <2>1 DEF popSocket, PopSlot
  <2>3. i # k
    BY <2>2 DEF Running, Waiting
  <2> QED BY <2>1, <2>2, <2>3, CursorAdvances
<1>2. ASSUME ServerInv, [Next]_vars PROVE [Nearer]_queueVars
  <2>1. CASE UNCHANGED queueVars
    BY <2>1
  <2>2. CASE m_pFirst' = m_pFirst
    BY <2>2
  <2>3. CASE Working
    BY <1>1, <1>2, <2>1, <2>2, <2>3, TableSteps DEF pushSocket, FreeSlot
  <2>4. CASE Exit \/ ListenFails \/ BrokenPipe
    <3>1. use' = [i \in Slots |-> Free]
      BY <2>4 DEF Exit, ListenFails, BrokenPipe, ProcessEnds
    <3>2. \A i \in Slots : use'[i] # Waiting
      BY <3>1 DEF Free, Waiting
    <3> QED BY <3>2
  <2> QED BY <1>2, <2>1, <2>3, <2>4 DEF Next, Working, Over, vars
<1>3. Spec => [][Nearer]_queueVars
  BY <1>2, ServerInvariant, PTL DEF Spec
<1> QED BY <1>3 DEF WaitersAdvance

-----------------------------------------------------------------------------
(* The refinement: the states of a section and the steps that change them. *)
Busy     == {w \in Workers : workerPc[w] = "work"}
Intruded == {w \in Workers : begun[w] > 0}

GateStutters ==
  /\ SectionOfAdmin' = SectionOfAdmin /\ Busy' = Busy /\ early' = early
  /\ Intruded' = Intruded /\ m_bTerminate' = m_bTerminate

GateSteps == GateOfServer!GateNext \/ GateStutters

LEMMA WorkerStepsGate ==
  ASSUME ServerInv, NEW w \in Workers, Worker(w) PROVE GateSteps
<1> USE DEF ServerInv, TypeOK
<1>1. /\ UNCHANGED <<adminPc, m_bTerminate, m_AdminRunning>>
      /\ \A v \in Workers \ {w} : workerPc'[v] = workerPc[v] /\ begun'[v] = begun[v]
  BY WorkerMoves DEF flagVars, adminVars
<1>2. SectionOfAdmin' = SectionOfAdmin
  BY <1>1 DEF SectionOfAdmin
<1>3. CASE Read(w) /\ ReadHeader(w)
  <2>1. /\ workerPc[w] = "read" /\ workerPc' = [workerPc EXCEPT ![w] = "work"] /\ early' = early
        /\ begun' = IF m_AdminRunning THEN [begun EXCEPT ![w] = begun[w] + 1] ELSE begun
    BY <1>3 DEF Read, ReadHeader, Goto
  <2>2. w \notin Busy /\ Busy' = Busy \cup {w}
    BY <2>1 DEF Busy
  <2>3. SectionOfAdmin = "none" <=> ~m_AdminRunning
    BY DEF SectionOfAdmin, FlagsTell, AdminPcs
  <2>4. begun[w] = 0
    BY <2>1 DEF IntruderStops
  <2>5. w \notin Intruded
    BY <2>4 DEF Intruded
  <2>6. Intruded' = IF SectionOfAdmin = "none" THEN Intruded ELSE Intruded \cup {w}
    <3>1. CASE ~m_AdminRunning
      BY <2>1, <2>3, <3>1 DEF Intruded
    <3>2. CASE m_AdminRunning
      <4>1. begun'[w] = 1 /\ \A v \in Workers \ {w} : begun'[v] = begun[v]
        BY <2>1, <2>4, <3>2
      <4> QED BY <2>3, <3>2, <4>1 DEF Intruded
    <3> QED BY <3>1, <3>2
  <2>7. GateOfServer!BeginRequest(w)
    BY <1>1, <1>2, <2>1, <2>2, <2>5, <2>6 DEF GateOfServer!BeginRequest, Busy, Intruded
  <2> QED BY <2>7 DEF GateSteps, GateOfServer!GateNext
<1>4. CASE EndRequest(w)
  <2>1. /\ workerPc[w] = "work" /\ workerPc'[w] # "work"
        /\ early' = early \ {w} /\ begun' = begun
    BY <1>4 DEF EndRequest, Answered, HeaderRefused, RequestThrows, Goto
  <2>2. w \in Busy /\ Busy' = Busy \ {w} /\ Intruded' = Intruded
    BY <1>1, <2>1 DEF Busy, Intruded
  <2>3. GateOfServer!FinishRequest(w)
    BY <1>1, <1>2, <2>1, <2>2 DEF GateOfServer!FinishRequest, Busy, Intruded
  <2> QED BY <2>3 DEF GateSteps, GateOfServer!GateNext
<1>5. CASE ~(Read(w) /\ ReadHeader(w)) /\ ~EndRequest(w)
  <2>1. /\ workerPc[w] # "work" /\ workerPc'[w] # "work"
        /\ early' = early /\ begun' = begun
    BY <1>5 DEF Worker, CheckFlags, GetNextRequest, BeginLoop, Gate, Read, ReadTimeout, ReadClosed,
                CloseClient, FreeClientSlot, Goto, histVars
  <2>2. Busy' = Busy /\ Intruded' = Intruded
    BY <1>1, <2>1 DEF Busy, Intruded
  <2> QED BY <1>1, <1>2, <2>1, <2>2 DEF GateSteps, GateStutters
<1> QED BY <1>3, <1>4, <1>5

LEMMA AdminStepsGate ==
  ASSUME ServerInv, AdminStep PROVE GateSteps
<1> USE DEF ServerInv, TypeOK, SectionOfAdmin
<1>1. Busy' = Busy
  BY DEF AdminStep, workerVars, Busy
<1>2. CASE NormalTerminate
  <2>1. GateOfServer!StopWorkers
    BY <1>1, <1>2 DEF NormalTerminate, histVars, GateOfServer!StopWorkers, Busy, Intruded
  <2> QED BY <2>1 DEF GateSteps, GateOfServer!GateNext
<1>3. CASE StartAdminProcess
  <2>1. ~m_AdminRunning
    BY <1>3 DEF StartAdminProcess, FlagsTell
  <2>2. \A w \in Workers : begun[w] = 0
    BY <2>1 DEF IntruderStops
  <2>3. Intruded = {} /\ Intruded' = {}
    BY <1>3, <2>2 DEF StartAdminProcess, Intruded
  <2>4. GateOfServer!Announce
    BY <1>1, <1>3, <2>3 DEF StartAdminProcess, GateOfServer!Announce, Busy, Intruded
  <2> QED BY <2>4 DEF GateSteps, GateOfServer!GateNext
<1>4. CASE SeenIdle
  BY <1>1, <1>4 DEF SeenIdle, flagVars, histVars, GateSteps, GateStutters, Intruded
<1>5. CASE SelfTerminate
  <2>1. GateOfServer!StopWorkers
    BY <1>1, <1>5 DEF SelfTerminate, histVars, GateOfServer!StopWorkers, Busy, Intruded
  <2> QED BY <2>1 DEF GateSteps, GateOfServer!GateNext
<1>6. CASE EnterSection
  <2>1. \A w \in early : w < adminIdx
    BY Sizes, <1>6 DEF EnterSection, Workers
  <2>2. early = {} \/ m_bTerminate
    BY <1>6, <2>1 DEF EnterSection, OldRequestsSeen
  <2>3. GateOfServer!Enter
    BY <1>1, <1>6, <2>2 DEF EnterSection, flagVars, histVars, GateOfServer!Enter, Busy, Intruded
  <2> QED BY <2>3 DEF GateSteps, GateOfServer!GateNext
<1>7. CASE EndAdminProcess
  <2>1. Intruded' = {}
    BY <1>7 DEF EndAdminProcess, Intruded
  <2>2. GateOfServer!Leave
    BY <1>1, <1>7, <2>1 DEF EndAdminProcess, GateOfServer!Leave, Busy, Intruded
  <2> QED BY <2>2 DEF GateSteps, GateOfServer!GateNext
<1> QED BY <1>2, <1>3, <1>4, <1>5, <1>6, <1>7 DEF AdminStep

LEMMA EndStepsGate ==
  ASSUME NEW how, ProcessEnds(how) PROVE GateSteps
<1>1. Busy' = {} /\ Intruded' = {} /\ SectionOfAdmin' = "none"
  BY DEF ProcessEnds, Busy, Intruded, SectionOfAdmin
<1>2. GateOfServer!End
  BY <1>1 DEF ProcessEnds, GateOfServer!End, Busy, Intruded
<1> QED BY <1>2 DEF GateSteps, GateOfServer!GateNext

LEMMA StepOfGate ==
  ASSUME ServerInv, [Next]_vars PROVE [GateOfServer!GateNext]_(GateOfServer!gateVars)
<1> SUFFICES GateSteps
  BY DEF GateSteps, GateStutters, GateOfServer!gateVars, Busy, Intruded
<1>1. ASSUME UNCHANGED <<workerPc, adminPc, m_bTerminate, early, begun>> PROVE GateSteps
  BY <1>1 DEF GateSteps, GateStutters, SectionOfAdmin, Busy, Intruded
<1>2. CASE MainStep \/ \E c \in Clients : ClientStep(c)
  BY <1>1, <1>2 DEF MainStep, ClientStep, CheckStop, PollTimeout, Accept, Refuse, RemoveCheck,
         RemoveClose, RemoveFree, flagVars, workerVars, adminVars, histVars
<1>3. CASE UNCHANGED vars \/ Over
  BY <1>1, <1>3 DEF vars, Over, flagVars, workerVars, adminVars, histVars
<1>4. CASE Exit \/ ListenFails \/ BrokenPipe
  BY <1>4, EndStepsGate DEF Exit, ListenFails, BrokenPipe
<1> QED BY <1>2, <1>3, <1>4, WorkerStepsGate, AdminStepsGate DEF Next

LEMMA InitOfGate == Init => GateOfServer!GateInit
BY DEF Init, GateOfServer!GateInit, SectionOfAdmin

(* Admin sections are the sections AdminGate promises, for every number of *)
(* workers: old requests are over or the workers stop, and no worker       *)
(* begins two requests in one.                                             *)
THEOREM ServerImplementsGate == Spec => ImplementsAdminGate
<1> QED BY InitOfGate, StepOfGate, ServerInvariant, PTL
        DEF Spec, ImplementsAdminGate, GateOfServer!GateSpec
=============================================================================
