--------------------------- MODULE LogRingProofs ---------------------------
(***************************************************************************)
(* The log file is faithful for every size of the ring and every number of *)
(* messages.                                                               *)
(***************************************************************************)
EXTENDS LogRing, TLAPS

(* The cursor leaves the ring by two steps at most, even when the log      *)
(* thread and the destructor race for it.  A writer that is to move the    *)
(* cursor was inside the ring a moment ago; past the end, the other one    *)
(* cannot follow before the cursor is back.                                *)
CursorIsNear ==
  \A t, u \in Writers : t # u =>
    /\ writerPc[t] = "load" =>
         /\ m_pop <= m_qSize + 1
         /\ m_pop = m_qSize + 1 => writerPc[u] \in {"out", "while", "open", "gone"}
         /\ writerPc[u] = "store" => popped[u] <= m_qSize + 1
    /\ writerPc[t] = "store" /\ popped[t] > m_qSize + 1 =>
         m_pop = m_qSize + 1 /\ writerPc[u] \in {"out", "while", "open", "gone"}

TypeInv == TypeOK /\ CursorIsNear

(* The record being pushed is at m_push, which no one has published. *)
PushUnderWay ==
  /\ pushPc # "unlocked" => pushed < MaxMessages /\ m_MsgRec[m_push].msgGbn = pushed + 1
  /\ pushPc = "msg" => m_MsgRec[m_push].msg = pushed + 1

(* Until the two writers meet, one of them at most is at a record, and the *)
(* cursor is at the end of the ring only between its two stores.           *)
OneWriter ==
  ~overlap =>
    /\ ~wild
    /\ \A t, u \in Writers : InRecord(t) /\ InRecord(u) => t = u
    /\ m_pop <= m_qSize
    /\ m_pop = m_qSize <=> \E t \in Writers : writerPc[t] = "wrap"
    /\ \A t \in Writers : writerPc[t] = "store" => popped[t] = m_pop + 1

(* Messages the cursor has passed: the one just printed is not among them  *)
(* before the cursor is stored.                                            *)
Taken == IF \E t \in Writers : writerPc[t] \in {"load", "store"} THEN Len(file) - 1 ELSE Len(file)
Waiting == pushed - Taken

(* The place x of the ring, counted from the cursor over the end. *)
Slot(x) == IF x < m_qSize THEN x ELSE x - m_qSize
Cursor == IF m_pop = m_qSize THEN 0 ELSE m_pop

(* Unless the ring filled up or the writers met, m_push is ahead of the    *)
(* cursor by the messages that wait, each of them complete in its record.  *)
Intact == ~lapped /\ ~overlap

RingHolds ==
  Intact =>
    /\ Taken \in Nat
    /\ Waiting \in 0 .. m_qSize - 1
    /\ m_push = Slot(Cursor + Waiting)
    /\ \A k \in 0 .. m_qSize - 1 : k < Waiting =>
         m_MsgRec[Slot(Cursor + k)] = [msgGbn |-> Taken + k + 1, msg |-> Taken + k + 1]
    /\ \A t \in Writers :
         /\ writerPc[t] \in {"open", "print", "load", "store"} => Waiting > 0
         /\ writerPc[t] = "print" => gbn[t] = Taken + 1

FileInOrder ==
  Intact => file = [n \in 1 .. Len(file) |-> [msgGbn |-> n, msg |-> n]]

(* The destructor returns when the cursor has met m_push. *)
ExitAfterDue ==
  /\ due <= pushed
  /\ FlushedAtExit

(* The inductive invariant.  FileIsFaithful is not inductive: that the     *)
(* next record holds the next message depends on how far m_push is ahead,  *)
(* which the code never computes.                                          *)
LogInv ==
  /\ TypeInv
  /\ PushUnderWay
  /\ OneWriter
  /\ RingHolds
  /\ FileInOrder
  /\ ExitAfterDue

-----------------------------------------------------------------------------
LEMMA Sizes == m_qSize \in Nat /\ m_qSize > 1 /\ MaxMessages \in Nat /\ 0 \in Index
BY LogRingAssumption DEF Index

Records == [msgGbn : Messages, msg : Messages]

(* A push fills its record field by field. *)
LEMMA FillGbn ==
  ASSUME m_MsgRec \in [Index -> Records], NEW i \in Index, NEW n \in Messages
  PROVE  [m_MsgRec EXCEPT ![i].msgGbn = n]
           = [m_MsgRec EXCEPT ![i] = [msgGbn |-> n, msg |-> m_MsgRec[i].msg]]
<1>1. m_MsgRec[i] \in Records
  OBVIOUS
<1>2. [m_MsgRec[i] EXCEPT !.msgGbn = n] = [msgGbn |-> n, msg |-> m_MsgRec[i].msg]
  BY <1>1 DEF Records
<1> QED BY <1>2

LEMMA FillMsg ==
  ASSUME m_MsgRec \in [Index -> Records], NEW i \in Index, NEW n \in Messages
  PROVE  [m_MsgRec EXCEPT ![i].msg = n]
           = [m_MsgRec EXCEPT ![i] = [msgGbn |-> m_MsgRec[i].msgGbn, msg |-> n]]
<1>1. m_MsgRec[i] \in Records
  OBVIOUS
<1>2. [m_MsgRec[i] EXCEPT !.msg = n] = [msgGbn |-> m_MsgRec[i].msgGbn, msg |-> n]
  BY <1>1 DEF Records
<1> QED BY <1>2

(* Every action that is not a push is a step of one of the two writers. *)
WriterStep(t) == WriteMessage(t) \/ (t = "log" /\ Wake)

(* What a push does to the ring. *)
LEMMA PushSteps ==
  ASSUME TypeInv, PushUnderWay, Push
  PROVE  /\ m_MsgRec \in [Index -> Records] /\ m_push \in Index
         /\ pushPc # "msg" => pushed + 1 \in Messages
         /\ \/ /\ pushPc = "unlocked" /\ pushPc' = "gbn" /\ pushed < MaxMessages
               /\ m_MsgRec' = [m_MsgRec EXCEPT ![m_push] =
                                 [msgGbn |-> pushed + 1, msg |-> m_MsgRec[m_push].msg]]
               /\ UNCHANGED <<m_push, pushed, lapped>>
            \/ /\ pushPc = "gbn" /\ pushPc' = "msg" /\ pushed < MaxMessages
               /\ m_MsgRec' = [m_MsgRec EXCEPT ![m_push] =
                                 [msgGbn |-> m_MsgRec[m_push].msgGbn, msg |-> pushed + 1]]
               /\ UNCHANGED <<m_push, pushed, lapped>>
            \/ /\ Publish /\ m_MsgRec' = m_MsgRec
<1>1. m_MsgRec \in [Index -> Records] /\ m_push \in Index
      /\ pushed \in 0 .. MaxMessages /\ pushPc \in {"unlocked", "gbn", "msg"}
  BY DEF TypeInv, TypeOK, Records, Messages
<1>2. CASE PushGbn
  <2>1. pushed + 1 \in Messages
    BY <1>1, <1>2, Sizes DEF PushGbn, Messages
  <2>2. [m_MsgRec EXCEPT ![m_push].msgGbn = pushed + 1]
           = [m_MsgRec EXCEPT ![m_push] = [msgGbn |-> pushed + 1, msg |-> m_MsgRec[m_push].msg]]
    BY <1>1, <2>1, FillGbn
  <2>3. m_MsgRec' = [m_MsgRec EXCEPT ![m_push] = [msgGbn |-> pushed + 1, msg |-> m_MsgRec[m_push].msg]]
    BY <1>2, <2>2, Zenon DEF PushGbn
  <2>4. pushPc = "unlocked" /\ pushPc' = "gbn" /\ pushed < MaxMessages /\ UNCHANGED <<m_push, pushed, lapped>>
    BY <1>2, Zenon DEF PushGbn
  <2> QED BY <1>1, <2>1, <2>3, <2>4, Zenon
<1>3. CASE PushMsg
  <2>1. pushed < MaxMessages
    BY <1>1, <1>3 DEF PushMsg, PushUnderWay
  <2>2. pushed + 1 \in Messages
    BY <1>1, <2>1, Sizes DEF Messages
  <2>3. [m_MsgRec EXCEPT ![m_push].msg = pushed + 1]
           = [m_MsgRec EXCEPT ![m_push] = [msgGbn |-> m_MsgRec[m_push].msgGbn, msg |-> pushed + 1]]
    BY <1>1, <2>2, FillMsg
  <2> QED BY <1>1, <1>3, <2>1, <2>2, <2>3 DEF PushMsg
<1>4. CASE Publish
  BY <1>1, <1>4 DEF Publish
<1> QED BY <1>2, <1>3, <1>4 DEF Push

LEMMA PushTypes ==
  ASSUME TypeInv, PushUnderWay, Push PROVE TypeInv'
<1> USE Sizes, PushSteps DEF TypeInv, TypeOK, writerVars
<1>1. UNCHANGED <<writerVars, due>>
  BY DEF Push
<1>2. CursorIsNear'
  BY <1>1 DEF CursorIsNear
<1>3. m_MsgRec' \in [Index -> [msgGbn : Messages, msg : Messages]]
  <2>1. m_MsgRec[m_push] \in Records
    OBVIOUS
  <2>2. pushed + 1 \in Messages =>
          /\ [msgGbn |-> pushed + 1, msg |-> m_MsgRec[m_push].msg] \in Records
          /\ [msgGbn |-> m_MsgRec[m_push].msgGbn, msg |-> pushed + 1] \in Records
    BY <2>1 DEF Records
  <2>3. m_MsgRec' \in [Index -> Records]
    BY <2>2
  <2> QED BY <2>3 DEF Records
<1>4. m_push' \in Index
  BY DEF Publish, NextPush, Index
<1>5. pushed' \in Messages
  BY SMTT(30) DEF Publish, Messages, PushUnderWay
<1>6. pushPc' \in {"unlocked", "gbn", "msg"} /\ lapped' \in BOOLEAN
  BY DEF Publish
<1> QED BY <1>1, <1>2, <1>3, <1>4, <1>5, <1>6

LEMMA WriterTypes ==
  ASSUME TypeInv, NEW t \in Writers, WriterStep(t), UNCHANGED <<pushVars, due>>
  PROVE  TypeInv'
<1> USE Sizes DEF TypeInv, TypeOK, pushVars
<1>1. CASE While(t)
  <2>1. TypeOK'
    BY <1>1 DEF While, Goto
  <2>2. CursorIsNear'
    BY <1>1 DEF While, Goto, CursorIsNear, Writers
  <2> QED BY <2>1, <2>2
<1>2. CASE Stray(t)
  BY <1>2 DEF Stray, CursorIsNear
<1>3. CASE Open(t)
  <2>1. m_MsgRec[m_pop].msgGbn \in Messages
    BY <1>3 DEF Open
  <2>2. TypeOK'
    BY <1>3, <2>1 DEF Open, Goto
  <2>3. m_pop < m_qSize
    BY <1>3 DEF Open, Index
  <2>4. CursorIsNear'
    BY <1>3, <2>3 DEF Open, Goto, CursorIsNear, Writers
  <2> QED BY <2>2, <2>4
<1>4. CASE PrintMsg(t)
  <2>1. m_MsgRec[m_pop].msg \in Messages /\ gbn[t] \in Messages /\ m_pop < m_qSize
    BY <1>4 DEF PrintMsg, Index
  <2>2. file' \in Seq([msgGbn : Messages, msg : Messages])
    <3>1. [msgGbn |-> gbn[t], msg |-> m_MsgRec[m_pop].msg] \in [msgGbn : Messages, msg : Messages]
      BY <2>1
    <3>2. Append(file, [msgGbn |-> gbn[t], msg |-> m_MsgRec[m_pop].msg])
            \in Seq([msgGbn : Messages, msg : Messages])
      BY <3>1
    <3> QED BY <1>4, <3>2 DEF PrintMsg
  <2>3. TypeOK'
    BY <1>4, <2>2 DEF PrintMsg, Goto
  <2>4. CursorIsNear'
    BY <1>4, <2>1 DEF PrintMsg, Goto, CursorIsNear, Writers
  <2> QED BY <2>3, <2>4
<1>5. CASE Load(t)
  <2>1. m_pop + 1 \in 0 .. m_qSize + 2
    BY <1>5 DEF Load, CursorIsNear, Writers
  <2>2. TypeOK'
    BY <1>5, <2>1 DEF Load, Goto
  <2>3. CursorIsNear'
    BY <1>5 DEF Load, Goto, CursorIsNear, Writers
  <2> QED BY <2>2, <2>3
<1>6. CASE Store(t)
  <2>1. TypeOK'
    BY <1>6 DEF Store, Goto
  <2>2. CursorIsNear'
    BY <1>6 DEF Store, Goto, CursorIsNear, Writers
  <2> QED BY <2>1, <2>2
<1>7. CASE Wrap(t)
  <2>1. TypeOK'
    BY <1>7 DEF Wrap, Goto
  <2>2. CursorIsNear'
    BY <1>7 DEF Wrap, Goto, CursorIsNear, Writers
  <2> QED BY <2>1, <2>2
<1>8. CASE t = "log" /\ Wake
  <2>1. TypeOK'
    BY <1>8 DEF Wake, Goto
  <2>2. CursorIsNear'
    BY <1>8 DEF Wake, Goto, CursorIsNear, Writers
  <2> QED BY <2>1, <2>2
<1> QED BY <1>1, <1>2, <1>3, <1>4, <1>5, <1>6, <1>7, <1>8 DEF WriterStep, WriteMessage

LEMMA DestroyTypes ==
  ASSUME TypeInv, Destroy PROVE TypeInv'
<1> USE Sizes DEF TypeInv, TypeOK, pushVars
<1>1. TypeOK'
  BY DEF Destroy, Goto
<1>2. CursorIsNear'
  BY DEF Destroy, Goto, CursorIsNear, Writers
<1> QED BY <1>1, <1>2

LEMMA StepTypes == TypeInv /\ PushUnderWay /\ [Next]_vars => TypeInv'
<1> SUFFICES ASSUME TypeInv, PushUnderWay, [Next]_vars PROVE TypeInv'
  OBVIOUS
<1>1. CASE Push
  BY <1>1, PushTypes
<1>2. ASSUME NEW t \in Writers, WriterStep(t), UNCHANGED <<pushVars, due>> PROVE TypeInv'
  BY <1>2, WriterTypes
<1>3. CASE Destroy
  BY <1>3, DestroyTypes
<1>4. CASE UNCHANGED vars
  BY <1>4 DEF vars, pushVars, writerVars, TypeInv, TypeOK, CursorIsNear
<1>5. Log => \E t \in Writers : WriterStep(t) /\ UNCHANGED <<pushVars, due>>
  BY DEF Log, WriterStep, Writers
<1>6. Main => Destroy \/ \E t \in Writers : WriterStep(t) /\ UNCHANGED <<pushVars, due>>
  BY DEF Main, WriterStep, Writers
<1> QED BY <1>1, <1>2, <1>3, <1>4, <1>5, <1>6 DEF Next, Over

-----------------------------------------------------------------------------
(* The push under way owns the record at m_push: the writers leave the     *)
(* records alone.                                                          *)
LEMMA PushUnderWayKept ==
  ASSUME TypeInv, PushUnderWay, [Next]_vars PROVE PushUnderWay'
<1>1. CASE Push
  BY <1>1, PushSteps DEF PushUnderWay, Publish
<1>2. CASE UNCHANGED pushVars
  BY <1>2 DEF PushUnderWay, pushVars
<1>3. Log \/ Main \/ UNCHANGED vars => UNCHANGED pushVars
  BY DEF Log, Main, Destroy, vars, pushVars
<1> QED BY <1>1, <1>2, <1>3 DEF Next, Over

(* A writer moves by itself: the other one is where it was. *)
LEMMA OneWriterKept ==
  ASSUME TypeInv, OneWriter, [Next]_vars PROVE OneWriter'
<1> USE DEF TypeInv, TypeOK
<1>0. SUFFICES ASSUME ~overlap' PROVE OneWriter'
  BY DEF OneWriter
<1>1. CASE UNCHANGED writerVars
  BY <1>1 DEF OneWriter, InRecord, writerVars
<1>2. ASSUME NEW t \in Writers, WriterStep(t) PROVE OneWriter'
  <2>1. ~overlap
    BY <1>0, <1>2 DEF WriterStep, WriteMessage, While, Stray, Open, PrintMsg, Load, Store, Wrap, Wake
  <2>2. CASE While(t)
    <3>1. ~InRecord(t) /\ \A u \in Writers : u # t => writerPc'[u] = writerPc[u]
      BY <2>2 DEF InRecord, While, Goto
    <3>2. InRecord(t)' => writerPc'[t] = "open" /\ \A u \in Writers : ~InRecord(u)
      BY <1>0, <2>1, <2>2, <3>1 DEF While, Goto, InRecord
    <3>3. writerPc'[t] \notin {"wrap", "store"} /\ UNCHANGED <<m_pop, popped, wild>>
      BY <2>2 DEF While, Goto
    <3>4. \A u \in Writers : u # t => (InRecord(u)' <=> InRecord(u))
      BY <3>1 DEF InRecord
    <3>5. \A u \in Writers :
            /\ writerPc'[u] = "wrap" <=> writerPc[u] = "wrap"
            /\ writerPc'[u] = "store" => writerPc[u] = "store"
      BY <2>2, <3>1, <3>3 DEF While
    <3>6. \A u, v \in Writers : InRecord(u)' /\ InRecord(v)' => u = v
      <4> SUFFICES ASSUME NEW u \in Writers, NEW v \in Writers, InRecord(u)', InRecord(v)', u # v
                   PROVE  FALSE
        OBVIOUS
      <4>1. CASE u # t /\ v # t
        BY <2>1, <3>4, <4>1 DEF OneWriter
      <4>2. CASE u = t \/ v = t
        BY <3>2, <3>4, <4>2
      <4> QED BY <4>1, <4>2
    <3>7. /\ ~wild' /\ m_pop' <= m_qSize
          /\ m_pop' = m_qSize <=> \E u \in Writers : writerPc'[u] = "wrap"
          /\ \A u \in Writers : writerPc'[u] = "store" => popped'[u] = m_pop' + 1
      BY <2>1, <3>3, <3>5 DEF OneWriter
    <3> QED BY <3>6, <3>7 DEF OneWriter
  <2>3. CASE Stray(t)
    <3>1. InRecord(t) /\ writerPc[t] # "wrap" /\ m_pop \notin Index
      BY <2>3 DEF Stray, InRecord
    <3>2. m_pop = m_qSize
      BY <2>1, <3>1, Sizes DEF OneWriter, Index
    <3> QED BY <2>1, <3>1, <3>2 DEF OneWriter, InRecord
  <2>4. CASE Open(t)
    BY <2>1, <2>4 DEF OneWriter, InRecord, Open, Goto, Writers
  <2>5. CASE PrintMsg(t)
    BY <2>1, <2>5 DEF OneWriter, InRecord, PrintMsg, Goto, Writers
  <2>6. CASE Load(t)
    BY <2>1, <2>6 DEF OneWriter, InRecord, Load, Goto, Writers
  <2>7. CASE Store(t)
    <3>1. m_pop < m_qSize
      BY <2>1, <2>7, Sizes DEF OneWriter, InRecord, Store
    <3>2. \A u \in Writers : u # t => ~InRecord(u) /\ writerPc'[u] = writerPc[u]
      BY <2>1, <2>7 DEF OneWriter, InRecord, Store, Goto
    <3> QED BY <2>1, <2>7, <3>1, <3>2, Sizes DEF OneWriter, InRecord, Store, Goto
  <2>8. CASE Wrap(t)
    BY <2>1, <2>8, Sizes DEF OneWriter, InRecord, Wrap, Goto, Writers
  <2>9. CASE t = "log" /\ Wake
    BY <2>1, <2>9 DEF OneWriter, InRecord, Wake, Goto, Writers
  <2> QED BY <1>2, <2>2, <2>3, <2>4, <2>5, <2>6, <2>7, <2>8, <2>9 DEF WriterStep, WriteMessage
<1>3. CASE Destroy
  BY <1>0, <1>3 DEF OneWriter, InRecord, Destroy, Goto, Writers
<1>4. Push \/ UNCHANGED vars => UNCHANGED writerVars
  BY DEF Push, vars, writerVars
<1>5. Log \/ Main => Destroy \/ \E t \in Writers : WriterStep(t)
  BY DEF Log, Main, WriterStep, Writers
<1> QED BY <1>1, <1>2, <1>3, <1>4, <1>5 DEF Next, Over

-----------------------------------------------------------------------------
(* Two places at different distances from the cursor, both less than a     *)
(* round ahead, are different records.                                     *)
LEMMA SlotsDiffer ==
  ASSUME NEW c \in Index, NEW a \in 0 .. m_qSize - 1, NEW b \in 0 .. m_qSize - 1
  PROVE  /\ Slot(c + a) \in Index
         /\ a # b => Slot(c + a) # Slot(c + b)
BY Sizes DEF Slot, Index

LEMMA SlotOfCursor == \A c \in Index : Slot(c + 0) = c
BY Sizes DEF Slot, Index

(* A place one further from the cursor is the one next to it. *)
LEMMA SlotAfter ==
  ASSUME NEW c \in Index, NEW a \in 0 .. m_qSize - 1
  PROVE  /\ a + 1 < m_qSize => Slot(c + (a + 1)) = IF Slot(c + a) + 1 = m_qSize THEN 0 ELSE Slot(c + a) + 1
         /\ a + 1 = m_qSize => c = IF Slot(c + a) + 1 = m_qSize THEN 0 ELSE Slot(c + a) + 1
BY Sizes DEF Slot, Index

(* The place k + 1 ahead of the cursor is k ahead once the cursor moved. *)
LEMMA SlotShifts ==
  ASSUME NEW c \in Index, NEW k \in 0 .. m_qSize - 1, k + 1 < m_qSize
  PROVE  Slot((IF c + 1 = m_qSize THEN 0 ELSE c + 1) + k) = Slot(c + (k + 1))
BY Sizes DEF Slot, Index

(* The cursor, when the writers did not meet. *)
LEMMA CursorInRing ==
  ASSUME TypeInv, OneWriter, ~overlap
  PROVE  /\ Cursor \in Index
         /\ \A t \in Writers : writerPc[t] \in {"while", "open", "print", "load", "store"} =>
              ((~\E u \in Writers : writerPc[u] = "wrap") => m_pop \in Index /\ Cursor = m_pop)
         /\ \A t \in Writers : writerPc[t] \in {"open", "print", "load", "store"} =>
              /\ m_pop \in Index /\ Cursor = m_pop
              /\ \A u \in Writers : u # t => ~InRecord(u)
<1> USE DEF TypeInv, TypeOK
<1>1. m_pop \in 0 .. m_qSize
  BY Sizes DEF OneWriter
<1>2. Cursor \in Index
  BY <1>1, Sizes DEF Cursor, Index
<1>3. (~\E u \in Writers : writerPc[u] = "wrap") => m_pop \in Index /\ Cursor = m_pop
  BY <1>1, Sizes DEF OneWriter, Cursor, Index
<1>4. ASSUME NEW t \in Writers, writerPc[t] \in {"open", "print", "load", "store"}
      PROVE  (\A u \in Writers : u # t => ~InRecord(u)) /\ ~\E u \in Writers : writerPc[u] = "wrap"
  BY <1>4 DEF OneWriter, InRecord
<1> QED BY <1>2, <1>3, <1>4

LEMMA TakenKept ==
  ASSUME \A t \in Writers : writerPc'[t] \in {"load", "store"} <=> writerPc[t] \in {"load", "store"},
         file' = file
  PROVE  Taken' = Taken
BY DEF Taken

(* A push fills the record behind the last one that waits, and publishes   *)
(* it when it is complete.                                                 *)
LEMMA PushKeepsRing ==
  ASSUME TypeInv, PushUnderWay, OneWriter, RingHolds, Push PROVE RingHolds'
<1> USE DEF TypeInv, TypeOK
<1>1. SUFFICES ASSUME Intact' PROVE RingHolds'
  BY DEF RingHolds
<1>2. UNCHANGED <<writerVars, due>>
  BY DEF Push
<1>3. Taken' = Taken /\ Cursor' = Cursor
  BY <1>2 DEF Taken, Cursor, writerVars
<1>4. Intact
  BY <1>1, <1>2, PushSteps DEF Intact, writerVars, Publish
<1>5. /\ Taken \in Nat /\ Waiting \in 0 .. m_qSize - 1 /\ m_push = Slot(Cursor + Waiting)
      /\ \A k \in 0 .. m_qSize - 1 : k < Waiting =>
           m_MsgRec[Slot(Cursor + k)] = [msgGbn |-> Taken + k + 1, msg |-> Taken + k + 1]
      /\ \A t \in Writers :
           /\ writerPc[t] \in {"open", "print", "load", "store"} => Waiting > 0
           /\ writerPc[t] = "print" => gbn[t] = Taken + 1
  BY <1>4 DEF RingHolds
<1>6. Cursor \in Index /\ pushed \in Nat
  BY <1>4, CursorInRing, Sizes DEF Intact, Messages
<1>7. CASE UNCHANGED <<m_push, pushed, lapped>>
  <2>1. Waiting' = Waiting
    BY <1>3, <1>7 DEF Waiting
  <2>2. \A k \in 0 .. m_qSize - 1 : k < Waiting =>
           Slot(Cursor + k) # m_push /\ Slot(Cursor + k) \in Index
    BY <1>5, <1>6, SlotsDiffer
  <2>3. \A i \in Index : i # m_push => m_MsgRec'[i] = m_MsgRec[i]
    BY PushSteps
  <2> QED BY <1>2, <1>3, <1>5, <1>7, <2>1, <2>2, <2>3 DEF RingHolds, writerVars, Slot
<1>8. CASE Publish
  <2>1. /\ m_push' = NextPush /\ pushed' = pushed + 1 /\ m_MsgRec' = m_MsgRec /\ pushPc = "msg"
        /\ NextPush # m_pop /\ ~(NextPush = 0 /\ m_pop = m_qSize)
    BY <1>1, <1>8 DEF Publish, Intact
  <2>2. NextPush # Cursor
    BY <2>1 DEF Cursor
  <2>3. Waiting' = Waiting + 1
    BY <1>3, <1>5, <1>6, <2>1 DEF Waiting
  <2>4. Waiting + 1 < m_qSize /\ NextPush = Slot(Cursor + (Waiting + 1))
    BY <1>5, <1>6, <2>2, SlotAfter, Sizes DEF NextPush
  <2>5. m_MsgRec[m_push] = [msgGbn |-> Taken + Waiting + 1, msg |-> Taken + Waiting + 1]
    <3>1. m_MsgRec[m_push].msgGbn = pushed + 1 /\ m_MsgRec[m_push].msg = pushed + 1
      BY <2>1 DEF PushUnderWay
    <3>2. m_MsgRec[m_push] \in [msgGbn : Messages, msg : Messages]
      OBVIOUS
    <3>3. pushed = Taken + Waiting
      BY <1>5, <1>6 DEF Waiting
    <3> QED BY <3>1, <3>2, <3>3
  <2>6. \A k \in 0 .. m_qSize - 1 : k < Waiting' =>
           m_MsgRec'[Slot(Cursor' + k)] = [msgGbn |-> Taken' + k + 1, msg |-> Taken' + k + 1]
    <3> SUFFICES ASSUME NEW k \in 0 .. m_qSize - 1, k < Waiting + 1
                 PROVE  m_MsgRec[Slot(Cursor + k)] = [msgGbn |-> Taken + k + 1, msg |-> Taken + k + 1]
      BY <1>3, <2>1, <2>3 DEF Slot
    <3>1. CASE k < Waiting
      BY <1>5, <3>1
    <3>2. CASE k = Waiting
      BY <1>5, <2>5, <3>2
    <3> QED BY <1>5, <3>1, <3>2
  <2>7. Taken' \in Nat /\ Waiting' \in 0 .. m_qSize - 1 /\ m_push' = Slot(Cursor' + Waiting')
    BY <1>3, <1>5, <2>1, <2>3, <2>4, Sizes
  <2>8. \A t \in Writers :
           /\ writerPc'[t] \in {"open", "print", "load", "store"} => Waiting' > 0
           /\ writerPc'[t] = "print" => gbn'[t] = Taken' + 1
    BY <1>2, <1>3, <1>5, <2>3 DEF writerVars
  <2> QED BY <2>6, <2>7, <2>8 DEF RingHolds, Slot
<1> QED BY <1>7, <1>8, PushSteps

LEMMA NextInRecord ==
  ASSUME RingHolds, Intact, Waiting > 0, m_pop \in Index, Cursor = m_pop
  PROVE  m_MsgRec[m_pop] = [msgGbn |-> Taken + 1, msg |-> Taken + 1]
<1>1. 0 \in 0 .. m_qSize - 1 /\ Slot(Cursor + 0) = m_pop
  BY Sizes, SlotOfCursor
<1>2. m_MsgRec[Slot(Cursor + 0)] = [msgGbn |-> Taken + 0 + 1, msg |-> Taken + 0 + 1]
  BY <1>1 DEF RingHolds
<1>3. Taken + 0 + 1 = Taken + 1
  BY DEF RingHolds
<1> QED BY <1>1, <1>2, <1>3

(* A writer finds in the record at the cursor the message after those      *)
(* taken, complete, and moves the cursor over it when it is in the file.   *)
LEMMA WriterKeepsRing ==
  ASSUME TypeInv, OneWriter, RingHolds,
         NEW t \in Writers, WriterStep(t), UNCHANGED <<pushVars, due>>
  PROVE  RingHolds'
<1> USE DEF TypeInv, TypeOK
<1>1. SUFFICES ASSUME Intact' PROVE RingHolds'
  BY DEF RingHolds
<1>2. Intact /\ UNCHANGED <<m_MsgRec, m_push, pushed, lapped>>
  BY <1>1 DEF Intact, pushVars, WriterStep, WriteMessage, While, Stray, Open, PrintMsg, Load, Store,
              Wrap, Wake
<1>3. /\ Taken \in Nat /\ Waiting \in 0 .. m_qSize - 1 /\ m_push = Slot(Cursor + Waiting)
      /\ \A k \in 0 .. m_qSize - 1 : k < Waiting =>
           m_MsgRec[Slot(Cursor + k)] = [msgGbn |-> Taken + k + 1, msg |-> Taken + k + 1]
      /\ \A u \in Writers :
           /\ writerPc[u] \in {"open", "print", "load", "store"} => Waiting > 0
           /\ writerPc[u] = "print" => gbn[u] = Taken + 1
  BY <1>2 DEF RingHolds
<1>4. Cursor \in Index /\ pushed \in Nat /\ Len(file) \in Nat
  BY <1>2, CursorInRing, Sizes DEF Intact, Messages
<1>5. writerPc[t] \in {"open", "print", "load", "store"} =>
        /\ m_pop \in Index /\ Cursor = m_pop
        /\ \A u \in Writers : u # t => ~InRecord(u)
  BY <1>2, CursorInRing DEF Intact
(* A step that changes neither the cursor nor what has been taken only has *)
(* to be in order for the writer that made it.                             *)
<1>6. ASSUME Taken' = Taken, Cursor' = Cursor,
             \A u \in Writers : u # t => writerPc'[u] = writerPc[u] /\ gbn'[u] = gbn[u],
             writerPc'[t] \in {"open", "print", "load", "store"} => Waiting > 0,
             writerPc'[t] = "print" => gbn'[t] = Taken + 1
      PROVE  RingHolds'
  <2>1. Waiting' = Waiting
    BY <1>2, <1>6 DEF Waiting
  <2>2. \A u \in Writers :
           /\ writerPc'[u] \in {"open", "print", "load", "store"} => Waiting > 0
           /\ writerPc'[u] = "print" => gbn'[u] = Taken + 1
    BY <1>3, <1>6
  <2> QED BY <1>2, <1>3, <1>6, <2>1, <2>2 DEF RingHolds, Slot
<1>7. CASE While(t)
  <2>1. Taken' = Taken /\ Cursor' = Cursor
    BY <1>7 DEF While, Goto, Taken, Cursor
  <2>2. \A u \in Writers : (u # t => writerPc'[u] = writerPc[u]) /\ gbn'[u] = gbn[u]
    BY <1>7 DEF While, Goto
  <2>3. ASSUME writerPc'[t] = "open" PROVE Waiting > 0
    <3>1. m_pop # m_push /\ \A u \in Writers : ~InRecord(u)
      BY <1>1, <1>2, <1>7, <2>3 DEF While, Goto, Intact, InRecord
    <3>2. m_pop = Cursor
      BY <1>2, <1>7, <3>1, CursorInRing DEF Intact, InRecord, While
    <3>3. Waiting # 0
      BY <1>3, <1>4, <3>1, <3>2, SlotOfCursor
    <3> QED BY <1>3, <3>3
  <2>4. writerPc'[t] \in {"open", "out", "gone"}
    BY <1>7 DEF While, Goto
  <2> QED BY <1>6, <2>1, <2>2, <2>3, <2>4
<1>8. CASE Stray(t)
  BY <1>5, <1>8 DEF Stray
<1>9. CASE Open(t)
  <2>1. Taken' = Taken /\ Cursor' = Cursor
    BY <1>9 DEF Open, Goto, Taken, Cursor
  <2>2. \A u \in Writers : u # t => writerPc'[u] = writerPc[u] /\ gbn'[u] = gbn[u]
    BY <1>9 DEF Open, Goto
  <2>3. Waiting > 0 /\ Cursor = m_pop
    BY <1>3, <1>5, <1>9 DEF Open
  <2>4. m_MsgRec[m_pop] = [msgGbn |-> Taken + 1, msg |-> Taken + 1]
    BY <1>2, <1>3, <1>4, <2>3, NextInRecord
  <2>5. gbn'[t] = Taken + 1
    BY <1>9, <2>4 DEF Open
  <2> QED BY <1>6, <2>1, <2>2, <2>3, <2>5
<1>10. CASE PrintMsg(t)
  <2>1. \A u \in Writers : u # t => ~InRecord(u)
    BY <1>5, <1>10 DEF PrintMsg
  <2>2. /\ Len(file') = Len(file) + 1 /\ UNCHANGED <<m_pop, gbn>>
        /\ writerPc[t] = "print" /\ writerPc'[t] = "load"
        /\ \A u \in Writers : u # t => writerPc'[u] = writerPc[u]
    BY <1>2, <1>10 DEF PrintMsg, Goto, Intact
  <2>3. Taken = Len(file) /\ Taken' = Len(file') - 1
    BY <2>1, <2>2 DEF Taken, InRecord
  <2>4. Taken' = Taken /\ Cursor' = Cursor
    BY <1>4, <2>2, <2>3 DEF Cursor
  <2> QED BY <1>3, <1>6, <2>2, <2>4
<1>11. CASE Load(t)
  <2>1. Taken' = Taken /\ Cursor' = Cursor
    BY <1>11 DEF Load, Goto, Taken, Cursor
  <2> QED BY <1>3, <1>6, <1>11, <2>1 DEF Load, Goto
<1>12. CASE Store(t)
  <2>1. \A u \in Writers : u # t => ~InRecord(u)
    BY <1>5, <1>12 DEF Store
  <2>2. /\ m_pop' = m_pop + 1 /\ file' = file /\ Cursor = m_pop
        /\ writerPc[t] = "store" /\ writerPc'[t] \in {"wrap", "while"}
        /\ \A u \in Writers : u # t => writerPc'[u] = writerPc[u]
    BY <1>2, <1>5, <1>12 DEF Store, Goto, Intact, OneWriter
  <2>3. \A u \in Writers : writerPc'[u] \notin {"open", "print", "load", "store"}
    BY <2>1, <2>2 DEF InRecord
  <2>4. Taken' = Taken + 1
    BY <1>4, <2>2, <2>3 DEF Taken
  <2>5. Cursor' = IF Cursor + 1 = m_qSize THEN 0 ELSE Cursor + 1
    BY <2>2 DEF Cursor
  <2>6. Waiting > 0 /\ Waiting' = Waiting - 1
    BY <1>2, <1>3, <1>4, <2>2, <2>4 DEF Waiting
  <2>7. \A k \in 0 .. m_qSize - 1 : k + 1 < m_qSize => Slot(Cursor' + k) = Slot(Cursor + (k + 1))
    BY <1>4, <2>5, SlotShifts
  <2>8. m_push' = Slot(Cursor' + Waiting')
    <3>1. Waiting - 1 \in 0 .. m_qSize - 1 /\ (Waiting - 1) + 1 = Waiting /\ Waiting < m_qSize
      BY <1>3, <2>6, Sizes
    <3>2. Slot(Cursor' + (Waiting - 1)) = Slot(Cursor + Waiting)
      BY <2>7, <3>1
    <3> QED BY <1>2, <1>3, <2>6, <3>2
  <2>9. \A k \in 0 .. m_qSize - 1 : k < Waiting' =>
           m_MsgRec'[Slot(Cursor' + k)] = [msgGbn |-> Taken' + k + 1, msg |-> Taken' + k + 1]
    <3> SUFFICES ASSUME NEW k \in 0 .. m_qSize - 1, k < Waiting - 1
                 PROVE  m_MsgRec[Slot(Cursor' + k)] = [msgGbn |-> Taken + 1 + k + 1, msg |-> Taken + 1 + k + 1]
      BY <1>2, <2>4, <2>6
    <3>1. k + 1 \in 0 .. m_qSize - 1 /\ k + 1 < Waiting /\ k + 1 < m_qSize
      BY <1>3, Sizes
    <3>2. m_MsgRec[Slot(Cursor + (k + 1))]
            = [msgGbn |-> Taken + (k + 1) + 1, msg |-> Taken + (k + 1) + 1]
      BY <1>3, <3>1
    <3>3. Taken + (k + 1) + 1 = Taken + 1 + k + 1
      BY <1>3
    <3> QED BY <2>7, <3>1, <3>2, <3>3
  <2>10. Taken' \in Nat /\ Waiting' \in 0 .. m_qSize - 1
    BY <1>3, <2>4, <2>6, Sizes
  <2> QED BY <2>3, <2>8, <2>9, <2>10 DEF RingHolds, Slot
<1>13. CASE Wrap(t)
  <2>1. Taken' = Taken
    BY <1>13 DEF Wrap, Goto, Taken
  <2>2. m_pop = m_qSize /\ m_pop' = 0
    BY <1>2, <1>13 DEF Wrap, OneWriter, Intact
  <2>3. Cursor' = Cursor
    BY <2>2, Sizes DEF Cursor
  <2> QED BY <1>6, <1>13, <2>1, <2>3 DEF Wrap, Goto
<1>14. CASE t = "log" /\ Wake
  <2>1. Taken' = Taken /\ Cursor' = Cursor
    BY <1>14 DEF Wake, Goto, Taken, Cursor
  <2> QED BY <1>6, <1>14, <2>1 DEF Wake, Goto
<1> QED BY <1>7, <1>8, <1>9, <1>10, <1>11, <1>12, <1>13, <1>14 DEF WriterStep, WriteMessage

(* The message printed is the next one, under its own kind. *)
LEMMA WriterKeepsFile ==
  ASSUME TypeInv, OneWriter, RingHolds, FileInOrder,
         NEW t \in Writers, WriterStep(t), UNCHANGED <<pushVars, due>>
  PROVE  FileInOrder'
<1> USE DEF TypeInv, TypeOK
<1>1. SUFFICES ASSUME Intact' PROVE FileInOrder'
  BY DEF FileInOrder
<1>2. Intact
  BY <1>1 DEF Intact, pushVars, WriterStep, WriteMessage, While, Stray, Open, PrintMsg, Load, Store,
              Wrap, Wake
<1>3. CASE PrintMsg(t)
  <2>1. /\ writerPc[t] = "print"
        /\ file' = Append(file, [msgGbn |-> gbn[t], msg |-> m_MsgRec[m_pop].msg])
    BY <1>2, <1>3 DEF PrintMsg, Intact
  <2>2. /\ m_pop \in Index /\ Cursor = m_pop
        /\ \A u \in Writers : u # t => ~InRecord(u)
    BY <1>2, <2>1, CursorInRing DEF Intact
  <2>3. Waiting > 0 /\ gbn[t] = Taken + 1 /\ Taken \in Nat
    BY <1>2, <2>1 DEF RingHolds
  <2>4. m_MsgRec[m_pop] = [msgGbn |-> Taken + 1, msg |-> Taken + 1]
    BY <1>2, <2>2, <2>3, NextInRecord
  <2>5. Taken = Len(file)
    BY <2>1, <2>2 DEF Taken, InRecord
  <2>6. file' = Append(file, [msgGbn |-> Len(file) + 1, msg |-> Len(file) + 1])
    BY <2>1, <2>3, <2>4, <2>5
  <2>7. file = [n \in 1 .. Len(file) |-> [msgGbn |-> n, msg |-> n]]
    BY <1>2 DEF FileInOrder
  <2> DEFINE next == [msgGbn |-> Len(file) + 1, msg |-> Len(file) + 1]
  <2>8. file \in Seq([msgGbn : Messages, msg : Messages]) /\ Len(file) \in Nat
    OBVIOUS
  <2>9. Append(file, next) = [n \in 1 .. Len(file) + 1 |-> IF n = Len(file) + 1 THEN next ELSE file[n]]
    BY <2>8
  <2>10. Len(file') = Len(file) + 1
    BY <2>6, <2>8
  <2>11. \A n \in 1 .. Len(file) : file[n] = [msgGbn |-> n, msg |-> n]
    BY <2>7
  <2>12. \A n \in 1 .. Len(file) + 1 :
           (IF n = Len(file) + 1 THEN next ELSE file[n]) = [msgGbn |-> n, msg |-> n]
    <3> SUFFICES ASSUME NEW n \in 1 .. Len(file) + 1
                 PROVE  (IF n = Len(file) + 1 THEN next ELSE file[n]) = [msgGbn |-> n, msg |-> n]
      OBVIOUS
    <3>1. CASE n = Len(file) + 1
      BY <3>1
    <3>2. CASE n # Len(file) + 1
      <4>1. n \in 1 .. Len(file)
        BY <2>8, <3>2
      <4> QED BY <2>11, <3>2, <4>1
    <3> QED BY <3>1, <3>2
  <2>13. [n \in 1 .. Len(file) + 1 |-> IF n = Len(file) + 1 THEN next ELSE file[n]]
           = [n \in 1 .. Len(file) + 1 |-> [msgGbn |-> n, msg |-> n]]
    BY <2>12
  <2>14. file' = [n \in 1 .. Len(file') |-> [msgGbn |-> n, msg |-> n]]
    BY <2>6, <2>9, <2>10, <2>13
  <2> QED BY <2>14 DEF FileInOrder
<1>4. CASE file' = file
  BY <1>2, <1>4 DEF FileInOrder
<1>5. PrintMsg(t) \/ file' = file
  BY DEF WriterStep, WriteMessage, While, Stray, Open, PrintMsg, Load, Store, Wrap, Wake
<1> QED BY <1>3, <1>4, <1>5

(* The destructor goes on when nothing waits: what was pushed before it    *)
(* began has been taken.                                                   *)
LEMMA WriterKeepsExit ==
  ASSUME TypeInv, OneWriter, RingHolds, ExitAfterDue, writerPc["main"] # "gone",
         NEW t \in Writers, WriterStep(t), UNCHANGED <<pushVars, due>>
  PROVE  ExitAfterDue'
<1> USE DEF TypeInv, TypeOK
<1>1. SUFFICES ASSUME writerPc'["main"] = "gone", Intact' PROVE Len(file') >= due'
  BY DEF ExitAfterDue, FlushedAtExit, pushVars, Intact
<1>2. Intact
  BY <1>1 DEF Intact, pushVars, WriterStep, WriteMessage, While, Stray, Open, PrintMsg, Load, Store,
              Wrap, Wake
<1>3. While(t) /\ t = "main" /\ m_pop = m_push /\ file' = file
  BY <1>1 DEF WriterStep, WriteMessage, While, Stray, Open, PrintMsg, Load, Store, Wrap, Wake, Goto, Writers
<1>4. m_pop \in Index /\ Cursor = m_pop
  BY <1>3, Sizes DEF Index, Cursor
<1>5. /\ Taken \in Nat /\ Waiting \in 0 .. m_qSize - 1 /\ m_push = Slot(Cursor + Waiting)
  BY <1>2 DEF RingHolds
<1>6. Waiting = 0
  <2>1. 0 \in 0 .. m_qSize - 1 /\ Slot(Cursor + 0) = Cursor
    BY <1>4, Sizes, SlotOfCursor
  <2> QED BY <1>3, <1>4, <1>5, <2>1, SlotsDiffer
<1>7. Len(file) \in Nat /\ Taken <= Len(file)
  BY DEF Taken
<1>8. pushed \in Nat /\ due \in Nat /\ due <= pushed
  BY Sizes DEF Messages, ExitAfterDue
<1>9. pushed = Taken
  BY <1>5, <1>6, <1>8 DEF Waiting
<1> QED BY <1>3, <1>5, <1>7, <1>8, <1>9

-----------------------------------------------------------------------------
LEMMA InitEstablishes == Init => LogInv
<1> SUFFICES ASSUME Init PROVE LogInv
  OBVIOUS
<1> USE Sizes DEF Init
<1>1. TypeOK
  <2>1. 0 \in Messages /\ 0 \in 0 .. m_qSize + 2
    BY DEF Messages
  <2>2. [msgGbn |-> 0, msg |-> 0] \in [msgGbn : Messages, msg : Messages]
    BY <2>1
  <2>3. m_MsgRec \in [Index -> [msgGbn : Messages, msg : Messages]]
    BY <2>2
  <2>4. <<>> \in Seq([msgGbn : Messages, msg : Messages])
    OBVIOUS
  <2> QED BY <2>1, <2>3, <2>4 DEF TypeOK, Writers
<1>2. CursorIsNear
  BY DEF CursorIsNear
<1>3. PushUnderWay /\ OneWriter
  BY DEF PushUnderWay, OneWriter, InRecord
<1>4. Taken = 0 /\ Waiting = 0 /\ Cursor = 0
  <2>1. ~\E t \in Writers : writerPc[t] \in {"load", "store"}
    OBVIOUS
  <2>2. Len(file) = 0
    OBVIOUS
  <2>3. Taken = 0
    BY <2>1, <2>2 DEF Taken
  <2> QED BY <2>3 DEF Waiting, Cursor
<1>5. RingHolds
  BY <1>4 DEF RingHolds, Slot
<1>6. FileInOrder
  <2>1. Len(file) = 0
    OBVIOUS
  <2>2. [n \in 1 .. 0 |-> [msgGbn |-> n, msg |-> n]] = <<>>
    OBVIOUS
  <2> QED BY <2>1, <2>2 DEF FileInOrder
<1>7. ExitAfterDue
  BY DEF ExitAfterDue, FlushedAtExit
<1> QED BY <1>1, <1>2, <1>3, <1>5, <1>6, <1>7 DEF LogInv, TypeInv

LEMMA StepPreserves == LogInv /\ [Next]_vars => LogInv'
<1> SUFFICES ASSUME LogInv, [Next]_vars PROVE LogInv'
  OBVIOUS
<1> USE DEF LogInv
<1>1. TypeInv' /\ PushUnderWay' /\ OneWriter'
  BY StepTypes, PushUnderWayKept, OneWriterKept
<1>2. CASE Running /\ Push
  <2>1. RingHolds'
    BY <1>2, PushKeepsRing
  <2>2. UNCHANGED <<writerVars, due>> /\ (lapped => lapped') /\ pushed <= pushed'
    BY <1>2, PushSteps DEF Push, Publish, TypeInv, TypeOK, Messages
  <2>3. FileInOrder'
    BY <2>2 DEF FileInOrder, Intact, writerVars
  <2>4. due <= pushed /\ due \in Nat /\ pushed \in Nat /\ pushed' \in Nat
    BY <1>1, Sizes DEF ExitAfterDue, TypeInv, TypeOK, Messages
  <2>5. ExitAfterDue'
    BY <2>2, <2>4 DEF ExitAfterDue, FlushedAtExit, writerVars
  <2> QED BY <1>1, <2>1, <2>3, <2>5
<1>3. ASSUME Running, NEW t \in Writers, WriterStep(t), UNCHANGED <<pushVars, due>> PROVE LogInv'
  BY <1>1, <1>3, WriterKeepsRing, WriterKeepsFile, WriterKeepsExit DEF Running
<1>4. CASE Destroy
  <2>1. Taken' = Taken /\ Cursor' = Cursor
    BY <1>4 DEF Destroy, Goto, Taken, Cursor
  <2>2. Waiting' = Waiting
    BY <1>4, <2>1 DEF Waiting, Destroy, pushVars
  <2>3. RingHolds'
    BY <1>4, <2>1, <2>2 DEF RingHolds, Intact, Slot, Destroy, Goto, pushVars
  <2>4. FileInOrder'
    BY <1>4 DEF Destroy, FileInOrder, Intact, pushVars
  <2>5. writerPc'["main"] # "gone"
    BY <1>4 DEF Destroy, Goto, TypeInv, TypeOK, Writers
  <2>6. ExitAfterDue'
    BY <1>4, <2>5, Sizes DEF Destroy, ExitAfterDue, FlushedAtExit, pushVars, TypeInv, TypeOK, Messages
  <2> QED BY <1>1, <2>3, <2>4, <2>6
<1>5. CASE UNCHANGED vars
  BY <1>1, <1>5 DEF vars, pushVars, writerVars, RingHolds, Intact, Taken, Waiting, Cursor, Slot,
                    FileInOrder, ExitAfterDue, FlushedAtExit
<1>6. Log => \E t \in Writers : WriterStep(t) /\ UNCHANGED <<pushVars, due>>
  BY DEF Log, WriterStep, Writers
<1>7. Main => Destroy \/ \E t \in Writers : WriterStep(t) /\ UNCHANGED <<pushVars, due>>
  BY DEF Main, WriterStep, Writers
<1> QED BY <1>2, <1>3, <1>4, <1>5, <1>6, <1>7 DEF Next, Over

THEOREM LogInvariant == Spec => []LogInv
BY InitEstablishes, StepPreserves, PTL DEF Spec

-----------------------------------------------------------------------------
(* Whatever the two writers do to each other, the cursor is never more     *)
(* than two records past the ring, and every record holds numbers of       *)
(* messages.                                                               *)
THEOREM LogTypeCorrect == Spec => []TypeOK
BY LogInvariant, PTL DEF LogInv, TypeInv

(* The file holds the messages in the order of their pushes, each once and *)
(* under its own kind, and no writer leaves the ring, as long as the ring  *)
(* did not fill up and the writers did not meet.                           *)
THEOREM LogIsFaithful == Spec => []FileIsFaithful
<1>1. LogInv => FileIsFaithful
  BY DEF LogInv, OneWriter, FileInOrder, Intact, FileIsFaithful
<1> QED BY <1>1, LogInvariant, PTL

(* What was pushed before the destructor began is in the file when it      *)
(* returns, under the same conditions.                                     *)
THEOREM LogIsFlushed == Spec => []FlushedAtExit
BY LogInvariant, PTL DEF LogInv, ExitAfterDue
=============================================================================
