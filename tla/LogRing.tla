------------------------------ MODULE LogRing ------------------------------
(***************************************************************************)
(* The log of the agent (CBREXLog, src_c/Admin/BREXLog.cpp): a ring of     *)
(* m_qSize records.  Any thread pushes a message, under m_LogCSect; the    *)
(* log thread takes the records out and writes them to a file, without the *)
(* lock.  A full ring is not detected: the push that makes m_push meet     *)
(* m_pop makes the ring look empty.  When the process ends the destructor  *)
(* empties the ring too, while the log thread still runs.                  *)
(*                                                                         *)
(* Messages are numbered in the order of their pushes.  A record is the    *)
(* pair of the message its msgGbn (the file it belongs in) and the message *)
(* its text comes from.                                                    *)
(***************************************************************************)
EXTENDS Integers, Sequences

CONSTANTS
  m_qSize,      (* records in the ring: 500 at least in the code            *)
  MaxMessages   (* bound of the model: messages pushed                      *)

ASSUME LogRingAssumption ==
  /\ m_qSize \in Nat /\ m_qSize > 1
  /\ MaxMessages \in Nat

VARIABLES
  m_MsgRec,   (* the records                                                *)
  m_push,     (* where the next message goes                                *)
  m_pop,      (* the next record to write; m_qSize for a moment (see Store) *)
  pushPc,     (* how far the push under way is, in the critical section     *)
  pushed,     (* messages pushed so far                                     *)
  writerPc,   (* where the two threads that may run WriteMessage are:       *)
              (*   the log thread, and main in the destructor               *)
  gbn,        (* the msgGbn each writer has read, which names its file      *)
  popped,     (* the value of ++m_pop each writer has computed              *)
  file,       (* what has been written, in this order; kept only until the  *)
              (*   two writers meet, after which nothing is promised of it  *)
  wild,       (* a writer has read outside the ring                         *)
  lapped,     (* history: a push made m_push meet m_pop                     *)
  overlap,    (* history: both writers were at a record at once            *)
  due         (* history: messages pushed when the destructor began         *)

pushVars   == <<m_MsgRec, m_push, pushPc, pushed, lapped>>
writerVars == <<m_pop, writerPc, gbn, popped, file, wild, overlap>>
vars == <<pushVars, writerVars, due>>

Writers  == {"log", "main"}
Index    == 0 .. m_qSize - 1
Messages == 0 .. MaxMessages      (* 0 is a record nobody has filled *)

TypeOK ==
  /\ m_MsgRec \in [Index -> [msgGbn : Messages, msg : Messages]]
  /\ m_push \in Index
  /\ m_pop \in 0 .. m_qSize + 2
  /\ pushPc \in {"unlocked", "gbn", "msg"}
  /\ pushed \in Messages
  /\ writerPc \in [Writers -> {"out", "while", "open", "print", "load", "store", "wrap", "gone"}]
  /\ gbn \in [Writers -> Messages]
  /\ popped \in [Writers -> 0 .. m_qSize + 2]
  /\ file \in Seq([msgGbn : Messages, msg : Messages])
  /\ wild \in BOOLEAN /\ lapped \in BOOLEAN /\ overlap \in BOOLEAN
  /\ due \in Messages

Init ==
  /\ m_MsgRec = [i \in Index |-> [msgGbn |-> 0, msg |-> 0]]
  /\ m_push = 0 /\ m_pop = 0
  /\ pushPc = "unlocked"
  /\ pushed = 0
  /\ writerPc = [t \in Writers |-> "out"]
  /\ gbn = [t \in Writers |-> 0]
  /\ popped = [t \in Writers |-> 0]
  /\ file = <<>>
  /\ wild = FALSE /\ lapped = FALSE /\ overlap = FALSE
  /\ due = 0

-----------------------------------------------------------------------------
NextPush == IF m_push + 1 = m_qSize THEN 0 ELSE m_push + 1

(* The record is published before it is filled. *)
PushGbn_Publishes ==
  /\ pushPc = "unlocked"
  /\ pushed < MaxMessages
  /\ m_push' = NextPush
  /\ pushed' = pushed + 1
  /\ m_MsgRec' = [m_MsgRec EXCEPT ![m_push].msgGbn = pushed + 1]
  /\ UNCHANGED <<pushPc, lapped>>

(* pushMessage and pushMessageIP, between Lock and Unlock. *)
PushGbn ==
  /\ pushPc = "unlocked"
  /\ pushed < MaxMessages
  /\ m_MsgRec' = [m_MsgRec EXCEPT ![m_push].msgGbn = pushed + 1]
  /\ pushPc' = "gbn"
  /\ UNCHANGED <<m_push, pushed, lapped>>

PushMsg ==
  /\ pushPc = "gbn"
  /\ m_MsgRec' = [m_MsgRec EXCEPT ![m_push].msg = pushed + 1]
  /\ pushPc' = "msg"
  /\ UNCHANGED <<m_push, pushed, lapped>>

Publish ==
  /\ pushPc = "msg"
  /\ m_push' = NextPush
  /\ pushed' = pushed + 1
  /\ pushPc' = "unlocked"
  /\ lapped' = (lapped \/ NextPush = m_pop \/ (NextPush = 0 /\ m_pop = m_qSize))
  /\ UNCHANGED m_MsgRec

Push ==
  /\ PushGbn \/ PushMsg \/ Publish
  /\ UNCHANGED <<writerVars, due>>

-----------------------------------------------------------------------------
Goto(t, pc) == writerPc' = [writerPc EXCEPT ![t] = pc]

Wake_IfBehind ==
  /\ writerPc["log"] = "out"
  /\ m_pop < m_push
  /\ Goto("log", "while")
  /\ UNCHANGED <<m_pop, gbn, popped, file, wild, overlap>>

(* The log thread wakes up every 0.1 s and looks into the ring.            *)
Wake ==
  /\ writerPc["log"] = "out"
  /\ m_pop # m_push
  /\ Goto("log", "while")
  /\ UNCHANGED <<m_pop, gbn, popped, file, wild, overlap>>

InRecord(t) == writerPc[t] \in {"open", "print", "load", "store", "wrap"}

(* WriteMessage: the head of its loop.  The destructor goes on to cancel   *)
(* the log thread, the log thread to sleep.                                *)
While(t) ==
  /\ writerPc[t] = "while"
  /\ IF m_pop # m_push
       THEN /\ Goto(t, "open")
            /\ overlap' = (overlap \/ \E u \in Writers \ {t} : InRecord(u))
       ELSE /\ Goto(t, IF t = "main" THEN "gone" ELSE "out")
            /\ UNCHANGED overlap
  /\ UNCHANGED <<m_pop, gbn, popped, file, wild>>

(* A record outside the ring is read: anything can follow. *)
Stray(t) ==
  /\ writerPc[t] \in {"open", "print"}
  /\ m_pop \notin Index
  /\ wild' = TRUE
  /\ UNCHANGED <<m_pop, writerPc, gbn, popped, file, overlap>>

(* msgGbn names the file, which is opened for appending. *)
Open(t) ==
  /\ writerPc[t] = "open"
  /\ m_pop \in Index
  /\ gbn' = [gbn EXCEPT ![t] = m_MsgRec[m_pop].msgGbn]
  /\ Goto(t, "print")
  /\ UNCHANGED <<m_pop, popped, file, wild, overlap>>

PrintMsg(t) ==
  /\ writerPc[t] = "print"
  /\ m_pop \in Index
  /\ file' = IF overlap THEN file
             ELSE Append(file, [msgGbn |-> gbn[t], msg |-> m_MsgRec[m_pop].msg])
  /\ Goto(t, "load")
  /\ UNCHANGED <<m_pop, gbn, popped, wild, overlap>>

(* "if (++m_pop == m_qSize) m_pop = 0" with m_pop in memory: load, store,  *)
(* and a second store when the end has been reached.                       *)
Load(t) ==
  /\ writerPc[t] = "load"
  /\ popped' = [popped EXCEPT ![t] = m_pop + 1]
  /\ Goto(t, "store")
  /\ UNCHANGED <<m_pop, gbn, file, wild, overlap>>

Store(t) ==
  /\ writerPc[t] = "store"
  /\ m_pop' = popped[t]
  /\ Goto(t, IF popped[t] = m_qSize THEN "wrap" ELSE "while")
  /\ UNCHANGED <<gbn, popped, file, wild, overlap>>

Wrap(t) ==
  /\ writerPc[t] = "wrap"
  /\ m_pop' = 0
  /\ Goto(t, "while")
  /\ UNCHANGED <<gbn, popped, file, wild, overlap>>

WriteMessage(t) ==
  While(t) \/ Stray(t) \/ Open(t) \/ PrintMsg(t) \/ Load(t) \/ Store(t) \/ Wrap(t)

Log ==
  /\ Wake \/ WriteMessage("log")
  /\ UNCHANGED <<pushVars, due>>

Destroy_NoFlush ==
  /\ writerPc["main"] = "out"
  /\ Goto("main", "gone")
  /\ due' = pushed
  /\ UNCHANGED <<m_pop, gbn, popped, file, wild, overlap, pushVars>>

(* delete g_pCBREXLog at the end of main: flush if there is something,     *)
(* then Terminate.                                                         *)
Destroy ==
  /\ writerPc["main"] = "out"
  /\ Goto("main", "while")
  /\ due' = pushed
  /\ UNCHANGED <<m_pop, gbn, popped, file, wild, overlap, pushVars>>

Main ==
  \/ Destroy
  \/ WriteMessage("main") /\ UNCHANGED <<pushVars, due>>

Running == ~wild /\ writerPc["main"] # "gone"

Over == ~Running /\ UNCHANGED vars

Next ==
  \/ Running /\ (Push \/ Log \/ Main)
  \/ Over

Spec == Init /\ [][Next]_vars

(* The log thread is scheduled; nobody has to log, and the agent need not  *)
(* end.                                                                    *)
FairSpec == Spec /\ WF_vars(Running /\ Log)

-----------------------------------------------------------------------------
(* As long as the two writers did not meet, the cursor stays inside the    *)
(* ring however fast the pushes come, and unless the ring filled up the    *)
(* file holds every message taken out of it once, in the order of the      *)
(* pushes, under its own kind, although the log thread reads the records   *)
(* without the lock (BREXLog.cpp:84, 126-191, 195-218).                    *)
FileIsFaithful ==
  ~overlap => /\ ~wild
              /\ ~lapped => file = [n \in 1 .. Len(file) |-> [msgGbn |-> n, msg |-> n]]

(* The destructor ends the log only after every message pushed before it   *)
(* began is in the file, under the same two conditions (BREXLog.cpp:83).   *)
FlushedAtExit ==
  writerPc["main"] = "gone" /\ ~lapped /\ ~overlap => Len(file) >= due

(* Every message gets into the file while the agent is up, unless the ring *)
(* filled up (BREXLog.cpp:92-108).                                         *)
EveryMessageWritten ==
  \A n \in 1 .. MaxMessages :
    pushed >= n ~> Len(file) >= n \/ lapped \/ writerPc["main"] # "out"
=============================================================================
