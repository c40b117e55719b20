---------------------------- MODULE DBAgentPool ----------------------------
(***************************************************************************)
(* The database agents of one database (CMRAgtMgr, src_c/Admin/            *)
(* MRAgtMgr.cpp) and the two procedures that borrow one of them for a      *)
(* query rule (CMRQryRun, src_c/Runner/MRQryRun.cpp).                      *)
(*                                                                         *)
(* getAgent keeps m_CSectCtx locked while it looks round the agents, and   *)
(* also while it sleeps between two rounds, until it finds a free one or   *)
(* gives up.  freeAgent takes no lock.                                     *)
(***************************************************************************)
EXTENDS Integers, FiniteSets

CONSTANTS
  Threads,       (* the worker threads                                      *)
  m_DBAgtCnt,    (* agents of the database                                  *)
  MaxRounds,     (* CTX_TIMEOUT / INCTIME: sleeps before getAgent gives up  *)
  Rules          (* ids of query rules                                      *)

ASSUME DBAgentPoolAssumption ==
  /\ m_DBAgtCnt \in Nat \ {0}
  /\ MaxRounds \in Nat
  /\ Rules \subseteq Nat \ {0} /\ Rules # {}

Agents == 0 .. m_DBAgtCnt - 1

(* For operators with a suffix, such as Sleep_Forever, see SocketQueue.    *)

VARIABLES
  free,       (* m_DBAgent[i].free                                          *)
  ruleId,     (* m_DBAgent[i].ruleId, 0 for none                            *)
  m_stIdx,    (* the agent looked at last; every search goes on from here   *)
  lock,       (* the threads that hold m_CSectCtx                           *)
  j,          (* agents the holder has looked at in this round              *)
  waittime,   (* rounds it has slept                                        *)
  pc,         (* where each thread is                                       *)
  rule,       (* the rule each thread evaluates and whether it is a query   *)
              (*   or an insert, update or delete ("CUD")                   *)
  IdxAgt,     (* the agent getAgent returned to it, -1 for none             *)
  cursor,     (* the agents whose cursor is open                            *)
  wild,       (* an agent that does not exist has been used                 *)
  idleSince   (* history: agents free since the holder's round began        *)

agentVars == <<free, ruleId>>
scanVars  == <<m_stIdx, lock, j, waittime, idleSince>>
vars == <<agentVars, scanVars, pc, rule, IdxAgt, cursor, wild>>

Kinds == {"query", "CUD"}
Steps == {"idle", "lock", "scan", "mark", "open", "fetch", "row", "shut", "exec", "close", "free"}

TypeOK ==
  /\ free \in [Agents -> BOOLEAN]
  /\ ruleId \in [Agents -> Rules \cup {0}]
  /\ m_stIdx \in Agents
  /\ lock \in SUBSET Threads
  /\ j \in 0 .. m_DBAgtCnt
  /\ waittime \in 0 .. MaxRounds
  /\ pc \in [Threads -> Steps]
  /\ rule \in [Threads -> [id : Rules, kind : Kinds]]
  /\ IdxAgt \in [Threads -> Agents \cup {-1}]
  /\ cursor \in SUBSET Agents
  /\ wild \in BOOLEAN
  /\ idleSince \in SUBSET Agents

Init ==
  /\ free = [i \in Agents |-> TRUE]
  /\ ruleId = [i \in Agents |-> 0]
  /\ m_stIdx = 0
  /\ lock = {}
  /\ j = 0
  /\ waittime = 0
  /\ pc = [t \in Threads |-> "idle"]
  /\ rule = [t \in Threads |-> [id |-> CHOOSE r \in Rules : TRUE, kind |-> "query"]]
  /\ IdxAgt = [t \in Threads |-> -1]
  /\ cursor = {}
  /\ wild = FALSE
  /\ idleSince = {}

Goto(t, l) == pc' = [pc EXCEPT ![t] = l]

-----------------------------------------------------------------------------
(* ExecuteDynamicSql: a query rule is evaluated. *)
Start(t) ==
  /\ pc[t] = "idle"
  /\ \E r \in Rules, k \in Kinds : rule' = [rule EXCEPT ![t] = [id |-> r, kind |-> k]]
  /\ Goto(t, "lock")
  /\ UNCHANGED <<agentVars, scanVars, IdxAgt, cursor, wild>>

(* getAgent. *)
Lock(t) ==
  /\ pc[t] = "lock"
  /\ lock = {}
  /\ lock' = {t}
  /\ j' = 0
  /\ waittime' = 0
  /\ idleSince' = {i \in Agents : free[i]}
  /\ Goto(t, "scan")
  /\ UNCHANGED <<agentVars, m_stIdx, rule, IdxAgt, cursor, wild>>

NextIdx_Short == IF m_stIdx + 1 >= m_DBAgtCnt - 1 THEN 0 ELSE m_stIdx + 1
NextIdx == IF m_stIdx + 1 = m_DBAgtCnt THEN 0 ELSE m_stIdx + 1

Look(t) ==
  /\ pc[t] = "scan"
  /\ j < m_DBAgtCnt
  /\ m_stIdx' = NextIdx
  /\ IF free[NextIdx]
       THEN Goto(t, "mark") /\ UNCHANGED j
       ELSE j' = j + 1 /\ UNCHANGED pc
  /\ UNCHANGED <<agentVars, lock, waittime, idleSince, rule, IdxAgt, cursor, wild>>

Sleep_Forever(t) ==
  /\ pc[t] = "scan"
  /\ j = m_DBAgtCnt
  /\ j' = 0
  /\ idleSince' = {i \in Agents : free[i]}
  /\ UNCHANGED <<agentVars, m_stIdx, lock, waittime, pc, rule, IdxAgt, cursor, wild>>
Sleep(t) ==
  /\ pc[t] = "scan"
  /\ j = m_DBAgtCnt
  /\ waittime < MaxRounds
  /\ j' = 0
  /\ waittime' = waittime + 1
  /\ idleSince' = {i \in Agents : free[i]}
  /\ UNCHANGED <<agentVars, m_stIdx, lock, pc, rule, IdxAgt, cursor, wild>>

(* getAgent returns -1.  Only ExecuteDynamicSqlProc looks at the result.   *)
TimeOut(t) ==
  /\ pc[t] = "scan"
  /\ j = m_DBAgtCnt
  /\ waittime = MaxRounds
  /\ lock' = lock \ {t}
  /\ IdxAgt' = [IdxAgt EXCEPT ![t] = -1]
  /\ Goto(t, IF rule[t].kind = "query" THEN "idle" ELSE "exec")
  /\ UNCHANGED <<agentVars, m_stIdx, j, waittime, idleSince, rule, cursor, wild>>

(* The agent is taken and getAgent returns it. *)
Mark(t) ==
  /\ pc[t] = "mark"
  /\ free' = [free EXCEPT ![m_stIdx] = FALSE]
  /\ ruleId' = [ruleId EXCEPT ![m_stIdx] = rule[t].id]
  /\ idleSince' = idleSince \ {m_stIdx}
  /\ IdxAgt' = [IdxAgt EXCEPT ![t] = m_stIdx]
  /\ lock' = lock \ {t}
  /\ Goto(t, IF rule[t].kind = "query" THEN "open" ELSE "exec")
  /\ UNCHANGED <<m_stIdx, j, waittime, rule, cursor, wild>>

-----------------------------------------------------------------------------
(* ExecuteDynamicSqlProc.  A cursor that cannot be opened is not closed:   *)
(* the agent goes back at once, and the rule has failed.                   *)
CursorOpen(t) ==
  /\ pc[t] = "open"
  /\ \/ cursor' = cursor \cup {IdxAgt[t]} /\ Goto(t, "fetch")
     \/ Goto(t, "close") /\ UNCHANGED cursor
  /\ UNCHANGED <<agentVars, scanVars, rule, IdxAgt, wild>>

(* A row comes, or the fetch fails, there are no more rows or there are as *)
(* many as the rule may have.                                              *)
CursorFetch(t) ==
  /\ pc[t] = "fetch"
  /\ Goto(t, "row") \/ Goto(t, "shut")
  /\ UNCHANGED <<agentVars, scanVars, rule, IdxAgt, cursor, wild>>

(* Slip: what createRecord throws is not caught here.                      *)
CreateRecord_Throws(t) ==
  /\ pc[t] = "row"
  /\ \/ Goto(t, "fetch") /\ UNCHANGED IdxAgt
     \/ Goto(t, "idle") /\ IdxAgt' = [IdxAgt EXCEPT ![t] = -1]
  /\ UNCHANGED <<agentVars, scanVars, rule, cursor, wild>>

(* The row becomes a record, or its memory cannot be allocated, which is   *)
(* caught and ends the loop.                                               *)
CreateRecord(t) ==
  /\ pc[t] = "row"
  /\ Goto(t, "fetch") \/ Goto(t, "shut")
  /\ UNCHANGED <<agentVars, scanVars, rule, IdxAgt, cursor, wild>>

(* Whatever ended the loop; an error is thrown after freeAgent.            *)
CursorClose(t) ==
  /\ pc[t] = "shut"
  /\ cursor' = cursor \ {IdxAgt[t]}
  /\ Goto(t, "close")
  /\ UNCHANGED <<agentVars, scanVars, rule, IdxAgt, wild>>

(* ExecuteDynamicSqlCUDProc looks at the result after freeAgent only.      *)
ExecCUD(t) ==
  /\ pc[t] = "exec"
  /\ IdxAgt[t] # -1
  /\ Goto(t, "close")
  /\ UNCHANGED <<agentVars, scanVars, rule, IdxAgt, cursor, wild>>

(* It goes on with m_DBAgent[-1] if it got none. *)
ExecNone(t) ==
  /\ pc[t] = "exec"
  /\ IdxAgt[t] = -1
  /\ wild' = TRUE
  /\ UNCHANGED <<agentVars, scanVars, pc, rule, IdxAgt, cursor>>

(* freeAgent, its two assignments in their order. *)
ForgetRule(t) ==
  /\ pc[t] = "close"
  /\ ruleId' = [ruleId EXCEPT ![IdxAgt[t]] = 0]
  /\ Goto(t, "free")
  /\ UNCHANGED <<free, scanVars, rule, IdxAgt, cursor, wild>>

FreeAgent(t) ==
  /\ pc[t] = "free"
  /\ free' = [free EXCEPT ![IdxAgt[t]] = TRUE]
  /\ IdxAgt' = [IdxAgt EXCEPT ![t] = -1]
  /\ Goto(t, "idle")
  /\ UNCHANGED <<ruleId, scanVars, rule, cursor, wild>>

Thread(t) ==
  \/ Start(t)
  \/ Lock(t) \/ Look(t) \/ Sleep(t) \/ TimeOut(t) \/ Mark(t)
  \/ CursorOpen(t) \/ CursorFetch(t) \/ CreateRecord(t) \/ CursorClose(t)
  \/ ExecCUD(t) \/ ExecNone(t) \/ ForgetRule(t) \/ FreeAgent(t)

Next ==
  \/ ~wild /\ \E t \in Threads : Thread(t)
  \/ wild /\ UNCHANGED vars

Spec == Init /\ [][Next]_vars

(* A thread in getAgent or freeAgent is scheduled.  Nothing is assumed of  *)
(* the database: a statement may take for ever.                            *)
Search(t) == Look(t) \/ Sleep(t) \/ TimeOut(t) \/ Mark(t)

FairSpec ==
  /\ Spec
  /\ \A t \in Threads : WF_vars(~wild /\ (Search(t) \/ ForgetRule(t) \/ FreeAgent(t)))

-----------------------------------------------------------------------------
Fetching(t) == pc[t] \in {"fetch", "row", "shut"}
Using(t) == Fetching(t) \/ (pc[t] \in {"open", "exec", "close", "free"} /\ IdxAgt[t] # -1)

(* An agent that is not free is in the hands of exactly one thread: none   *)
(* is given to two threads and none is lost on any of the ways out of a    *)
(* query, although freeAgent runs outside the lock.  A cursor is open      *)
(* exactly where rows are fetched: it is closed once on every way out that *)
(* has opened it, and none goes back with its agent (MRAgtMgr.cpp:280-287, *)
(* MRQryRun.cpp:213-292, 323-327).                                         *)
AgentsPrivate ==
  /\ \A i \in Agents :
       Cardinality({t \in Threads : Using(t) /\ IdxAgt[t] = i}) = IF free[i] THEN 0 ELSE 1
  /\ cursor = {IdxAgt[t] : t \in {u \in Threads : Fetching(u)}}

(* A round that found nothing has looked at every agent, wherever m_stIdx  *)
(* stood: no agent that was free all the time is missed and getAgent does  *)
(* not time out while one is (MRAgtMgr.cpp:256, 278-282).                  *)
RoundMissesNone ==
  \A t \in lock : pc[t] = "scan" /\ j = m_DBAgtCnt => idleSince = {}

(* getAgent gives the lock back whatever the database does: it is held     *)
(* through the sleeps, so without the timeout one hanging statement per    *)
(* agent would stop every thread that needs the database                   *)
(* (MRAgtMgr.cpp:250-291).                                                 *)
LockIsReturned ==
  \A t \in Threads : t \in lock ~> t \notin lock \/ wild
=============================================================================
