------------------------- MODULE DBAgentPoolProofs -------------------------
(***************************************************************************)
(* The database agents are lent correctly for every number of agents, of   *)
(* rounds, of query rules and for every set of worker threads.             *)
(***************************************************************************)
EXTENDS DBAgentPool, FiniteSetTheorems, TLAPS

(* m_CSectCtx is held by the thread inside getAgent, and by one only. *)
OneSearcher ==
  /\ \A t \in Threads : t \in lock <=> pc[t] \in {"scan", "mark"}
  /\ \A t, u \in lock : t = u

(* A thread has an agent, or -1, between getAgent and freeAgent only, and  *)
(* what it gives to freeAgent is an agent.                                 *)
IndexAtHand ==
  \A t \in Threads :
    /\ pc[t] \in {"idle", "lock", "scan", "mark"} => IdxAgt[t] = -1
    /\ pc[t] \in {"open", "fetch", "row", "shut", "close", "free"} => IdxAgt[t] # -1

(* The agent about to be taken is still free, though freeAgent and the     *)
(* rule evaluations go on beside getAgent.                                 *)
FoundStaysFree == \A t \in Threads : pc[t] = "mark" => free[m_stIdx]

(* The agents that are not free and the threads that use one are in        *)
(* one-to-one correspondence.                                              *)
BusyIsUsed ==
  /\ \A i \in Agents : ~free[i] => \E t \in Threads : Using(t) /\ IdxAgt[t] = i
  /\ \A t \in Threads : Using(t) => ~free[IdxAgt[t]]
  /\ \A t, u \in Threads : Using(t) /\ Using(u) /\ IdxAgt[t] = IdxAgt[u] => t = u

(* A cursor is open exactly where rows are fetched.                        *)
OpenIsFetching ==
  /\ \A i \in cursor : \E t \in Threads : Fetching(t) /\ IdxAgt[t] = i
  /\ \A t \in Threads : Fetching(t) => IdxAgt[t] \in cursor

(* How many agents ago, going round, getAgent looked at agent i. *)
StepsBack(i) == IF i <= m_stIdx THEN m_stIdx - i ELSE m_stIdx - i + m_DBAgtCnt

(* An agent free since the round began is free, and is not among the j     *)
(* agents looked at so far.                                                *)
IdleIsAhead ==
  /\ \A i \in idleSince : free[i]
  /\ \A t \in Threads : pc[t] = "scan" => \A i \in idleSince : StepsBack(i) >= j

(* m_DBAgent[i].ruleId is the rule of the thread that uses the agent until *)
(* that thread returns it, and 0 while nobody uses it.                     *)
MarkIsRule ==
  /\ \A t \in Threads : Using(t) =>
       ruleId[IdxAgt[t]] = IF pc[t] = "free" THEN 0 ELSE rule[t].id
  /\ \A i \in Agents : free[i] => ruleId[i] = 0

(* The inductive invariant.  AgentsPrivate is not inductive: Mark takes    *)
(* the agent without a second look at free, so nobody else may have come   *)
(* between, and freeAgent trusts its argument.                             *)
PoolInv ==
  /\ TypeOK
  /\ OneSearcher
  /\ IndexAtHand
  /\ FoundStaysFree
  /\ BusyIsUsed
  /\ OpenIsFetching
  /\ IdleIsAhead
  /\ MarkIsRule

-----------------------------------------------------------------------------
(* The search stays among the agents. *)
LEMMA NextIdxIsAgent == m_stIdx \in Agents => NextIdx \in Agents
BY DBAgentPoolAssumption DEF Agents, NextIdx

(* A step of the search leaves every agent but the one it looks at one     *)
(* step further behind.                                                    *)
LEMMA LookMovesOn ==
  ASSUME m_stIdx \in Agents, m_stIdx' = NextIdx,
         NEW i \in Agents, i # NextIdx
  PROVE  StepsBack(i)' = StepsBack(i) + 1
BY DBAgentPoolAssumption DEF Agents, NextIdx, StepsBack

(* A round as long as there are agents leaves nothing ahead. *)
LEMMA RoundIsComplete ==
  ASSUME m_stIdx \in Agents, NEW i \in Agents
  PROVE  StepsBack(i) < m_DBAgtCnt
BY DBAgentPoolAssumption DEF Agents, StepsBack

LEMMA AgentsAreIndices == Agents \subseteq Nat /\ 0 \in Agents /\ -1 \notin Agents
BY DBAgentPoolAssumption DEF Agents

-----------------------------------------------------------------------------
LEMMA InitEstablishes == Init => PoolInv
<1> SUFFICES ASSUME Init PROVE PoolInv
  OBVIOUS
<1>1. (CHOOSE r \in Rules : TRUE) \in Rules
  BY DBAgentPoolAssumption
<1>2. TypeOK
  <2>1. [id |-> CHOOSE r \in Rules : TRUE, kind |-> "query"] \in [id : Rules, kind : Kinds]
    BY <1>1 DEF Kinds
  <2>2. rule \in [Threads -> [id : Rules, kind : Kinds]]
    BY <2>1 DEF Init
  <2>3. 0 \in 0 .. m_DBAgtCnt /\ 0 \in 0 .. MaxRounds
    BY DBAgentPoolAssumption
  <2> QED BY <2>2, <2>3, AgentsAreIndices DEF Init, TypeOK, Steps
<1> QED BY <1>2 DEF Init, PoolInv, OneSearcher, IndexAtHand, FoundStaysFree, BusyIsUsed,
                    IdleIsAhead, MarkIsRule, OpenIsFetching, Using, Fetching

(* A step that opens and closes no cursor and leaves those that fetch.     *)
LEMMA FetchersStay ==
  ASSUME OpenIsFetching, cursor' = cursor,
         \A u \in Threads : /\ Fetching(u)' <=> Fetching(u)
                            /\ Fetching(u) => IdxAgt'[u] = IdxAgt[u]
  PROVE  OpenIsFetching'
BY DEF OpenIsFetching

(* A query rule is started, or the borrowed agent is used: nothing of the  *)
(* pool changes.                                                           *)
LEMMA StartPreserves ==
  ASSUME PoolInv, NEW t \in Threads, Start(t) PROVE PoolInv'
<1> USE DEF PoolInv
<1>1. /\ pc[t] = "idle" /\ pc' = [pc EXCEPT ![t] = "lock"]
      /\ UNCHANGED <<free, ruleId, m_stIdx, lock, j, waittime, idleSince, IdxAgt, cursor, wild>>
  BY DEF Start, Goto, agentVars, scanVars
<1>2. TypeOK'
  BY <1>1 DEF TypeOK, Steps, Start, Kinds
<1>3. pc \in [Threads -> Steps]
  BY DEF TypeOK
<1>4. \A u \in Threads : Using(u)' = Using(u)
  BY <1>1, <1>3 DEF Using, Fetching
<1>5. BusyIsUsed'
  BY <1>1, <1>4 DEF BusyIsUsed
<1>6. OneSearcher' /\ IndexAtHand' /\ FoundStaysFree'
  BY <1>1, <1>3 DEF OneSearcher, IndexAtHand, FoundStaysFree
<1>7. IdleIsAhead'
  BY <1>1, <1>3 DEF IdleIsAhead, StepsBack
<1>8. \A u \in Threads : u # t => rule'[u] = rule[u] /\ pc'[u] = pc[u]
  BY <1>1, <1>3 DEF Start, TypeOK
<1>9. ~Using(t)
  BY <1>1 DEF Using, Fetching
<1>10. MarkIsRule'
  BY <1>1, <1>4, <1>8, <1>9 DEF MarkIsRule
<1>11. OpenIsFetching'
  BY <1>1, <1>2, FetchersStay DEF Fetching, TypeOK, OneSearcher
<1> QED BY <1>11, <1>2, <1>5, <1>6, <1>7, <1>10

(* The agent is used, and stays with its thread whatever comes of it.      *)
LEMMA UsePreserves ==
  ASSUME PoolInv, NEW t \in Threads,
         CursorOpen(t) \/ CursorFetch(t) \/ CreateRecord(t) \/ CursorClose(t)
           \/ ExecCUD(t) \/ ExecNone(t)
  PROVE  PoolInv'
<1> USE DEF PoolInv
<1>1. /\ pc[t] \in {"open", "fetch", "row", "shut", "exec"}
      /\ \/ pc' = pc /\ pc[t] = "exec"
         \/ /\ \E l \in {"fetch", "row", "shut", "close"} : pc' = [pc EXCEPT ![t] = l]
            /\ IdxAgt[t] # -1
      /\ wild' \in BOOLEAN
      /\ UNCHANGED <<free, ruleId, m_stIdx, lock, j, waittime, idleSince, rule, IdxAgt>>
  BY DEF CursorOpen, CursorFetch, CreateRecord, CursorClose, ExecCUD, ExecNone, Goto,
         agentVars, scanVars, TypeOK, IndexAtHand
<1>2. /\ pc \in [Threads -> Steps] /\ cursor \in SUBSET Agents
      /\ IdxAgt \in [Threads -> Agents \cup {-1}]
  BY DEF TypeOK
<1>3. \A u \in Threads : u # t => pc'[u] = pc[u]
  BY <1>1, <1>2
<1>4. /\ pc'[t] \in {"fetch", "row", "shut", "exec", "close"}
      /\ pc'[t] # "exec" => IdxAgt[t] # -1
  BY <1>1, <1>2 DEF IndexAtHand
<1>5. \A u \in Threads : Using(u)' = Using(u)
  BY <1>1, <1>3, <1>4 DEF Using, Fetching, IndexAtHand
<1>6. \/ UNCHANGED cursor /\ (Fetching(t)' <=> Fetching(t))
      \/ cursor' = cursor \cup {IdxAgt[t]} /\ IdxAgt[t] # -1 /\ Fetching(t)'
      \/ cursor' = cursor \ {IdxAgt[t]} /\ Fetching(t) /\ ~Fetching(t)'
  BY <1>1, <1>2 DEF CursorOpen, CursorFetch, CreateRecord, CursorClose, ExecCUD, ExecNone,
                    Goto, Fetching, IndexAtHand
<1>7. TypeOK'
  <2>1. pc' \in [Threads -> Steps]
    BY <1>1, <1>2 DEF Steps
  <2>2. cursor' \in SUBSET Agents
    BY <1>2, <1>6
  <2> QED BY <1>1, <2>1, <2>2 DEF TypeOK
<1>8. BusyIsUsed'
  BY <1>1, <1>5 DEF BusyIsUsed
<1>9. OneSearcher' /\ IndexAtHand' /\ FoundStaysFree'
  BY <1>1, <1>3, <1>4 DEF OneSearcher, IndexAtHand, FoundStaysFree
<1>10. IdleIsAhead'
  BY <1>1, <1>3, <1>4 DEF IdleIsAhead, StepsBack
<1>11. MarkIsRule'
  BY <1>1, <1>5, <1>3, <1>4 DEF MarkIsRule
<1>12. OpenIsFetching'
  <2>1. \A u \in Threads : u # t => (Fetching(u)' <=> Fetching(u))
    BY <1>3 DEF Fetching
  <2>2. \A u \in Threads : Fetching(u) => Using(u)
    BY DEF Using
  <2>3. Fetching(t) => \A u \in Threads : u # t /\ Fetching(u) => IdxAgt[u] # IdxAgt[t]
    BY <2>2 DEF BusyIsUsed
  <2> QED BY <1>1, <1>6, <2>1, <2>3 DEF OpenIsFetching
<1> QED BY <1>7, <1>8, <1>9, <1>10, <1>11, <1>12

LEMMA LockPreserves ==
  ASSUME PoolInv, NEW t \in Threads, Lock(t) PROVE PoolInv'
<1> USE DEF PoolInv
<1>1. /\ pc[t] = "lock" /\ pc' = [pc EXCEPT ![t] = "scan"]
      /\ lock = {} /\ lock' = {t} /\ j' = 0 /\ waittime' = 0
      /\ idleSince' = {i \in Agents : free[i]}
      /\ UNCHANGED <<free, ruleId, m_stIdx, rule, IdxAgt, cursor, wild>>
  BY DEF Lock, Goto, agentVars
<1>2. TypeOK'
  BY <1>1, DBAgentPoolAssumption DEF TypeOK, Steps
<1>3. pc \in [Threads -> Steps]
  BY DEF TypeOK
<1>4. \A u \in Threads : Using(u)' = Using(u)
  BY <1>1, <1>3 DEF Using, Fetching
<1>5. BusyIsUsed'
  BY <1>1, <1>4 DEF BusyIsUsed
<1>6. OneSearcher' /\ IndexAtHand' /\ FoundStaysFree'
  BY <1>1, <1>3 DEF OneSearcher, IndexAtHand, FoundStaysFree
<1>7. m_stIdx \in Agents
  BY DEF TypeOK
<1>8. \A i \in Agents : StepsBack(i) \in Nat
  BY <1>7, DBAgentPoolAssumption DEF Agents, StepsBack
<1>9. \A i \in Agents : StepsBack(i)' >= 0
  BY <1>1, <1>8 DEF StepsBack
<1>10. IdleIsAhead'
  BY <1>1, <1>9 DEF IdleIsAhead
<1>11. MarkIsRule'
  BY <1>1, <1>3, <1>4 DEF MarkIsRule, Using, Fetching
<1>12. OpenIsFetching'
  BY <1>1, <1>2, FetchersStay DEF Fetching, TypeOK, OneSearcher
<1> QED BY <1>12, <1>2, <1>5, <1>6, <1>10, <1>11

LEMMA LookPreserves ==
  ASSUME PoolInv, NEW t \in Threads, Look(t) PROVE PoolInv'
<1> USE DEF PoolInv
<1>1. /\ pc[t] = "scan" /\ j < m_DBAgtCnt /\ m_stIdx' = NextIdx
      /\ UNCHANGED <<free, ruleId, lock, waittime, idleSince, rule, IdxAgt, cursor, wild>>
  BY DEF Look, agentVars
<1>2. \/ free[NextIdx] /\ pc' = [pc EXCEPT ![t] = "mark"] /\ j' = j
      \/ ~free[NextIdx] /\ pc' = pc /\ j' = j + 1
  BY DEF Look, Goto
<1>3. pc \in [Threads -> Steps]
  BY DEF TypeOK
<1>4. m_stIdx \in Agents /\ NextIdx \in Agents /\ j \in Nat
  BY NextIdxIsAgent DEF TypeOK
<1>5. TypeOK'
  <2>1. j' \in 0 .. m_DBAgtCnt
    BY <1>1, <1>2, <1>4, DBAgentPoolAssumption DEF TypeOK
  <2> QED BY <1>1, <1>2, <1>4, <2>1 DEF TypeOK, Steps
<1>6. \A u \in Threads : Using(u)' = Using(u)
  BY <1>1, <1>2, <1>3 DEF Using, Fetching
<1>7. BusyIsUsed'
  BY <1>1, <1>6 DEF BusyIsUsed
<1>8. OneSearcher' /\ IndexAtHand'
  BY <1>1, <1>2, <1>3 DEF OneSearcher, IndexAtHand
<1>9. \A u \in Threads : u # t => pc[u] \notin {"scan", "mark"}
  BY <1>1 DEF OneSearcher
<1>10. FoundStaysFree'
  BY <1>1, <1>2, <1>3, <1>9 DEF FoundStaysFree
<1>11. IdleIsAhead'
  <2>1. CASE free[NextIdx]
    BY <1>1, <1>2, <1>3, <1>9, <2>1 DEF IdleIsAhead
  <2>2. CASE ~free[NextIdx]
    <3>1. \A i \in idleSince : i \in Agents /\ i # NextIdx
      BY <2>2 DEF IdleIsAhead, TypeOK
    <3>2. \A i \in idleSince : StepsBack(i)' = StepsBack(i) + 1 /\ StepsBack(i) >= j
      BY <1>1, <1>4, <3>1, LookMovesOn DEF IdleIsAhead
    <3>3. \A i \in idleSince : StepsBack(i) \in Nat
      BY <1>4, <3>1, DBAgentPoolAssumption DEF StepsBack, Agents
    <3>4. \A i \in idleSince : StepsBack(i)' >= j'
      BY <1>2, <1>4, <2>2, <3>2, <3>3
    <3> QED BY <1>1, <3>4 DEF IdleIsAhead
  <2> QED BY <2>1, <2>2
<1>12. MarkIsRule'
  BY <1>1, <1>2, <1>3, <1>6 DEF MarkIsRule
<1>13. OpenIsFetching'
  BY <1>1, <1>2, FetchersStay DEF Fetching, TypeOK, OneSearcher
<1> QED BY <1>13, <1>5, <1>7, <1>8, <1>10, <1>11, <1>12

LEMMA SleepPreserves ==
  ASSUME PoolInv, NEW t \in Threads, Sleep(t) PROVE PoolInv'
<1> USE DEF PoolInv
<1>1. /\ waittime < MaxRounds /\ waittime' = waittime + 1 /\ j' = 0
      /\ idleSince' = {i \in Agents : free[i]}
      /\ UNCHANGED <<free, ruleId, m_stIdx, lock, pc, rule, IdxAgt, cursor, wild>>
  BY DEF Sleep, agentVars
<1>2. TypeOK'
  BY <1>1, DBAgentPoolAssumption DEF TypeOK, Steps
<1>3. OneSearcher' /\ IndexAtHand' /\ FoundStaysFree'
  BY <1>1 DEF OneSearcher, IndexAtHand, FoundStaysFree
<1>4. BusyIsUsed'
  BY <1>1 DEF BusyIsUsed, Using, Fetching
<1>5. \A i \in Agents : StepsBack(i)' >= 0
  BY <1>1, DBAgentPoolAssumption DEF StepsBack, TypeOK, Agents
<1>6. IdleIsAhead'
  BY <1>1, <1>5 DEF IdleIsAhead
<1>7. MarkIsRule'
  BY <1>1 DEF MarkIsRule, Using, Fetching
<1>8. OpenIsFetching'
  BY <1>1, <1>2, FetchersStay DEF Fetching, TypeOK, OneSearcher
<1> QED BY <1>8, <1>2, <1>3, <1>4, <1>6, <1>7

LEMMA TimeOutPreserves ==
  ASSUME PoolInv, NEW t \in Threads, TimeOut(t) PROVE PoolInv'
<1> USE DEF PoolInv
<1>1. /\ pc[t] = "scan"
      /\ pc' \in {[pc EXCEPT ![t] = "idle"], [pc EXCEPT ![t] = "exec"]}
      /\ lock' = lock \ {t}
      /\ IdxAgt' = [IdxAgt EXCEPT ![t] = -1]
      /\ UNCHANGED <<free, ruleId, m_stIdx, j, waittime, idleSince, rule, cursor, wild>>
  BY DEF TimeOut, Goto, agentVars
<1>2. pc \in [Threads -> Steps]
  BY DEF TypeOK
<1>3. TypeOK'
  BY <1>1 DEF TypeOK, Steps
<1>4. IdxAgt' = IdxAgt
  BY <1>1 DEF IndexAtHand, TypeOK
<1>5. \A u \in Threads : Using(u)' = Using(u)
  BY <1>1, <1>2, <1>4 DEF Using, Fetching, IndexAtHand
<1>6. BusyIsUsed'
  BY <1>1, <1>4, <1>5 DEF BusyIsUsed
<1>7. OneSearcher' /\ IndexAtHand' /\ FoundStaysFree'
  BY <1>1, <1>2, <1>4 DEF OneSearcher, IndexAtHand, FoundStaysFree
<1>8. IdleIsAhead'
  BY <1>1, <1>2 DEF IdleIsAhead, StepsBack
<1>9. MarkIsRule'
  BY <1>1, <1>2, <1>4, <1>5 DEF MarkIsRule, Using, Fetching, IndexAtHand
<1>10. OpenIsFetching'
  BY <1>1, <1>2, FetchersStay DEF Fetching, TypeOK, OneSearcher
<1> QED BY <1>10, <1>3, <1>6, <1>7, <1>8, <1>9

(* The agent found is taken: it had no user, because it was free. *)
LEMMA MarkPreserves ==
  ASSUME PoolInv, NEW t \in Threads, Mark(t) PROVE PoolInv'
<1> USE DEF PoolInv
<1>1. /\ pc[t] = "mark"
      /\ pc' \in {[pc EXCEPT ![t] = "open"], [pc EXCEPT ![t] = "exec"]}
      /\ free' = [free EXCEPT ![m_stIdx] = FALSE]
      /\ ruleId' = [ruleId EXCEPT ![m_stIdx] = rule[t].id]
      /\ idleSince' = idleSince \ {m_stIdx}
      /\ IdxAgt' = [IdxAgt EXCEPT ![t] = m_stIdx]
      /\ lock' = lock \ {t}
      /\ UNCHANGED <<m_stIdx, j, waittime, rule, cursor, wild>>
  BY DEF Mark, Goto
<1>2. /\ pc \in [Threads -> Steps]
      /\ free \in [Agents -> BOOLEAN]
      /\ IdxAgt \in [Threads -> Agents \cup {-1}]
      /\ m_stIdx \in Agents /\ m_stIdx # -1
  BY AgentsAreIndices DEF TypeOK
<1>3. TypeOK'
  <2>1. rule[t].id \in Rules
    BY DEF TypeOK
  <2> QED BY <1>1, <2>1 DEF TypeOK, Steps
<1>4. \A u \in Threads : u # t => Using(u)' = Using(u) /\ IdxAgt'[u] = IdxAgt[u]
  BY <1>1, <1>2 DEF Using, Fetching
<1>5. Using(t)' /\ IdxAgt'[t] = m_stIdx /\ ~Using(t)
  BY <1>1, <1>2 DEF Using, Fetching
<1>6. \A u \in Threads : Using(u) => IdxAgt[u] # m_stIdx /\ IdxAgt[u] \in Agents
  BY <1>1, <1>2 DEF BusyIsUsed, FoundStaysFree, Using, Fetching, IndexAtHand
<1>7. \A i \in Agents : free'[i] = (free[i] /\ i # m_stIdx)
  BY <1>1, <1>2
<1>8. BusyIsUsed'
  <2>1. \A i \in Agents : ~free'[i] => \E u \in Threads : Using(u)' /\ IdxAgt'[u] = i
    BY <1>4, <1>5, <1>7, ZenonT(30) DEF BusyIsUsed
  <2>2. \A u \in Threads : Using(u)' => ~free'[IdxAgt'[u]]
    BY <1>2, <1>4, <1>5, <1>6, <1>7 DEF BusyIsUsed
  <2>3. \A u, v \in Threads : Using(u)' /\ Using(v)' /\ IdxAgt'[u] = IdxAgt'[v] => u = v
    BY <1>4, <1>5, <1>6 DEF BusyIsUsed
  <2> QED BY <2>1, <2>2, <2>3 DEF BusyIsUsed
<1>9. OneSearcher'
  BY <1>1, <1>2 DEF OneSearcher
<1>10. IndexAtHand'
  BY <1>1, <1>2 DEF IndexAtHand
<1>11. \A u \in Threads : pc'[u] \notin {"scan", "mark"}
  BY <1>1, <1>2 DEF OneSearcher
<1>12. FoundStaysFree' /\ IdleIsAhead'
  BY <1>1, <1>2, <1>7, <1>11 DEF FoundStaysFree, IdleIsAhead, TypeOK
<1>13. MarkIsRule'
  <2>1. ruleId \in [Agents -> Rules \cup {0}]
    BY DEF TypeOK
  <2>2. ruleId'[m_stIdx] = rule[t].id /\ pc'[t] # "free"
    BY <1>1, <1>2, <2>1
  <2>3. \A u \in Threads : u # t /\ Using(u) =>
           ruleId'[IdxAgt[u]] = ruleId[IdxAgt[u]] /\ pc'[u] = pc[u]
    BY <1>1, <1>2, <1>6, <2>1
  <2>4. \A u \in Threads : Using(u)' =>
           ruleId'[IdxAgt'[u]] = IF pc'[u] = "free" THEN 0 ELSE rule'[u].id
    BY <1>1, <1>4, <1>5, <2>2, <2>3 DEF MarkIsRule
  <2>5. \A i \in Agents : free'[i] => ruleId'[i] = 0
    BY <1>1, <1>7, <2>1 DEF MarkIsRule
  <2> QED BY <2>4, <2>5 DEF MarkIsRule
<1>14. OpenIsFetching'
  BY <1>1, <1>2, FetchersStay DEF Fetching, TypeOK, OneSearcher
<1> QED BY <1>14, <1>3, <1>8, <1>9, <1>10, <1>12, <1>13

LEMMA ForgetRulePreserves ==
  ASSUME PoolInv, NEW t \in Threads, ForgetRule(t) PROVE PoolInv'
<1> USE DEF PoolInv
<1>1. /\ pc[t] = "close" /\ pc' = [pc EXCEPT ![t] = "free"]
      /\ ruleId' = [ruleId EXCEPT ![IdxAgt[t]] = 0]
      /\ UNCHANGED <<free, m_stIdx, lock, j, waittime, idleSince, rule, IdxAgt, cursor, wild>>
  BY DEF ForgetRule, Goto, scanVars
<1>2. pc \in [Threads -> Steps]
  BY DEF TypeOK
<1>3. TypeOK'
  BY <1>1 DEF TypeOK, Steps
<1>4. \A u \in Threads : Using(u)' = Using(u)
  BY <1>1, <1>2 DEF Using, Fetching
<1>5. BusyIsUsed'
  BY <1>1, <1>4 DEF BusyIsUsed
<1>6. OneSearcher' /\ IndexAtHand' /\ FoundStaysFree'
  BY <1>1, <1>2 DEF OneSearcher, IndexAtHand, FoundStaysFree
<1>7. IdleIsAhead'
  BY <1>1, <1>2 DEF IdleIsAhead, StepsBack
<1>8. /\ ruleId \in [Agents -> Rules \cup {0}] /\ IdxAgt \in [Threads -> Agents \cup {-1}]
      /\ IdxAgt[t] # -1 /\ Using(t)
  BY <1>1 DEF TypeOK, IndexAtHand, Using, Fetching
<1>9. \A u \in Threads : u # t /\ Using(u) => IdxAgt[u] # IdxAgt[t] /\ pc'[u] = pc[u]
  BY <1>1, <1>2, <1>8 DEF BusyIsUsed
<1>10. MarkIsRule'
  <2>1. ruleId'[IdxAgt[t]] = 0 /\ pc'[t] = "free"
    BY <1>1, <1>2, <1>8
  <2>2. \A i \in Agents : i # IdxAgt[t] => ruleId'[i] = ruleId[i]
    BY <1>1, <1>8
  <2>3. \A u \in Threads : Using(u) => IdxAgt[u] \in Agents
    BY <1>8 DEF Using, Fetching, IndexAtHand
  <2> QED BY <1>1, <1>4, <1>9, <2>1, <2>2, <2>3 DEF MarkIsRule
<1>11. OpenIsFetching'
  BY <1>1, <1>2, FetchersStay DEF Fetching, TypeOK, OneSearcher
<1> QED BY <1>11, <1>3, <1>5, <1>6, <1>7, <1>10

(* The agent goes back without the lock, under the eyes of a search. *)
LEMMA FreeAgentPreserves ==
  ASSUME PoolInv, NEW t \in Threads, FreeAgent(t) PROVE PoolInv'
<1> USE DEF PoolInv
<1>1. /\ pc[t] = "free" /\ pc' = [pc EXCEPT ![t] = "idle"]
      /\ free' = [free EXCEPT ![IdxAgt[t]] = TRUE]
      /\ IdxAgt' = [IdxAgt EXCEPT ![t] = -1]
      /\ UNCHANGED <<ruleId, m_stIdx, lock, j, waittime, idleSince, rule, cursor, wild>>
  BY DEF FreeAgent, Goto, scanVars
<1>2. /\ pc \in [Threads -> Steps]
      /\ free \in [Agents -> BOOLEAN]
      /\ IdxAgt \in [Threads -> Agents \cup {-1}]
      /\ IdxAgt[t] \in Agents
  BY <1>1 DEF TypeOK, IndexAtHand
<1>3. TypeOK'
  BY <1>1 DEF TypeOK, Steps
<1>4. \A u \in Threads : u # t => Using(u)' = Using(u) /\ IdxAgt'[u] = IdxAgt[u]
  BY <1>1, <1>2 DEF Using, Fetching
<1>5. ~Using(t)' /\ Using(t)
  BY <1>1, <1>2 DEF Using, Fetching, IndexAtHand
<1>6. \A i \in Agents : free'[i] = (free[i] \/ i = IdxAgt[t])
  BY <1>1, <1>2
<1>7. BusyIsUsed'
  <2>1. \A i \in Agents : ~free'[i] => \E u \in Threads : Using(u)' /\ IdxAgt'[u] = i
    BY <1>4, <1>6 DEF BusyIsUsed
  <2>2. \A u \in Threads : Using(u)' => u # t /\ IdxAgt[u] \in Agents /\ IdxAgt[u] # IdxAgt[t]
    BY <1>2, <1>4, <1>5 DEF BusyIsUsed, Using, Fetching, IndexAtHand
  <2>3. \A u \in Threads : Using(u)' => ~free'[IdxAgt'[u]]
    BY <1>4, <1>6, <2>2 DEF BusyIsUsed
  <2>4. \A u, v \in Threads : Using(u)' /\ Using(v)' /\ IdxAgt'[u] = IdxAgt'[v] => u = v
    BY <1>4, <2>2 DEF BusyIsUsed
  <2> QED BY <2>1, <2>3, <2>4 DEF BusyIsUsed
<1>8. OneSearcher' /\ IndexAtHand'
  BY <1>1, <1>2 DEF OneSearcher, IndexAtHand
<1>9. FoundStaysFree'
  BY <1>1, <1>2, <1>6 DEF FoundStaysFree, TypeOK
<1>10. IdleIsAhead'
  BY <1>1, <1>2, <1>6 DEF IdleIsAhead, StepsBack, TypeOK
<1>11. ruleId[IdxAgt[t]] = 0
  BY <1>1, <1>5 DEF MarkIsRule
<1>12. MarkIsRule'
  <2>1. \A u \in Threads : Using(u)' => u # t /\ pc'[u] = pc[u]
    BY <1>1, <1>2, <1>5
  <2> QED BY <1>1, <1>4, <1>6, <1>11, <2>1 DEF MarkIsRule
<1>13. OpenIsFetching'
  BY <1>1, <1>2, FetchersStay DEF Fetching, TypeOK, OneSearcher
<1> QED BY <1>13, <1>3, <1>7, <1>8, <1>9, <1>10, <1>12

LEMMA StutterPreserves == PoolInv /\ UNCHANGED vars => PoolInv'
BY DEF PoolInv, vars, agentVars, scanVars, TypeOK, OneSearcher, IndexAtHand, FoundStaysFree,
       BusyIsUsed, Using, Fetching, OpenIsFetching, IdleIsAhead, StepsBack, MarkIsRule

LEMMA StepPreserves == PoolInv /\ [Next]_vars => PoolInv'
<1> SUFFICES ASSUME PoolInv, [Next]_vars PROVE PoolInv'
  OBVIOUS
<1>1. ASSUME NEW t \in Threads, Thread(t) PROVE PoolInv'
  BY <1>1, StartPreserves, LockPreserves, LookPreserves, SleepPreserves, TimeOutPreserves,
     MarkPreserves, UsePreserves, ForgetRulePreserves, FreeAgentPreserves DEF Thread
<1>2. CASE UNCHANGED vars
  BY <1>2, StutterPreserves
<1> QED BY <1>1, <1>2 DEF Next

THEOREM PoolInvariant == Spec => []PoolInv
BY InitEstablishes, StepPreserves, PTL DEF Spec

-----------------------------------------------------------------------------
(* Whatever the threads and the agents are, the state has its type: no     *)
(* thread is given an index that is no agent, and the sleeps are counted.  *)
THEOREM PoolTypeCorrect == Spec => []TypeOK
BY PoolInvariant, PTL DEF PoolInv

(* An agent that is not free is used by exactly one thread and a free one  *)
(* by none, although freeAgent runs outside m_CSectCtx, and on every way   *)
(* out of a query its cursor, if it was opened, is closed once.            *)
THEOREM AgentsAreLentOnce == Spec => []AgentsPrivate
<1>1. ASSUME PoolInv, NEW i \in Agents
      PROVE  Cardinality({t \in Threads : Using(t) /\ IdxAgt[t] = i}) = IF free[i] THEN 0 ELSE 1
  <2>1. CASE free[i]
    <3>1. {t \in Threads : Using(t) /\ IdxAgt[t] = i} = {}
      BY <1>1, <2>1 DEF PoolInv, BusyIsUsed
    <3> QED BY <2>1, <3>1, FS_EmptySet
  <2>2. CASE ~free[i]
    <3>1. PICK u \in Threads : Using(u) /\ IdxAgt[u] = i
      BY <1>1, <2>2 DEF PoolInv, BusyIsUsed
    <3>2. {t \in Threads : Using(t) /\ IdxAgt[t] = i} = {u}
      BY <1>1, <3>1 DEF PoolInv, BusyIsUsed
    <3> QED BY <2>2, <3>2, FS_Singleton
  <2> QED BY <2>1, <2>2
<1>2. PoolInv => cursor = {IdxAgt[t] : t \in {u \in Threads : Fetching(u)}}
  BY DEF PoolInv, OpenIsFetching
<1>3. PoolInv => AgentsPrivate
  BY <1>1, <1>2 DEF AgentsPrivate
<1> QED BY <1>3, PoolInvariant, PTL

(* When a round of getAgent has found nothing, no agent was free all the   *)
(* time, wherever the search began.                                        *)
THEOREM RoundsAreComplete == Spec => []RoundMissesNone
<1>1. ASSUME PoolInv PROVE RoundMissesNone
  <2> SUFFICES ASSUME NEW t \in lock, pc[t] = "scan", j = m_DBAgtCnt PROVE idleSince = {}
    BY DEF RoundMissesNone
  <2>1. SUFFICES ASSUME NEW i \in idleSince PROVE FALSE
    OBVIOUS
  <2>2. t \in Threads /\ i \in Agents /\ m_stIdx \in Agents
    BY <1>1 DEF PoolInv, TypeOK
  <2>3. StepsBack(i) >= m_DBAgtCnt
    BY <1>1, <2>2 DEF PoolInv, IdleIsAhead
  <2>4. StepsBack(i) < m_DBAgtCnt
    BY <2>2, RoundIsComplete
  <2> QED BY <2>2, <2>3, <2>4, DBAgentPoolAssumption DEF StepsBack, Agents
<1> QED BY <1>1, PoolInvariant, PTL

(* While a rule is evaluated the agent is marked with it, and an agent     *)
(* without a user is marked with none: the two assignments of freeAgent    *)
(* and those of getAgent never mix, though only the latter are locked.     *)
THEOREM AgentsAreMarked == Spec => []MarkIsRule
BY PoolInvariant, PTL DEF PoolInv
=============================================================================
