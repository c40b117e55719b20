------------------------- MODULE DebugSessionProofs -------------------------
(***************************************************************************)
(* Proofs about the handshake of DebugSession, for every set of rules and  *)
(* every number of steps.  Both threads are followed through their program *)
(* counters: Turn says whose turn it is, Fields which parts of the message *)
(* are written, Taken which parts the caller has read, and Filed that the  *)
(* file answers the last request.  The second part is about the index.     *)
(***************************************************************************)
EXTENDS DebugSession, TLAPS, WellFoundedInduction

(* The worker may leave a message only while the caller polls for it.      *)
WorkersTurn ==
  \/ workerPc \in {"run", "step", "load", "throw"}
  \/ workerPc = "asleep" /\ ~frozen

Waiting == callerPc = "poll" /\ announced = returned
Taking  == callerPc \in {"n1", "buf", "return"}

Turn ==
  /\ WorkersTurn => Waiting
  /\ Waiting \/ callerPc \in {"none", "out", "clear", "test", "wake", "answer", "over"}
       => announced = returned
  /\ Taking => announced = returned + 1 /\ g_dbg_step # 0 /\ workerPc # "none"
  /\ callerPc = "answer" => workerPc # "none"
  /\ callerPc = "poll" => \/ announced = returned /\ g_dbg_step = 0
                          \/ announced = returned + 1 /\ g_dbg_step # 0 /\ workerPc # "none"
  /\ callerPc \in {"clear", "test", "wake"} => g_dbg_step = 0
  /\ callerPc \in {"none", "out", "clear", "test", "wake", "poll", "n1", "buf", "return", "answer", "over"}
  /\ callerPc = "none" => workerPc = "none" /\ ~frozen /\ g_dbg_step = 0 /\ msg.step = 0
  /\ frozen => workerPc \in {"asleep", "none"}
  /\ workerPc = "step" => msg.step # 0

Fields ==
  g_dbg_step # 0 /\ workerPc # "none" =>
    /\ g_dbg_step = msg.step
    /\ workerPc # "n1" => g_dbg_n1 = msg.n1
    /\ workerPc \notin {"n1", "buf", "errbuf"} => g_dbg_buf = msg.buf

Taken ==
  ~raced =>
    /\ Taking => workerPc \notin {"n1", "buf", "errbuf"}
    /\ callerPc \in {"buf", "return", "answer"} => got.n1 = msg.n1
    /\ callerPc \in {"return", "answer"} => got.buf = msg.buf
    /\ callerPc = "answer" => got.step = msg.step

Filed ==
  /\ ~raced /\ msg.step = LOAD /\ workerPc # "step"
       /\ (Waiting \/ callerPc \in {"out", "clear", "test", "wake"}) => AskedFor(file)
  /\ workerPc = "load" => msg.step = LOAD
  /\ misled => raced

SessionInv == MessageTypeOK /\ raced \in BOOLEAN /\ Turn /\ Fields /\ Taken /\ Filed
-----------------------------------------------------------------------------
(* The invariant holds from the start and every step preserves it.         *)
LEMMA SessionInductive ==
  /\ Init => SessionInv
  /\ SessionInv /\ [Next]_vars => SessionInv'
<1> USE DebugAssumption
    DEF SessionInv, MessageTypeOK, Turn, Fields, Taken, Filed, Waiting, Taking, WorkersTurn,
        AskedFor, message, threadVars, store, Message, Steps, Names, Texts, ErrorText,
        ERR, LOAD, NEXT, TERM, WorkerAt, CallerAt
<1>1. Init => SessionInv
  <2> SUFFICES ASSUME Init PROVE SessionInv
    OBVIOUS
  <2>1. MessageTypeOK /\ raced \in BOOLEAN
    BY DEF Init, NoMessage
  <2>2. Turn /\ Fields /\ Taken
    BY DEF Init, NoMessage
  <2>3. Filed
    BY DEF Init, NoMessage
  <2> QED
    BY <2>1, <2>2, <2>3
<1>2. SessionInv /\ [Next]_vars => SessionInv'
  <2> SUFFICES ASSUME SessionInv, [Next]_vars
               PROVE  SessionInv'
    OBVIOUS
  <2>1. ASSUME NEW r \in Rules, AskById(r) PROVE SessionInv'
    <3>1. MessageTypeOK' /\ raced' \in BOOLEAN
      BY <2>1 DEF AskById, Suspended, Unsaid
    <3>2. Turn' /\ Fields' /\ Taken' /\ Filed'
      BY <2>1 DEF AskById, Suspended, Unsaid
    <3> QED
      BY <3>1, <3>2
  <2>2. ASSUME NEW n \in Names, AskByName(n) PROVE SessionInv'
    BY <2>2 DEF AskByName, Suspended, Unsaid
  <2>3. CASE OtherStep
    BY <2>3 DEF OtherStep, Suspended, Unsaid
  <2>4. CASE SetStep
    BY <2>4 DEF SetStep
  <2>5. CASE SetNumber
    BY <2>5 DEF SetNumber
  <2>6. CASE SetText
    BY <2>6 DEF SetText
  <2>7. CASE MarkSuspended
    BY <2>7 DEF MarkSuspended
  <2>8. CASE SuspendThread
    BY <2>8 DEF SuspendThread
  <2>9. CASE GoOn
    BY <2>9 DEF GoOn
  <2>10. CASE Load
    BY <2>10 DEF Load
  <2>11. CASE Terminate
    BY <2>11 DEF Terminate
  <2>12. CASE Throw
    BY <2>12 DEF Throw
  <2>13. CASE SetErrorText
    BY <2>13 DEF SetErrorText
  <2>14. CASE InitDebug
    <3>1. MessageTypeOK' /\ raced' \in BOOLEAN
      BY <2>14 DEF InitDebug
    <3>2. Turn' /\ Fields'
      BY <2>14 DEF InitDebug
    <3>3. Taken' /\ Filed'
      BY <2>14 DEF InitDebug
    <3> QED
      BY <3>1, <3>2, <3>3
  <2>15. CASE CallNextStep
    <3>1. MessageTypeOK' /\ raced' \in BOOLEAN
      BY <2>15 DEF CallNextStep
    <3>2. Turn' /\ Fields'
      BY <2>15 DEF CallNextStep
    <3>3. Taken' /\ Filed'
      BY <2>15 DEF CallNextStep
    <3> QED
      BY <3>1, <3>2, <3>3
  <2>16. CASE ClearText
    BY <2>16 DEF ClearText
  <2>17. CASE Resume
    BY <2>17 DEF Resume
  <2>18. CASE ResumeThread
    BY <2>18 DEF ResumeThread
  <2>19. CASE Poll
    <3>1. MessageTypeOK' /\ Turn' /\ Fields'
      BY <2>19 DEF Poll
    <3>2. raced' \in BOOLEAN /\ (raced => raced') /\ (workerPc \in {"n1", "buf", "errbuf"} => raced')
      BY <2>19 DEF Poll
    <3>3. Taken'
      BY <2>19, <3>2 DEF Poll
    <3>4. Filed'
      BY <2>19, <3>2 DEF Poll
    <3> QED
      BY <3>1, <3>2, <3>3, <3>4
  <2>20. CASE GetNumber
    BY <2>20 DEF GetNumber
  <2>21. CASE GetText
    BY <2>21 DEF GetText
  <2>22. CASE Return
    BY <2>22 DEF Return
  <2>23. CASE Answer
    BY <2>23 DEF Answer
  <2>24. CASE TermDebug
    BY <2>24 DEF TermDebug
  <2>25. CASE UNCHANGED vars
    BY <2>25 DEF vars
  <2> QED
    BY <2>1, <2>2, <2>3, <2>4, <2>5, <2>6, <2>7, <2>8, <2>9, <2>10, <2>11, <2>12, <2>13, <2>14,
       <2>15, <2>16, <2>17, <2>18, <2>19, <2>20, <2>21, <2>22, <2>23, <2>24, <2>25
    DEF Next, Worker, Caller, NextStep, Over, Hangs
<1> QED
  BY <1>1, <1>2

(* SessionInv holds throughout a session.                                   *)
THEOREM SessionInvariance == Spec => []SessionInv
  BY SessionInductive, PTL DEF Spec

(* No message of the worker is skipped or shown twice.                     *)
THEOREM LockstepCorrect == Spec => []Lockstep
<1>1. SessionInv => Lockstep
  BY DEF SessionInv, MessageTypeOK, Turn, Waiting, Taking, Lockstep
<1> QED
  BY <1>1, SessionInvariance, PTL

(* A message that was complete when it was taken is returned unchanged.    *)
THEOREM MessageCorrect == Spec => []MessageIsWhole
<1>1. SessionInv => MessageIsWhole
  <2>1. ASSUME SessionInv, callerPc = "answer", ~raced PROVE got = msg
    BY <2>1 DEF SessionInv, MessageTypeOK, Taken, Message
  <2>2. ASSUME SessionInv, workerPc = "asleep", g_dbg_step # 0
        PROVE  message = <<msg.step, msg.n1, msg.buf>>
    BY <2>2 DEF SessionInv, Fields, message
  <2> QED
    BY <2>1, <2>2 DEF MessageIsWhole
<1> QED
  BY <1>1, SessionInvariance, PTL

(* The worker loads the rule it asked for, or its request was torn.        *)
THEOREM LoadCorrect == Spec => []RightRuleLoaded
<1>1. SessionInv => RightRuleLoaded
  BY DEF SessionInv, Filed, RightRuleLoaded
<1> QED
  BY <1>1, SessionInvariance, PTL
-----------------------------------------------------------------------------
(* The index of names, for every number of names and any order of them: a     *)
(* rule's branchIdx stays its position.  A set of numbers has a least member, *)
(* which stands for an induction below.                                       *)
LEMMA Minimal ==
  ASSUME NEW T, T \subseteq Nat, T # {}
  PROVE  \E x \in T : \A y \in T : ~ (<<y, x>> \in OpToRel(<, Nat))
  BY WFMin, NatLessThanWellFounded, Zenon

LEMMA NotLess ==
  ASSUME NEW x \in Nat, NEW y \in Nat, ~ (<<y, x>> \in OpToRel(<, Nat))
  PROVE  ~ (y < x)
  BY DEF OpToRel

LEMMA LeastNumber ==
  ASSUME NEW T, T \subseteq Nat, T # {}
  PROVE  \E x \in T : \A y \in T : x <= y
<1>1. PICK x \in T : \A y \in T : ~ (<<y, x>> \in OpToRel(<, Nat))
  BY Minimal
<1>2. \A y \in T : ~ (y < x)
  BY <1>1, NotLess
<1> QED
  BY <1>2

-----------------------------------------------------------------------------
(* The bisection of AddRuleNodeSearch, whose ranges get narrower: the       *)
(* function that InsertPosition chooses exists, and keeps within the index. *)
Ranges(m) == (0 .. m + 1) \X (-1 .. m)
Body(L, Name, f, range) ==
  LET nFirst == range[1]
      nLast  == range[2]
      nPos   == (nFirst + nLast) \div 2
      met    == L[nPos + 1].rule_name
  IN  IF Name = met THEN Duplicate
      ELSE IF Name < met
      THEN IF nPos - 1 = 0 \/ nFirst > nPos - 1 THEN nPos ELSE f[<<nFirst, nPos - 1>>]
      ELSE IF nPos + 1 > nLast THEN nPos + 1 ELSE f[<<nPos + 1, nLast>>]

Width(r) == r[2] - r[1]

(* What is left of a range on either side of its middle is narrower.       *)
LEMMA Halves ==
  ASSUME NEW m \in Nat, NEW a \in 0 .. m + 1, NEW b \in -1 .. m,
         NEW p, p = (a + b) \div 2
  PROVE  /\ p \in Int
         /\ a <= p - 1 => <<a, p - 1>> \in Ranges(m) /\ Width(<<a, p - 1>>) < Width(<<a, b>>)
         /\ p + 1 <= b => <<p + 1, b>> \in Ranges(m) /\ Width(<<p + 1, b>>) < Width(<<a, b>>)
         /\ a <= b => p \in a .. b
BY DEF Ranges, Width

(* A function that is right for the ranges narrower than k makes one that *)
(* is right for the ranges of width k too.                                *)
LEMMA NextWidth ==
  ASSUME NEW L, NEW Name, NEW m \in Nat,
         NEW k \in Int, NEW g, NEW f,
         f = [r \in Ranges(m) |-> Body(L, Name, g, r)],
         \A r \in Ranges(m) : Width(r) < k => g[r] = Body(L, Name, g, r)
  PROVE  \A r \in Ranges(m) : Width(r) < k + 1 => f[r] = Body(L, Name, f, r)
<1>1. \A r \in Ranges(m) : f[r] = Body(L, Name, g, r)
  OBVIOUS
<1>2. SUFFICES ASSUME NEW a \in 0 .. m + 1, NEW b \in -1 .. m, Width(<<a, b>>) < k + 1
               PROVE  Body(L, Name, g, <<a, b>>) = Body(L, Name, f, <<a, b>>)
  BY <1>1, SMTT(30) DEF Ranges
<1>3. ASSUME NEW q \in Ranges(m), Width(q) < Width(<<a, b>>) PROVE f[q] = g[q]
  <2>1. Width(q) < k
    BY <1>2, <1>3 DEF Ranges, Width
  <2> QED
    BY <2>1, <1>1
<1> DEFINE p == (a + b) \div 2
<1> p \in Int
  OBVIOUS
<1> HIDE DEF p
<1>4. /\ a <= p - 1 => <<a, p - 1>> \in Ranges(m) /\ Width(<<a, p - 1>>) < Width(<<a, b>>)
      /\ p + 1 <= b => <<p + 1, b>> \in Ranges(m) /\ Width(<<p + 1, b>>) < Width(<<a, b>>)
  BY Halves DEF p
<1>5. ~(a > p - 1) => f[<<a, p - 1>>] = g[<<a, p - 1>>]
  BY <1>3, <1>4
<1>6. ~(p + 1 > b) => f[<<p + 1, b>>] = g[<<p + 1, b>>]
  BY <1>3, <1>4
<1> QED
  BY <1>5, <1>6 DEF Body, p

(* The function InsertPosition chooses.                                    *)
Search(L, Name) ==
  CHOOSE f : f = [r \in Ranges(Len(L) - 1) |-> Body(L, Name, f, r)]

(* It exists: were there a least width up to which no function is right, *)
(* NextWidth would make one.                                             *)
LEMMA SearchExists ==
  ASSUME NEW L, NEW Name, Len(L) - 1 \in Nat
  PROVE  Search(L, Name) = [r \in Ranges(Len(L) - 1) |-> Body(L, Name, Search(L, Name), r)]
<1> DEFINE m == Len(L) - 1
           From(k) == k - m - 3
           Right(g, k) == \A r \in Ranges(m) : Width(r) < From(k) => g[r] = Body(L, Name, g, r)
           T == {k \in Nat : ~ \E g : Right(g, k)}
<1>1. m \in Nat
  OBVIOUS
<1> HIDE DEF m
<1>2. T = {}
  <2> SUFFICES ASSUME T # {} PROVE FALSE
    OBVIOUS
  <2>1. PICK k \in T : \A j \in T : k <= j
    BY LeastNumber
  <2>2. Right(0, 0)
    <3>1. ASSUME NEW r \in Ranges(m) PROVE ~(Width(r) < From(0))
      BY <1>1, SMTT(30) DEF Ranges, Width
    <3> HIDE DEF From
    <3> QED
      BY <3>1
  <2>3. k # 0 /\ k \in Nat
    BY <2>1, <2>2
  <2>4. k - 1 \in Nat /\ k - 1 \notin T
    BY <2>1, <2>3
  <2>5. PICK g : Right(g, k - 1)
    BY <2>4
  <2> DEFINE f == [r \in Ranges(m) |-> Body(L, Name, g, r)]
  <2>6. From(k - 1) \in Int /\ From(k) = From(k - 1) + 1
    BY <2>3, <1>1
  <2>7. Right(f, k)
    <3> HIDE DEF From
    <3> QED
      BY NextWidth, <2>5, <2>6, <1>1
  <2> QED
    BY <2>7, <2>1
<1>3. PICK g : Right(g, 2 * m + 5)
  <2>1. 2 * m + 5 \in Nat
    BY <1>1
  <2> HIDE DEF Right
  <2> QED
    BY <2>1, <1>2
<1>4. \A r \in Ranges(m) : Width(r) < m + 2
  BY <1>1 DEF Ranges, Width
<1>5. From(2 * m + 5) = m + 2
  BY <1>1
<1>6. \A r \in Ranges(m) : Width(r) < m + 2 => g[r] = Body(L, Name, g, r)
  BY <1>3, <1>5
<1> DEFINE f == [r \in Ranges(m) |-> Body(L, Name, g, r)]
<1>7. \A r \in Ranges(m) : Width(r) < m + 2 + 1 => f[r] = Body(L, Name, f, r)
  <2> DEFINE k == m + 2
  <2>1. k \in Int
    BY <1>1
  <2> HIDE DEF k
  <2>2. \A r \in Ranges(m) : Width(r) < k => g[r] = Body(L, Name, g, r)
    BY <1>6 DEF k
  <2>3. \A r \in Ranges(m) : Width(r) < k + 1 => f[r] = Body(L, Name, f, r)
    BY <2>1, <2>2, <1>1, NextWidth
  <2> QED
    BY <2>3 DEF k
<1>8. \A r \in Ranges(m) : f[r] = Body(L, Name, f, r)
  <2>1. \A r \in Ranges(m) : Width(r) < m + 2 + 1
    BY <1>1 DEF Ranges, Width
  <2> HIDE DEF f
  <2> QED
    BY <2>1, <1>7
<1>9. f = [r \in Ranges(m) |-> Body(L, Name, f, r)]
  <2> HIDE DEF f
  <2>1. f = [r \in Ranges(m) |-> f[r]]
    BY DEF f
  <2> QED
    BY <2>1, <1>8
<1>10. \E h : h = [r \in Ranges(m) |-> Body(L, Name, h, r)]
  BY <1>9, Zenon
<1> QED
  BY <1>10, Zenon DEF Search, m

(* It meets the name or ends with a position: look at the narrowest range *)
(* where it does not.                                                     *)
LEMMA SearchRange ==
  ASSUME NEW L, NEW Name, Len(L) - 1 \in Nat
  PROVE  \A r \in Ranges(Len(L) - 1) : 
           r[1] <= r[2] => Search(L, Name)[r] \in {Duplicate} \cup 0 .. Len(L)
<1> DEFINE m == Len(L) - 1
           S == Search(L, Name)
           Good(a, b) == S[<<a, b>>] \in {Duplicate} \cup 0 .. m + 1
           T == {k \in Nat : \E a \in 0 .. m + 1, b \in -1 .. m :
                               a <= b /\ Width(<<a, b>>) = k /\ ~Good(a, b)}
<1>1. m \in Nat /\ Len(L) = m + 1
  OBVIOUS
<1>2. \A r \in Ranges(m) : S[r] = Body(L, Name, S, r)
  BY SearchExists
<1> HIDE DEF m, S
<1>3. T = {}
  <2> SUFFICES ASSUME T # {} PROVE FALSE
    OBVIOUS
  <2>1. PICK k \in T : \A j \in T : k <= j
    BY LeastNumber
  <2>0. k \in Nat
    BY <2>1
  <2>2. PICK a \in 0 .. m + 1, b \in -1 .. m : a <= b /\ Width(<<a, b>>) = k /\ ~Good(a, b)
    BY <2>1
  <2> DEFINE p == (a + b) \div 2
  <2>3. p \in Int /\ p \in a .. b
    BY <1>1, <2>2
  <2>4. S[<<a, b>>] = Body(L, Name, S, <<a, b>>)
    BY <1>2 DEF Ranges
  <2> HIDE DEF p
  <2>5. ASSUME a <= p - 1 PROVE Good(a, p - 1)
    <3>1. p - 1 \in -1 .. m /\ Width(<<a, p - 1>>) \in Nat /\ Width(<<a, p - 1>>) < k
      BY <2>2, <2>3, <2>5, <1>1 DEF Width
    <3>2. Width(<<a, p - 1>>) \notin T
      <4> HIDE DEF T
      <4> QED
        BY <3>1, <2>1, <2>0
    <3> HIDE DEF Good
    <3> QED
      BY <3>1, <3>2, <2>5
  <2>6. ASSUME p + 1 <= b PROVE Good(p + 1, b)
    <3>1. p + 1 \in 0 .. m + 1 /\ Width(<<p + 1, b>>) \in Nat /\ Width(<<p + 1, b>>) < k
      BY <2>2, <2>3, <2>6, <1>1 DEF Width
    <3>2. Width(<<p + 1, b>>) \notin T
      <4> HIDE DEF T
      <4> QED
        BY <3>1, <2>1, <2>0
    <3> HIDE DEF Good
    <3> QED
      BY <3>1, <3>2, <2>6
  <2>7. p \in 0 .. m + 1 /\ p + 1 \in 0 .. m + 1
    BY <2>3, <1>1
  <2>8. Body(L, Name, S, <<a, b>>) \in {Duplicate} \cup 0 .. m + 1
    BY <2>3, <2>5, <2>6, <2>7 DEF Body, p
  <2> QED
    BY <2>2, <2>4, <2>8
<1>4. \A a \in 0 .. m + 1, b \in -1 .. m : a <= b => Good(a, b)
  <2> SUFFICES ASSUME NEW a \in 0 .. m + 1, NEW b \in -1 .. m, a <= b PROVE Good(a, b)
    OBVIOUS
  <2>1. Width(<<a, b>>) \in Nat
    BY <1>1 DEF Width
  <2> HIDE DEF Good
  <2> QED
    BY <2>1, <1>3
<1> QED
  BY <1>4, <1>1 DEF Ranges, m, S

(* InsertPosition is Duplicate or a position, the one behind the last too.  *)
LEMMA InsertPositionRange ==
  ASSUME NEW L, NEW Name, Len(L) \in Nat
  PROVE  InsertPosition(L, Name) \in {Duplicate} \cup 0 .. Len(L)
<1>2. InsertPosition(L, Name) = IF Len(L) - 1 <= 0 THEN Len(L) ELSE Search(L, Name)[<<0, Len(L) - 1>>]
  BY Zenon DEF InsertPosition, Body, Ranges, Search
<1>3. CASE Len(L) - 1 <= 0
  BY <1>2, <1>3
<1>4. CASE ~(Len(L) - 1 <= 0)
  <2>1. Len(L) - 1 \in Nat /\ <<0, Len(L) - 1>> \in Ranges(Len(L) - 1) /\ 0 <= Len(L) - 1
    BY <1>4 DEF Ranges
  <2> QED
   BY <2>1, SearchRange, <1>2, <1>4
<1> QED
  BY <1>3, <1>4

-----------------------------------------------------------------------------
(* Every entry of the index L has a node, and the node the entry's position *)
(* in B; so no two entries have the same node.                              *)
Indexed(L, B) ==
  \A i \in 1 .. Len(L) : L[i].ptr \in 1 .. Len(B) /\ B[L[i].ptr] = i - 1

Entries == [rule_name : Names, ptr : Nat]

(* M is L with e inserted behind the first at elements.                    *)
Inserted(M, L, at, e) ==
  /\ Len(M) = Len(L) + 1
  /\ \A i \in 1 .. Len(M) :
       M[i] = IF i <= at THEN L[i] ELSE IF i = at + 1 THEN e ELSE L[i - 1]

(* What AddRuleNodeSearch does to the array inserts.                       *)
LEMMA Insertion ==
  ASSUME NEW S, NEW L \in Seq(S), NEW e \in S, NEW at \in 0 .. Len(L),
         NEW M, M = SubSeq(L, 1, at) \o <<e>> \o SubSeq(L, at + 1, Len(L))
  PROVE  M \in Seq(S) /\ Inserted(M, L, at, e)
<1> DEFINE P == SubSeq(L, 1, at)
           Q == SubSeq(L, at + 1, Len(L))
           R == P \o <<e>>
<1>0. Len(L) \in Nat /\ at \in Nat
  OBVIOUS
<1>1. P \in Seq(S) /\ Len(P) = at /\ \A i \in 1 .. at : P[i] = L[i]
  OBVIOUS
<1>2. Q \in Seq(S) /\ Len(Q) = Len(L) - at /\ \A i \in 1 .. Len(L) - at : Q[i] = L[at + i]
  OBVIOUS
<1> HIDE DEF P, Q
<1>3. /\ R \in Seq(S) /\ Len(R) = at + 1
      /\ \A i \in 1 .. at : R[i] = L[i]
      /\ R[at + 1] = e
  BY <1>0, <1>1
<1> HIDE DEF R
<1>4. /\ R \o Q \in Seq(S) /\ Len(R \o Q) = Len(L) + 1
      /\ \A i \in 1 .. at + 1 : (R \o Q)[i] = R[i]
      /\ \A i \in at + 2 .. Len(L) + 1 : (R \o Q)[i] = Q[i - (at + 1)]
  BY <1>0, <1>2, <1>3
<1>5. \A i \in 1 .. Len(L) + 1 :
        (R \o Q)[i] = IF i <= at THEN L[i] ELSE IF i = at + 1 THEN e ELSE L[i - 1]
  <2> SUFFICES ASSUME NEW i \in 1 .. Len(L) + 1
               PROVE  (R \o Q)[i] = IF i <= at THEN L[i] ELSE IF i = at + 1 THEN e ELSE L[i - 1]
    OBVIOUS
  <2>1. CASE i <= at
    BY <1>0, <1>3, <1>4, <2>1
  <2>2. CASE i = at + 1
    BY <1>0, <1>3, <1>4, <2>2
  <2>3. CASE i > at + 1
    <3>1. i - (at + 1) \in 1 .. Len(L) - at /\ at + (i - (at + 1)) = i - 1
      BY <1>0, <2>3
    <3>2. (R \o Q)[i] = Q[i - (at + 1)]
      BY <1>0, <1>4, <2>3
    <3>3. Q[i - (at + 1)] = L[i - 1]
      BY <1>2, <3>1
    <3> QED
      BY <1>0, <2>3, <3>2, <3>3
  <2>4. i <= at \/ i = at + 1 \/ i > at + 1
    BY <1>0
  <2> QED
    BY <2>1, <2>2, <2>3, <2>4, Zenon
<1> QED
  BY <1>4, <1>5 DEF P, Q, R, Inserted

(* An insertion that is not refused has a position.                        *)
LEMMA PositionFound ==
  ASSUME NEW L, NEW Name, Len(L) \in Nat, ~Refused(L, Name)
  PROVE  InsertPosition(L, Name) \in 0 .. Len(L)
<1>1. CASE Len(L) > 1
  BY <1>1, InsertPositionRange DEF Refused
<1>2. CASE ~(Len(L) > 1)
  <2>1. Len(L) - 1 <= 0
    BY <1>2
  <2>2. InsertPosition(L, Name) = IF Len(L) - 1 <= 0 THEN Len(L) ELSE Search(L, Name)[<<0, Len(L) - 1>>]
    BY Zenon DEF InsertPosition, Body, Ranges, Search
  <2> QED
    BY <2>1, <2>2
<1> QED
  BY <1>1, <1>2

(* Inserting and moving the positions that follow keeps the index right.   *)
LEMMA Reindexed ==
  ASSUME NEW L \in Seq(Entries), NEW B \in Seq(Nat), Indexed(L, B),
         NEW Name \in Names, ~Refused(L, Name),
         NEW node, node = Len(B) + 1,
         NEW M, M = AddRuleNodeSearch(L, Name, node),
         NEW C, C = Reindex(B, L, Name, node)
  PROVE  M \in Seq(Entries) /\ C \in Seq(Nat) /\ Indexed(M, C)
<1> DEFINE at == InsertPosition(L, Name)
           e == [rule_name |-> Name, ptr |-> node]
           moved(p) == \E i \in at + 1 .. Len(L) : L[i].ptr = p
<1>1. Len(L) \in Nat /\ Len(B) \in Nat /\ node \in Nat /\ DOMAIN B = 1 .. Len(B)
  OBVIOUS
<1>2. at \in 0 .. Len(L)
  BY PositionFound, <1>1
<1>3. e \in Entries
  BY <1>1 DEF Entries
<1>4. M = SubSeq(L, 1, at) \o <<e>> \o SubSeq(L, at + 1, Len(L))
  BY Zenon DEF AddRuleNodeSearch
<1>5. C = [p \in DOMAIN B \cup {node} |->
             IF p = node THEN at ELSE IF moved(p) THEN B[p] + 1 ELSE B[p]]
  BY Zenon DEF Reindex
<1>6. \A i \in 1 .. Len(L) : L[i].ptr \in 1 .. Len(B) /\ B[L[i].ptr] = i - 1
  BY DEF Indexed
<1> HIDE DEF at, e
<1>7. /\ M \in Seq(Entries) /\ Len(M) = Len(L) + 1
      /\ \A i \in 1 .. Len(M) :
           M[i] = IF i <= at THEN L[i] ELSE IF i = at + 1 THEN e ELSE L[i - 1]
  <2>1. M \in Seq(Entries) /\ Inserted(M, L, at, e)
    BY <1>2, <1>3, <1>4, Insertion
  <2> QED
    BY <2>1 DEF Inserted
<1>8. C \in [1 .. Len(B) + 1 -> Nat]
  <2>1. DOMAIN B \cup {node} = 1 .. Len(B) + 1
    BY <1>1
  <2>2. \A p \in 1 .. Len(B) : B[p] \in Nat /\ B[p] + 1 \in Nat
    BY <1>1
  <2>3. at \in Nat
    BY <1>1, <1>2
  <2> DEFINE new(p) == IF p = node THEN at ELSE IF moved(p) THEN B[p] + 1 ELSE B[p]
  <2>4. ASSUME NEW p \in 1 .. Len(B) + 1 PROVE new(p) \in Nat
    <3>1. p = node \/ p \in 1 .. Len(B)
      BY <1>1
    <3> HIDE DEF moved
    <3> QED
      BY <2>2, <2>3, <3>1
  <2>5. C = [p \in 1 .. Len(B) + 1 |-> new(p)]
    BY <1>5, <2>1, Zenon
  <2> HIDE DEF new
  <2> QED
    BY <2>4, <2>5
<1>9. C \in Seq(Nat) /\ Len(C) = Len(B) + 1
  BY <1>1, <1>8
<1>10. ASSUME NEW i \in 1 .. Len(M) PROVE M[i].ptr \in 1 .. Len(C) /\ C[M[i].ptr] = i - 1
  <2>1. CASE i <= at
    <3>1. i \in 1 .. Len(L) /\ M[i] = L[i]
      BY <1>1, <1>2, <1>7, <2>1
    <3>2. ~ moved(L[i].ptr)
      BY <1>1, <1>2, <1>6, <2>1, <3>1, SMTT(30)
    <3>3. L[i].ptr \in 1 .. Len(B) /\ B[L[i].ptr] = i - 1 /\ L[i].ptr # node
      BY <1>1, <1>6, <3>1
    <3> HIDE DEF moved
    <3> QED
      BY <1>1, <1>5, <1>9, <3>1, <3>2, <3>3, SMTT(30)
  <2>2. CASE i = at + 1
    <3>1. M[i].ptr = node
      BY <1>1, <1>2, <1>7, <2>2 DEF e
    <3>2. node \in 1 .. Len(C)
      BY <1>1, <1>9
    <3>3. C[node] = at
      BY <1>5
    <3> QED
      BY <1>1, <1>2, <2>2, <3>1, <3>2, <3>3, SMTT(30)
  <2>3. CASE i > at + 1
    <3>1. i - 1 \in at + 1 .. Len(L) /\ i - 1 \in 1 .. Len(L) /\ M[i] = L[i - 1]
      <4>1. at \in Nat /\ i \in Int /\ i <= Len(L) + 1
        BY <1>1, <1>2, <1>7
      <4>2. M[i] = L[i - 1]
        BY <1>7, <2>3, <4>1
      <4> QED
        BY <1>1, <2>3, <4>1, <4>2
    <3>2. moved(L[i - 1].ptr)
      BY <3>1
    <3>3. L[i - 1].ptr \in 1 .. Len(B) /\ B[L[i - 1].ptr] = i - 2 /\ L[i - 1].ptr # node
      BY <1>1, <1>6, <3>1
    <3> DEFINE q == L[i - 1].ptr
    <3> HIDE DEF moved
    <3>4. C[q] = B[q] + 1
      BY <1>1, <1>5, <3>2, <3>3
    <3> HIDE DEF q
    <3>5. q \in 1 .. Len(C) /\ M[i].ptr = q /\ B[q] = i - 2
      BY <1>1, <1>9, <3>1, <3>3, SMTT(30) DEF q
    <3> QED
      BY <1>1, <3>4, <3>5, SMTT(30)
  <2>4. i <= at \/ i = at + 1 \/ i > at + 1
    BY <1>1, <1>2, <1>7
  <2> QED
    BY <2>1, <2>2, <2>3, <2>4, Zenon
<1> QED
  BY <1>7, <1>9, <1>10 DEF Indexed

-----------------------------------------------------------------------------
(* The types, the steps that are left, and the index.                      *)
Counted ==
  /\ workerPc = "step" => announced < MaxSteps
  /\ announced <= MaxSteps \/ workerPc \in {"errbuf", "ended"} \/ callerPc = "over"
  /\ announced <= MaxSteps + 1
  /\ callerPc = "over" => workerPc = "none"
  /\ callerPc = "none" => workerPc = "none"

Controlled ==
  /\ workerPc \in {"none", "run", "step", "n1", "buf", "flag", "suspend", "asleep",
                   "load", "throw", "errbuf", "ended"}
  /\ callerPc \in {"none", "out", "clear", "test", "wake", "poll", "n1", "buf", "return",
                   "answer", "over"}
  /\ m_bSuspended \in BOOLEAN /\ frozen \in BOOLEAN /\ raced \in BOOLEAN
  /\ hasty \in BOOLEAN /\ misled \in BOOLEAN
  /\ file \in {0} \cup Rules /\ ext \subseteq {0} \cup Rules

IndexRight ==
  /\ m_NameList \in Seq(Entries) /\ branchIdx \in Seq(Nat)
  /\ Indexed(m_NameList, branchIdx)

IndexInv == MessageTypeOK /\ Counted /\ Controlled /\ IndexRight

(* The invariant holds from the start and every step preserves it.         *)
LEMMA IndexInductive ==
  /\ Init => IndexInv
  /\ IndexInv /\ [Next]_vars => IndexInv'
<1> USE DebugAssumption
    DEF IndexInv, Counted, Controlled, MessageTypeOK, message, threadVars, store,
        Message, Steps, ERR, LOAD, NEXT, TERM, ErrorText, Texts, WorkerAt, CallerAt
<1>1. Init => IndexInv
  <2> SUFFICES ASSUME Init PROVE IndexInv
    OBVIOUS
  <2>1. MessageTypeOK
    BY DEF Init, NoMessage
  <2>2. Counted
    BY DEF Init, DebugAssumption
  <2>3. Controlled
    BY DEF Init
  <2>4. IndexRight
    BY DEF Init, IndexRight, Indexed
  <2> QED
    BY <2>1, <2>2, <2>3, <2>4
<1>2. IndexInv /\ [Next]_vars => IndexInv'
  <2> SUFFICES ASSUME IndexInv, [Next]_vars PROVE IndexInv'
    OBVIOUS
  <2>1. ASSUME NEW r \in Rules, AskById(r) PROVE IndexInv'
    <3>1. MessageTypeOK'
      BY <2>1 DEF AskById, Suspended, Unsaid
    <3>2. Counted' /\ Controlled'
      BY <2>1 DEF AskById, Suspended, Unsaid
    <3>3. IndexRight'
      BY <2>1 DEF AskById, Suspended, Unsaid, IndexRight
    <3> QED
      BY <3>1, <3>2, <3>3
  <2>2. ASSUME NEW n \in Names, AskByName(n) PROVE IndexInv'
    <3>1. MessageTypeOK'
      BY <2>2 DEF AskByName, Suspended, Unsaid
    <3>2. Counted' /\ Controlled'
      BY <2>2 DEF AskByName, Suspended, Unsaid
    <3>3. IndexRight'
      BY <2>2 DEF AskByName, Suspended, Unsaid, IndexRight
    <3> QED
      BY <3>1, <3>2, <3>3
  <2>3. CASE OtherStep
    <3>1. MessageTypeOK'
      BY <2>3 DEF OtherStep, Suspended, Unsaid
    <3>2. Counted' /\ Controlled'
      BY <2>3 DEF OtherStep, Suspended, Unsaid
    <3>3. IndexRight'
      BY <2>3 DEF OtherStep, Suspended, Unsaid, IndexRight
    <3> QED
      BY <3>1, <3>2, <3>3
  <2>4. CASE SetStep
    <3>1. MessageTypeOK'
      BY <2>4 DEF SetStep
    <3>2. Counted' /\ Controlled'
      BY <2>4 DEF SetStep
    <3>3. IndexRight'
      BY <2>4 DEF SetStep, IndexRight
    <3> QED
      BY <3>1, <3>2, <3>3
  <2>5. CASE SetNumber
    <3>1. MessageTypeOK'
      BY <2>5 DEF SetNumber
    <3>2. Counted' /\ Controlled'
      BY <2>5 DEF SetNumber
    <3>3. IndexRight'
      BY <2>5 DEF SetNumber, IndexRight
    <3> QED
      BY <3>1, <3>2, <3>3
  <2>6. CASE SetText
    <3>1. MessageTypeOK'
      BY <2>6 DEF SetText
    <3>2. Counted' /\ Controlled'
      BY <2>6 DEF SetText
    <3>3. IndexRight'
      BY <2>6 DEF SetText, IndexRight
    <3> QED
      BY <3>1, <3>2, <3>3
  <2>7. CASE MarkSuspended
    <3>1. MessageTypeOK'
      BY <2>7 DEF MarkSuspended
    <3>2. Counted' /\ Controlled'
      BY <2>7 DEF MarkSuspended
    <3>3. IndexRight'
      BY <2>7 DEF MarkSuspended, IndexRight
    <3> QED
      BY <3>1, <3>2, <3>3
  <2>8. CASE SuspendThread
    <3>1. MessageTypeOK'
      BY <2>8 DEF SuspendThread
    <3>2. Counted' /\ Controlled'
      BY <2>8 DEF SuspendThread
    <3>3. IndexRight'
      BY <2>8 DEF SuspendThread, IndexRight
    <3> QED
      BY <3>1, <3>2, <3>3
  <2>9. CASE GoOn
    <3>1. MessageTypeOK'
      BY <2>9 DEF GoOn
    <3>2. Counted' /\ Controlled'
      BY <2>9 DEF GoOn
    <3>3. IndexRight'
      BY <2>9 DEF GoOn, IndexRight
    <3> QED
      BY <3>1, <3>2, <3>3
  <2>10. CASE Load
    <3>1. MessageTypeOK'
      BY <2>10 DEF Load
    <3>2. Counted' /\ Controlled'
      <4>1. misled' \in BOOLEAN
        BY <2>10 DEF Load
      <4>2. ext' \subseteq {0} \cup Rules
        BY <2>10 DEF Load, Enter
      <4>3. Counted'
        BY <2>10 DEF Load
      <4>4. workerPc' \in {"run", "throw"}
        BY <2>10 DEF Load
      <4> QED
        BY <2>10, <4>1, <4>2, <4>3, <4>4 DEF Load
    <3>3. IndexRight'
      <4>1. CASE UNCHANGED <<m_NameList, branchIdx>>
        BY <4>1 DEF IndexRight
      <4>2. CASE ~ UNCHANGED <<m_NameList, branchIdx>>
        <5> DEFINE name == NameOf[file]
                   node == Len(branchIdx) + 1
        <5>1. /\ file # 0 /\ name # 0 /\ ~Refused(m_NameList, name)
              /\ m_NameList' = AddRuleNodeSearch(m_NameList, name, node)
              /\ branchIdx' = Reindex(branchIdx, m_NameList, name, node)
          BY <2>10, <4>2 DEF Load
        <5>2. name \in Names
          BY <5>1 DEF Names
        <5> HIDE DEF name, node
        <5>3. m_NameList \in Seq(Entries) /\ branchIdx \in Seq(Nat) /\ Indexed(m_NameList, branchIdx)
          BY DEF IndexRight
        <5>4. /\ m_NameList' \in Seq(Entries) /\ branchIdx' \in Seq(Nat)
              /\ Indexed(m_NameList', branchIdx')
          BY <5>1, <5>2, <5>3, Reindexed DEF node
        <5> QED
          BY <5>4 DEF IndexRight
      <4> QED
        BY <4>1, <4>2
    <3> QED
      BY <3>1, <3>2, <3>3
  <2>11. CASE Terminate
    <3>1. MessageTypeOK'
      BY <2>11 DEF Terminate
    <3>2. Counted' /\ Controlled'
      BY <2>11 DEF Terminate
    <3>3. IndexRight'
      BY <2>11 DEF Terminate, IndexRight
    <3> QED
      BY <3>1, <3>2, <3>3
  <2>12. CASE Throw
    <3>1. MessageTypeOK'
      BY <2>12 DEF Throw
    <3>2. Counted' /\ Controlled'
      BY <2>12 DEF Throw
    <3>3. IndexRight'
      BY <2>12 DEF Throw, IndexRight
    <3> QED
      BY <3>1, <3>2, <3>3
  <2>13. CASE SetErrorText
    <3>1. MessageTypeOK'
      BY <2>13 DEF SetErrorText
    <3>2. Counted' /\ Controlled'
      BY <2>13 DEF SetErrorText
    <3>3. IndexRight'
      BY <2>13 DEF SetErrorText, IndexRight
    <3> QED
      BY <3>1, <3>2, <3>3
  <2>14. CASE InitDebug
    <3>1. MessageTypeOK'
      BY <2>14 DEF InitDebug
    <3>2. Counted' /\ Controlled'
      BY <2>14 DEF InitDebug
    <3>3. IndexRight'
      BY <2>14 DEF InitDebug, IndexRight
    <3> QED
      BY <3>1, <3>2, <3>3
  <2>15. CASE CallNextStep
    <3>1. MessageTypeOK'
      BY <2>15 DEF CallNextStep
    <3>2. Counted' /\ Controlled'
      BY <2>15 DEF CallNextStep
    <3>3. IndexRight'
      BY <2>15 DEF CallNextStep, IndexRight
    <3> QED
      BY <3>1, <3>2, <3>3
  <2>16. CASE ClearText
    <3>1. MessageTypeOK'
      BY <2>16 DEF ClearText
    <3>2. Counted' /\ Controlled'
      BY <2>16 DEF ClearText
    <3>3. IndexRight'
      BY <2>16 DEF ClearText, IndexRight
    <3> QED
      BY <3>1, <3>2, <3>3
  <2>17. CASE Resume
    <3>1. MessageTypeOK'
      BY <2>17 DEF Resume
    <3>2. Counted' /\ Controlled'
      BY <2>17, ZenonT(30) DEF Resume
    <3>3. IndexRight'
      BY <2>17 DEF Resume, IndexRight
    <3> QED
      BY <3>1, <3>2, <3>3
  <2>18. CASE ResumeThread
    <3>1. MessageTypeOK'
      BY <2>18 DEF ResumeThread
    <3>2. Counted' /\ Controlled'
      BY <2>18 DEF ResumeThread
    <3>3. IndexRight'
      BY <2>18 DEF ResumeThread, IndexRight
    <3> QED
      BY <3>1, <3>2, <3>3
  <2>19. CASE Poll
    <3>1. MessageTypeOK'
      BY <2>19 DEF Poll
    <3>2. Counted' /\ Controlled'
      BY <2>19 DEF Poll
    <3>3. IndexRight'
      BY <2>19 DEF Poll, IndexRight
    <3> QED
      BY <3>1, <3>2, <3>3
  <2>20. CASE GetNumber
    <3>1. MessageTypeOK'
      BY <2>20 DEF GetNumber
    <3>2. Counted' /\ Controlled'
      BY <2>20 DEF GetNumber
    <3>3. IndexRight'
      BY <2>20 DEF GetNumber, IndexRight
    <3> QED
      BY <3>1, <3>2, <3>3
  <2>21. CASE GetText
    <3>1. MessageTypeOK'
      BY <2>21 DEF GetText
    <3>2. Counted' /\ Controlled'
      BY <2>21 DEF GetText
    <3>3. IndexRight'
      BY <2>21 DEF GetText, IndexRight
    <3> QED
      BY <3>1, <3>2, <3>3
  <2>22. CASE Return
    <3>1. MessageTypeOK'
      BY <2>22 DEF Return
    <3>2. Counted' /\ Controlled'
      BY <2>22 DEF Return
    <3>3. IndexRight'
      BY <2>22 DEF Return, IndexRight
    <3> QED
      BY <3>1, <3>2, <3>3
  <2>23. CASE Answer
    <3>1. MessageTypeOK'
      BY <2>23 DEF Answer
    <3>2. Counted' /\ Controlled'
      BY <2>23 DEF Answer
    <3>3. IndexRight'
      BY <2>23 DEF Answer, IndexRight
    <3> QED
      BY <3>1, <3>2, <3>3
  <2>24. CASE TermDebug
    <3>1. MessageTypeOK'
      BY <2>24 DEF TermDebug
    <3>2. Counted' /\ Controlled'
      BY <2>24 DEF TermDebug
    <3>3. IndexRight'
      BY <2>24 DEF TermDebug, IndexRight, Indexed
    <3> QED
      BY <3>1, <3>2, <3>3
  <2>25. CASE UNCHANGED vars
    <3>1. MessageTypeOK' /\ Counted' /\ Controlled'
      BY <2>25 DEF vars
    <3>2. IndexRight'
      BY <2>25 DEF vars, IndexRight
    <3> QED
      BY <3>1, <3>2
  <2> QED
    BY <2>1, <2>2, <2>3, <2>4, <2>5, <2>6, <2>7, <2>8, <2>9, <2>10, <2>11, <2>12, <2>13, <2>14, <2>15, <2>16, <2>17, <2>18, <2>19, <2>20, <2>21, <2>22, <2>23, <2>24, <2>25
    DEF Next, Worker, Caller, NextStep, Over, Hangs
<1> QED
  BY <1>1, <1>2

(* IndexInv holds throughout a session.                                    *)
THEOREM IndexInvariance == Spec => []IndexInv
  BY IndexInductive, PTL DEF Spec

(* Every variable has its type, and no session has more steps than it may. *)
THEOREM SessionTypeCorrect == Spec => []TypeOK
<1>1. IndexInv => TypeOK
  BY DEF IndexInv, Counted, Controlled, IndexRight, Entries, TypeOK
<1> QED
  BY <1>1, IndexInvariance, PTL

(* Every rule's branchIdx is its position in the index.                    *)
THEOREM IndexCorrect == Spec => []IndexConsistent
<1>1. IndexInv => IndexConsistent
  BY DEF IndexInv, IndexRight, Indexed, IndexConsistent
<1> QED
  BY <1>1, IndexInvariance, PTL
=============================================================================
