--------------------------- MODULE RuleCallsProofs ---------------------------
(***************************************************************************)
(* Proofs about RuleCalls: what is run once and what a call is answered,   *)
(* for all rules and arguments.                                            *)
(*                                                                         *)
(* Both rest on what the search and the clearing leave of the list of      *)
(* results: nothing that was not in it, and of each other rule the result  *)
(* that comes first. The answers rest on what the text of the arguments    *)
(* tells apart besides.                                                    *)
(***************************************************************************)
EXTENDS RuleCalls, TLAPS, WellFoundedInduction

-----------------------------------------------------------------------------
(* A set of numbers that is not empty has a least one.                     *)
LEMMA LeastNumber ==
  ASSUME NEW T, T \subseteq Nat, T # {}
  PROVE  \E k \in T : \A j \in T : k <= j
<1>1. \E k \in T : \A j \in T : ~ (<<j, k>> \in OpToRel(<, Nat))
  BY WFMin, NatLessThanWellFounded, Zenon
<1>2. PICK k \in T : \A j \in T : ~ (<<j, k>> \in OpToRel(<, Nat))
  BY <1>1
<1>3. ASSUME NEW j \in T PROVE ~(j < k)
  <2>1. ~ (<<j, k>> \in OpToRel(<, Nat)) /\ j \in Nat /\ k \in Nat
    BY <1>2
  <2> QED
    BY <2>1 DEF OpToRel
<1> QED
  BY <1>3

-----------------------------------------------------------------------------
(* The list that DelRuleResultAll leaves                                   *)

KeptBody(list, id, kept, n) ==
  IF n = 0 THEN <<>>
  ELSE IF list[n].ruleId = id THEN kept[n - 1] ELSE Append(kept[n - 1], list[n])

Kept(list, id) == CHOOSE f : f = [n \in 0 .. Len(list) |-> KeptBody(list, id, f, n)]

(* f is right for all numbers below m.                                     *)
RightBelow(list, id, f, m) == \A n \in Nat : n < m => f[n] = KeptBody(list, id, f, n)

(* A function that is right below m makes one that is right at m.          *)
LEMMA NextKept ==
  ASSUME NEW list, NEW id, NEW m \in Nat, NEW g, RightBelow(list, id, g, m),
         NEW f, f = [n \in 0 .. m |-> KeptBody(list, id, g, n)]
  PROVE  RightBelow(list, id, f, m + 1)
<1> SUFFICES ASSUME NEW n \in Nat, n < m + 1 PROVE f[n] = KeptBody(list, id, f, n)
  BY DEF RightBelow
<1>1. n \in 0 .. m /\ f[n] = KeptBody(list, id, g, n)
  OBVIOUS
<1>2. CASE n = 0
  BY <1>1, <1>2 DEF KeptBody
<1>3. CASE n # 0
  <2>1. n - 1 \in 0 .. m /\ n - 1 \in Nat /\ n - 1 < m
    BY <1>3
  <2>2. f[n - 1] = g[n - 1]
    BY <2>1 DEF RightBelow
  <2> QED
    BY <1>1, <1>3, <2>2 DEF KeptBody
<1> QED
  BY <1>2, <1>3

(* So the function exists: no number is the first below which none is right. *)
LEMMA KeptExists ==
  ASSUME NEW list, NEW id, Len(list) \in Nat
  PROVE  Kept(list, id) = [n \in 0 .. Len(list) |-> KeptBody(list, id, Kept(list, id), n)]
<1> DEFINE T == {m \in Nat : ~ \E g : RightBelow(list, id, g, m)}
<1>1. T = {}
  <2> SUFFICES ASSUME T # {} PROVE FALSE
    OBVIOUS
  <2>1. PICK m \in T : \A j \in T : m <= j
    BY LeastNumber
  <2>2. RightBelow(list, id, 0, 0)
    BY DEF RightBelow
  <2>3. m \in Nat /\ m # 0
    BY <2>1, <2>2
  <2>4. m - 1 \in Nat /\ m - 1 \notin T /\ m - 1 + 1 = m
    BY <2>1, <2>3
  <2>5. PICK g : RightBelow(list, id, g, m - 1)
    BY <2>4
  <2>6. RightBelow(list, id, [n \in 0 .. m - 1 |-> KeptBody(list, id, g, n)], m - 1 + 1)
    BY <2>4, <2>5, NextKept
  <2> QED
    BY <2>1, <2>4, <2>6
<1>2. PICK g : RightBelow(list, id, g, Len(list))
  BY <1>1
<1> DEFINE f == [n \in 0 .. Len(list) |-> KeptBody(list, id, g, n)]
<1>3. RightBelow(list, id, f, Len(list) + 1)
  BY <1>2, NextKept
<1>4. f = [n \in 0 .. Len(list) |-> KeptBody(list, id, f, n)]
  <2> HIDE DEF f
  <2>1. f = [n \in 0 .. Len(list) |-> f[n]]
    BY DEF f
  <2> QED
    BY <2>1, <1>3 DEF RightBelow
<1> QED
  BY <1>4, Zenon DEF Kept

-----------------------------------------------------------------------------
(* Lists of results                                                        *)

IsList(L) == L \in Seq(ToSet(L))

(* The first result of the rule in the list has this key.                  *)
Leads(L, rule, key) ==
  \E i \in 1 .. Len(L) :
    /\ L[i].ruleId = rule /\ L[i].parmInfo = key
    /\ \A j \in 1 .. i - 1 : L[j].ruleId # rule

(* M is what is left of L when results of the rules in gone are taken out.  *)
Unlinked(M, L, gone) ==
  /\ IsList(M)
  /\ ToSet(M) \subseteq ToSet(L)
  /\ \A rule, key : rule \notin gone /\ Leads(L, rule, key) => Leads(M, rule, key)

LEMMA ListOfSeq ==
  ASSUME NEW S, NEW L \in Seq(S)
  PROVE  IsList(L) /\ ToSet(L) \subseteq S /\ Len(L) \in Nat /\ DOMAIN L = 1 .. Len(L)
<1>1. Len(L) \in Nat /\ DOMAIN L = 1 .. Len(L) /\ \A i \in 1 .. Len(L) : L[i] \in S
  OBVIOUS
<1>2. L = [i \in 1 .. Len(L) |-> L[i]]
  OBVIOUS
<1>3. \A i \in 1 .. Len(L) : L[i] \in ToSet(L)
  BY <1>1 DEF ToSet
<1>4. L \in Seq(ToSet(L))
  <2> DEFINE R == ToSet(L)
  <2>1. \A i \in 1 .. Len(L) : L[i] \in R
    BY <1>3
  <2> HIDE DEF R
  <2>2. L \in Seq(R)
    BY <1>1, <2>1
  <2> QED
    BY <2>2 DEF R
<1> QED
  BY <1>1, <1>4 DEF IsList, ToSet

LEMMA ListProperties ==
  ASSUME NEW L, IsList(L)
  PROVE  /\ Len(L) \in Nat /\ DOMAIN L = 1 .. Len(L)
         /\ \A i \in 1 .. Len(L) : L[i] \in ToSet(L)
         /\ ToSet(L) = {L[i] : i \in 1 .. Len(L)}
<1>1. Len(L) \in Nat /\ DOMAIN L = 1 .. Len(L)
  BY ListOfSeq DEF IsList
<1> QED
  BY <1>1 DEF ToSet

LEMMA Joined ==
  ASSUME NEW S, NEW P \in Seq(S), NEW Q \in Seq(S)
  PROVE  /\ P \o Q \in Seq(S) /\ Len(P \o Q) = Len(P) + Len(Q)
         /\ Len(P) \in Nat /\ Len(Q) \in Nat
         /\ \A k \in 1 .. Len(P) : (P \o Q)[k] = P[k]
         /\ \A k \in 1 .. Len(Q) : (P \o Q)[Len(P) + k] = Q[k]
<1>1. P \o Q \in Seq(S) /\ Len(P \o Q) = Len(P) + Len(Q) /\ Len(P) \in Nat /\ Len(Q) \in Nat
  OBVIOUS
<1>2. \A k \in 1 .. Len(P) : (P \o Q)[k] = P[k]
  OBVIOUS
<1>3. ASSUME NEW k \in 1 .. Len(Q) PROVE (P \o Q)[Len(P) + k] = Q[k]
  <2>1. Len(P) + k \in 1 .. Len(P) + Len(Q) /\ ~(Len(P) + k <= Len(P)) /\ Len(P) + k - Len(P) = k
    BY <1>1
  <2> QED
    BY <2>1
<1> QED
  BY <1>1, <1>2, <1>3

(* The search takes a result of the rule it looks for out of the list.     *)
LEMMA RemovedOne ==
  ASSUME NEW L, IsList(L), NEW i \in 1 .. Len(L)
  PROVE  Unlinked(RemoveAt(L, i), L, {L[i].ruleId})
<1> DEFINE S == ToSet(L)
           P == SubSeq(L, 1, i - 1)
           Q == SubSeq(L, i + 1, Len(L))
           M == P \o Q
<1>1. L \in Seq(S) /\ Len(L) \in Nat
  BY ListProperties DEF IsList
<1> HIDE DEF S
<1>2. P \in Seq(S) /\ Len(P) = i - 1 /\ \A k \in 1 .. i - 1 : P[k] = L[k]
  BY <1>1
<1>3. Q \in Seq(S) /\ Len(Q) = Len(L) - i /\ \A k \in 1 .. Len(L) - i : Q[k] = L[i + k]
  BY <1>1
<1> HIDE DEF P, Q
<1>4. /\ M \in Seq(S) /\ Len(M) = Len(L) - 1
      /\ \A k \in 1 .. i - 1 : M[k] = P[k]
      /\ \A k \in 1 .. Len(L) - i : M[i - 1 + k] = Q[k]
  <2>1. /\ M \in Seq(S) /\ Len(M) = Len(P) + Len(Q)
        /\ \A k \in 1 .. Len(P) : M[k] = P[k]
        /\ \A k \in 1 .. Len(Q) : M[Len(P) + k] = Q[k]
    <3>1. P \in Seq(S) /\ Q \in Seq(S)
      BY <1>2, <1>3
    <3> QED
      BY <3>1, Joined
  <2> HIDE DEF M
  <2> QED
    BY <1>1, <1>2, <1>3, <2>1, SMTT(30)
<1> HIDE DEF M
<1>5. ASSUME NEW k \in 1 .. Len(L) - 1 PROVE M[k] = IF k < i THEN L[k] ELSE L[k + 1]
  <2>1. CASE k < i
    BY <1>1, <1>2, <1>4, <2>1
  <2>2. CASE ~(k < i)
    <3>1. /\ k - (i - 1) \in 1 .. Len(L) - i
          /\ i + (k - (i - 1)) = k + 1 /\ i - 1 + (k - (i - 1)) = k
      BY <1>1, <2>2
    <3>2. M[k] = Q[k - (i - 1)] /\ Q[k - (i - 1)] = L[k + 1]
      BY <1>3, <1>4, <3>1
    <3> QED
      BY <2>2, <3>2
  <2> QED
    BY <2>1, <2>2
<1>6. IsList(M) /\ ToSet(M) \subseteq S
  BY <1>4, ListOfSeq
<1>7. ASSUME NEW rule, NEW key, rule # L[i].ruleId, Leads(L, rule, key)
      PROVE  Leads(M, rule, key)
  <2>1. PICK n \in 1 .. Len(L) : /\ L[n].ruleId = rule /\ L[n].parmInfo = key
                                 /\ \A j \in 1 .. n - 1 : L[j].ruleId # rule
    BY <1>7 DEF Leads
  <2>2. n # i
    BY <1>7, <2>1
  <2>3. CASE n < i
    <3>1. n \in 1 .. Len(M) /\ M[n] = L[n]
      BY <1>1, <1>4, <1>5, <2>3
    <3>2. \A j \in 1 .. n - 1 : M[j] = L[j]
      BY <1>1, <1>5, <2>3
    <3> QED
      BY <2>1, <3>1, <3>2 DEF Leads
  <2>4. CASE n > i
    <3>1. n - 1 \in 1 .. Len(M) /\ M[n - 1] = L[n]
      BY <1>1, <1>4, <1>5, <2>4
    <3>2. ASSUME NEW j \in 1 .. (n - 1) - 1 PROVE M[j].ruleId # rule
      <4>1. j \in 1 .. Len(L) - 1 /\ j \in 1 .. n - 1 /\ j + 1 \in 1 .. n - 1
        BY <1>1
      <4> QED
        BY <1>5, <2>1, <4>1
    <3> QED
      BY <2>1, <3>1, <3>2 DEF Leads
  <2> QED
    BY <2>2, <2>3, <2>4
<1> QED
  BY <1>6, <1>7 DEF Unlinked, RemoveAt, M, P, Q, S

(* What comes first in the list is found by a search for its key.          *)
LEMMA LeaderIsHit ==
  ASSUME IsList(m_pRuleResult), NEW rule, NEW key, Leads(m_pRuleResult, rule, key)
  PROVE  Hit(rule, key)
<1> DEFINE L == m_pRuleResult
           I == {i \in 1 .. Len(L) : L[i].ruleId = rule /\ (key # <<>> \/ L[i].parmInfo = <<>>)}
<1>1. PICK n \in 1 .. Len(L) : /\ L[n].ruleId = rule /\ L[n].parmInfo = key
                               /\ \A j \in 1 .. n - 1 : L[j].ruleId # rule
  BY DEF Leads
<1>2. n \in I /\ \A j \in I : n <= j
  BY <1>1
<1>3. Found(rule, key) = Min(I)
  BY <1>2 DEF Found, SelectInSeq
<1>4. Min(I) = n
  <2>1. \A m \in I : (\A j \in I : m <= j) => m = n
    BY <1>2
  <2> HIDE DEF I
  <2> QED
    BY <1>2, <2>1 DEF Min
<1> QED
  BY <1>1, <1>3, <1>4 DEF Hit

(* A result behind the others.                                             *)
LEMMA Appended ==
  ASSUME NEW S, NEW K \in Seq(S), NEW e \in S, NEW rule, NEW key
  PROVE  /\ Append(K, e) \in Seq(S)
         /\ Leads(K, rule, key) => Leads(Append(K, e), rule, key)
         /\ (\A j \in 1 .. Len(K) : K[j].ruleId # rule) =>
              IF e.ruleId # rule
              THEN \A j \in 1 .. Len(Append(K, e)) : Append(K, e)[j].ruleId # rule
              ELSE Leads(Append(K, e), rule, e.parmInfo)
<1> DEFINE M == Append(K, e)
<1>1. /\ M \in Seq(S) /\ Len(K) \in Nat /\ Len(M) = Len(K) + 1
      /\ M[Len(K) + 1] = e /\ \A j \in 1 .. Len(K) : M[j] = K[j]
  OBVIOUS
<1> HIDE DEF M
<1>2. ASSUME Leads(K, rule, key) PROVE Leads(M, rule, key)
  <2>1. PICK i \in 1 .. Len(K) : /\ K[i].ruleId = rule /\ K[i].parmInfo = key
                                 /\ \A j \in 1 .. i - 1 : K[j].ruleId # rule
    BY <1>2 DEF Leads
  <2>2. i \in 1 .. Len(M) /\ M[i] = K[i] /\ \A j \in 1 .. i - 1 : M[j] = K[j]
    BY <1>1
  <2> QED
    BY <2>1, <2>2 DEF Leads
<1>3. ASSUME \A j \in 1 .. Len(K) : K[j].ruleId # rule, e.ruleId # rule
      PROVE  \A j \in 1 .. Len(M) : M[j].ruleId # rule
  BY <1>1, <1>3
<1>4. ASSUME \A j \in 1 .. Len(K) : K[j].ruleId # rule, e.ruleId = rule
      PROVE  Leads(M, rule, e.parmInfo)
  <2>1. Len(K) + 1 \in 1 .. Len(M) /\ \A j \in 1 .. (Len(K) + 1) - 1 : M[j] = K[j] /\ j \in 1 .. Len(K)
    BY <1>1
  <2> QED
    BY <1>1, <1>4, <2>1 DEF Leads
<1> QED
  BY <1>1, <1>2, <1>3, <1>4 DEF M

(* DelRuleResultAll unlinks the results of its rule, or of all: were there a *)
(* shortest beginning of the list that the walk has not kept right, Appended *)
(* would show that it is right all the same.                                 *)
LEMMA Cleansed ==
  ASSUME NEW L, IsList(L), NEW id
  PROVE  /\ IsList(Without(L, id)) /\ ToSet(Without(L, id)) \subseteq ToSet(L)
         /\ \A rule, key : id \notin {0, rule} /\ Leads(L, rule, key)
                             => Leads(Without(L, id), rule, key)
<1> DEFINE S == ToSet(L)
           K == Kept(L, id)
           Begins(n, rule, key) ==
             \E i \in 1 .. n : /\ L[i].ruleId = rule /\ L[i].parmInfo = key
                               /\ \A j \in 1 .. i - 1 : L[j].ruleId # rule
           Absent(n, rule) == \A i \in 1 .. n : L[i].ruleId # rule
           Good(n) == /\ K[n] \in Seq(S)
                      /\ \A rule, key : rule # id =>
                           /\ Begins(n, rule, key) => Leads(K[n], rule, key)
                           /\ Absent(n, rule) => \A j \in 1 .. Len(K[n]) : K[n][j].ruleId # rule
           T == {n \in Nat : n <= Len(L) /\ ~Good(n)}
<1>1. L \in Seq(S) /\ Len(L) \in Nat /\ \A i \in 1 .. Len(L) : L[i] \in S
  BY ListProperties DEF IsList
<1>2. ASSUME NEW n \in 0 .. Len(L) PROVE K[n] = KeptBody(L, id, K, n)
  BY <1>1, KeptExists
<1> HIDE DEF S, K
<1>3. Good(0)
  <2>1. K[0] = <<>>
    BY <1>1, <1>2 DEF KeptBody
  <2> QED
    BY <2>1
<1>4. ASSUME NEW n \in Nat, n + 1 <= Len(L), Good(n) PROVE Good(n + 1)
  <2>1. n + 1 \in 0 .. Len(L) /\ n + 1 \in 1 .. Len(L) /\ n + 1 # 0 /\ (n + 1) - 1 = n
    BY <1>1, <1>4
  <2>2. K[n + 1] = IF L[n + 1].ruleId = id THEN K[n] ELSE Append(K[n], L[n + 1])
    BY <1>2, <2>1 DEF KeptBody
  <2>3. K[n] \in Seq(S) /\ L[n + 1] \in S
    BY <1>1, <1>4, <2>1
  <2>4. K[n + 1] \in Seq(S)
    BY <2>2, <2>3, Appended
  <2>5. ASSUME NEW rule, NEW key, rule # id, Begins(n + 1, rule, key)
        PROVE  Leads(K[n + 1], rule, key)
    <3>1. CASE Begins(n, rule, key)
      <4>1. Leads(K[n], rule, key)
        BY <1>4, <2>5, <3>1
      <4> QED
        BY <2>2, <2>3, <4>1, Appended
    <3>2. CASE ~Begins(n, rule, key)
      <4>1. PICK i \in 1 .. n + 1 : /\ L[i].ruleId = rule /\ L[i].parmInfo = key
                                    /\ \A j \in 1 .. i - 1 : L[j].ruleId # rule
        BY <2>5
      <4>2. i = n + 1
        BY <3>2, <4>1
      <4>3. Absent(n, rule)
        BY <4>1, <4>2
      <4>4. \A j \in 1 .. Len(K[n]) : K[n][j].ruleId # rule
        BY <1>4, <2>5, <4>3
      <4>5. K[n + 1] = Append(K[n], L[n + 1])
        BY <2>2, <2>5, <4>1, <4>2
      <4> HIDE DEF Begins, Absent, Good, T
      <4> QED
        BY <2>3, <4>1, <4>2, <4>4, <4>5, Appended
    <3> QED
      BY <3>1, <3>2
  <2>6. ASSUME NEW rule, rule # id, Absent(n + 1, rule)
        PROVE  \A j \in 1 .. Len(K[n + 1]) : K[n + 1][j].ruleId # rule
    <3>1. Absent(n, rule) /\ L[n + 1].ruleId # rule
      BY <2>6, <2>1
    <3>2. \A j \in 1 .. Len(K[n]) : K[n][j].ruleId # rule
      BY <1>4, <2>6, <3>1
    <3> HIDE DEF Begins, Absent, Good, T
    <3> QED
      BY <2>2, <2>3, <3>1, <3>2, Appended
  <2> QED
    BY <2>4, <2>5, <2>6
<1>5. T = {}
  <2> SUFFICES ASSUME T # {} PROVE FALSE
    OBVIOUS
  <2>1. PICK n \in T : \A j \in T : n <= j
    BY LeastNumber
  <2>2. n \in Nat /\ n <= Len(L) /\ ~Good(n)
    BY <2>1
  <2> HIDE DEF Good
  <2>3. n # 0
    BY <1>3, <2>2
  <2>4. n - 1 \in Nat /\ n - 1 + 1 = n /\ n - 1 \notin T /\ n - 1 <= Len(L)
    BY <1>1, <2>1, <2>2, <2>3
  <2>5. Good(n - 1)
    BY <2>4
  <2> QED
    BY <1>4, <2>2, <2>4, <2>5
<1>6. Good(Len(L))
  <2> HIDE DEF Good
  <2> QED
    BY <1>1, <1>5
<1>7. Without(L, id) = IF id = 0 THEN <<>> ELSE K[Len(L)]
  BY Zenon DEF Without, Kept, KeptBody, K
<1>8. CASE id = 0
  <2>1. IsList(<<>>) /\ ToSet(<<>>) = {}
    BY DEF IsList, ToSet
  <2> QED
    BY <1>7, <1>8, <2>1
<1>9. CASE id # 0
  <2>1. Without(L, id) = K[Len(L)] /\ K[Len(L)] \in Seq(S)
    BY <1>6, <1>7, <1>9
  <2>2. IsList(K[Len(L)]) /\ ToSet(K[Len(L)]) \subseteq S
    BY <2>1, ListOfSeq
  <2>3. ASSUME NEW rule, NEW key, id \notin {0, rule}, Leads(L, rule, key)
        PROVE  Leads(K[Len(L)], rule, key)
    <3>1. Begins(Len(L), rule, key)
      BY <2>3 DEF Leads
    <3> QED
      BY <1>6, <2>3, <3>1
  <2> QED
    BY <2>1, <2>2, <2>3 DEF S
<1> QED
  BY <1>8, <1>9

(* Results before the others: those of one rule and key come first.        *)
LEMMA Prepended ==
  ASSUME NEW L, IsList(L), NEW p, NEW A \in Seq({p})
  PROVE  /\ IsList(A \o L) /\ ToSet(A \o L) \subseteq ToSet(L) \cup {p}
         /\ A # <<>> => Leads(A \o L, p.ruleId, p.parmInfo)
         /\ \A rule, key : (A = <<>> \/ rule # p.ruleId) /\ Leads(L, rule, key)
                              => Leads(A \o L, rule, key)
<1> DEFINE S == ToSet(L) \cup {p}
           M == A \o L
           k == Len(A)
<1>1. L \in Seq(S) /\ Len(L) \in Nat
  <2>1. L \in Seq(ToSet(L))
    BY DEF IsList
  <2> QED
    BY <2>1
<1>2. p \in S
  OBVIOUS
<1> HIDE DEF S
<1>3. /\ A \in Seq(S) /\ k \in Nat
      /\ A # <<>> => k > 0
      /\ A = <<>> => k = 0
      /\ \A i \in 1 .. k : A[i] = p
  <2>1. p \in S /\ {p} \subseteq S
    BY <1>2
  <2>2. A \in Seq(S) /\ k \in Nat /\ \A i \in 1 .. k : A[i] \in {p}
    BY <2>1
  <2>3. A # <<>> => k > 0
    BY <2>2
  <2> QED
    BY <2>2, <2>3
<1> HIDE DEF k
<1>4. /\ M \in Seq(S) /\ Len(M) = k + Len(L)
      /\ \A i \in 1 .. k : M[i] = p
      /\ \A i \in 1 .. Len(L) : M[k + i] = L[i]
  <2>1. /\ M \in Seq(S) /\ Len(M) = Len(A) + Len(L)
        /\ \A i \in 1 .. Len(A) : M[i] = A[i]
        /\ \A i \in 1 .. Len(L) : M[Len(A) + i] = L[i]
    BY <1>1, <1>3, Joined
  <2> HIDE DEF M
  <2> QED
    BY <1>1, <1>3, <2>1 DEF k
<1> HIDE DEF M
<1>5. IsList(M) /\ ToSet(M) \subseteq S
  BY <1>4, ListOfSeq
<1>6. ASSUME A # <<>> PROVE Leads(M, p.ruleId, p.parmInfo)
  <2>1. 1 \in 1 .. Len(M) /\ M[1] = p /\ \A j \in 1 .. 1 - 1 : FALSE
    BY <1>1, <1>3, <1>4, <1>6
  <2> QED
    BY <2>1 DEF Leads
<1>7. ASSUME NEW rule, NEW key, A = <<>> \/ rule # p.ruleId, Leads(L, rule, key)
      PROVE  Leads(M, rule, key)
  <2>1. PICK n \in 1 .. Len(L) : /\ L[n].ruleId = rule /\ L[n].parmInfo = key
                                 /\ \A j \in 1 .. n - 1 : L[j].ruleId # rule
    BY <1>7 DEF Leads
  <2>2. k + n \in 1 .. Len(M) /\ M[k + n] = L[n]
    BY <1>1, <1>3, <1>4
  <2>3. ASSUME NEW j \in 1 .. (k + n) - 1 PROVE M[j].ruleId # rule
    <3>1. CASE j <= k
      <4>1. j \in 1 .. k /\ M[j] = p
        BY <1>3, <1>4, <3>1
      <4>2. A # <<>>
        BY <4>1, <1>3
      <4> QED
        BY <1>7, <4>1, <4>2
    <3>2. CASE j > k
      <4>1. j - k \in 1 .. n - 1 /\ j - k \in 1 .. Len(L) /\ k + (j - k) = j
        BY <1>1, <1>3, <3>2
      <4>2. M[j] = L[j - k]
        BY <1>4, <4>1
      <4> QED
        BY <2>1, <4>1, <4>2
    <3> QED
      BY <1>3, <3>1, <3>2
  <2> QED
    BY <2>1, <2>2, <2>3 DEF Leads
<1> QED
  BY <1>5, <1>6, <1>7 DEF S, M

(* A search that finds something finds a result of the rule.               *)
LEMMA FoundRange ==
  ASSUME IsList(m_pRuleResult), NEW rule, NEW key, Found(rule, key) # 0
  PROVE  /\ Found(rule, key) \in 1 .. Len(m_pRuleResult)
         /\ m_pRuleResult[Found(rule, key)].ruleId = rule
<1> DEFINE L == m_pRuleResult
           I == {i \in 1 .. Len(L) : L[i].ruleId = rule /\ (key # <<>> \/ L[i].parmInfo = <<>>)}
<1>1. Found(rule, key) = IF I # {} THEN Min(I) ELSE 0
  BY DEF Found, SelectInSeq
<1>2. I # {} /\ Found(rule, key) = Min(I)
  BY <1>1
<1>3. I \subseteq Nat
  OBVIOUS
<1>4. Min(I) \in I
  <2>1. \E k \in I : \A j \in I : k <= j
    BY <1>2, <1>3, LeastNumber
  <2> HIDE DEF I
  <2> QED
    BY <2>1 DEF Min
<1> QED
  BY <1>2, <1>4

(* What the search leaves.                                                 *)
LEMMA Searched ==
  ASSUME IsList(m_pRuleResult), NEW rule, NEW key
  PROVE  Unlinked(AfterSearch(rule, key), m_pRuleResult, {rule})
<1>1. CASE Found(rule, key) = 0
  BY <1>1 DEF AfterSearch, Unlinked
<1>2. CASE Found(rule, key) # 0
  BY <1>2, FoundRange, RemovedOne DEF AfterSearch
<1> QED
  BY <1>1, <1>2

(* What Return adds: results of one kind, if the rule leaves any.          *)
AddedBy(f) == (IF f.of.rule \in NoData THEN <<Result(f)>> ELSE <<>>)
                \o (IF f.save THEN <<Result(f)>> ELSE <<>>)

LEMMA AddedResults ==
  ASSUME NEW f
  PROVE  /\ AddedBy(f) \in Seq({Result(f)})
         /\ ~f.save /\ f.of.rule \notin NoData => AddedBy(f) = <<>>
<1> DEFINE p == Result(f)
<1> HIDE DEF p
<1>1. <<>> \in Seq({p}) /\ <<p>> \in Seq({p}) /\ <<>> \o <<>> = <<>>
  OBVIOUS
<1>2. AddedBy(f) \in Seq({Result(f)})
  <2> DEFINE X == IF f.of.rule \in NoData THEN <<p>> ELSE <<>>
             Y == IF f.save THEN <<p>> ELSE <<>>
  <2>1. X \in Seq({p}) /\ Y \in Seq({p})
    BY <1>1
  <2> HIDE DEF X, Y
  <2>2. X \o Y \in Seq({p})
    BY <2>1
  <2> QED
    BY <2>2 DEF AddedBy, X, Y, p
<1>3. ASSUME ~f.save, f.of.rule \notin NoData PROVE AddedBy(f) = <<>>
  <2>1. AddedBy(f) = <<>> \o <<>>
    BY <1>3 DEF AddedBy
  <2> QED
    BY <1>1, <2>1
<1> QED
  BY <1>2, <1>3

-----------------------------------------------------------------------------
(* What is run once                                                        *)

(* Between the event i and now its rule was cleared or met with another key. *)
Undone(i) ==
  \/ Cleared(log[i].rule, i, Len(log))
  \/ \E m \in i .. Len(log) : log[m].rule = log[i].rule /\ log[m].key # log[i].key

Events == \A j \in 1 .. Len(log) : log[j] = Event(log[j].ev, log[j].rule, log[j].key)

(* As long as nothing undoes it, a result that was added leads the list.   *)
KeptInFront ==
  \A i \in 1 .. Len(log) :
    log[i].ev = "add" => Undone(i) \/ Leads(m_pRuleResult, log[i].rule, log[i].key)

RunInv == IsList(m_pRuleResult) /\ IsList(log) /\ Events /\ KeptInFront /\ RunsOnce

(* An event that is added to the log does not disturb that, if it leaves *)
(* the leaders of the other rules, and its rule's if that has its key.   *)
Harmless(ev, rule, key) ==
  /\ log' = Append(log, Event(ev, rule, key))
  /\ IsList(m_pRuleResult')
  /\ ev = "add" => Leads(m_pRuleResult', rule, key)
  /\ ev = "run" => ~Leads(m_pRuleResult, rule, key)
  /\ \A r, k :
       /\ Leads(m_pRuleResult, r, k)
       /\ ev = "clear" => rule \notin {0, r}
       /\ r = rule => k = key
       => Leads(m_pRuleResult', r, k)

LEMMA LogGrows ==
  ASSUME NEW L, IsList(L), NEW e
  PROVE  /\ IsList(Append(L, e)) /\ Len(Append(L, e)) = Len(L) + 1 /\ Len(L) \in Nat
         /\ Append(L, e)[Len(L) + 1] = e
         /\ \A i \in 1 .. Len(L) : Append(L, e)[i] = L[i]
<1> DEFINE S == ToSet(L) \cup {e}
<1>1. L \in Seq(S) /\ e \in S
  <2>1. L \in Seq(ToSet(L))
    BY DEF IsList
  <2> QED
    BY <2>1
<1> HIDE DEF S
<1>2. /\ Append(L, e) \in Seq(S) /\ Len(Append(L, e)) = Len(L) + 1 /\ Len(L) \in Nat
      /\ Append(L, e)[Len(L) + 1] = e
  BY <1>1
<1>3. \A i \in 1 .. Len(L) : Append(L, e)[i] = L[i]
  BY <1>1
<1>4. IsList(Append(L, e))
  BY <1>2, ListOfSeq
<1> QED
  BY <1>2, <1>3, <1>4

LEMMA HarmlessEvent ==
  ASSUME NEW ev, NEW rule, NEW key, RunInv, Harmless(ev, rule, key)
  PROVE  RunInv'
<1> DEFINE n == Len(log)
<1>1. /\ IsList(log') /\ Len(log') = n + 1 /\ n \in Nat
      /\ log'[n + 1] = Event(ev, rule, key)
      /\ \A i \in 1 .. n : log'[i] = log[i]
  BY LogGrows DEF RunInv, Harmless
<1> HIDE DEF n
<1>2. ASSUME NEW i \in 1 .. n, Undone(i) PROVE Undone(i)'
  <2>1. \A m \in i .. n : m \in 1 .. n /\ m \in i .. n + 1
    BY <1>1
  <2>2. CASE Cleared(log[i].rule, i, n)
    BY <1>1, <2>1, <2>2 DEF Undone, Cleared
  <2>3. CASE \E m \in i .. n : log[m].rule = log[i].rule /\ log[m].key # log[i].key
    BY <1>1, <2>1, <2>3 DEF Undone
  <2> QED
    BY <1>2, <2>2, <2>3 DEF Undone, n
<1>3. Events'
  <2>1. ASSUME NEW j \in 1 .. n + 1 PROVE log'[j] = Event(log'[j].ev, log'[j].rule, log'[j].key)
    <3>1. CASE j = n + 1
      BY <1>1, <3>1 DEF Event
    <3>2. CASE j \in 1 .. n
      BY <1>1, <3>2 DEF RunInv, Events, Event, n
    <3> QED
      BY <1>1, <3>1, <3>2
  <2> QED
    BY <1>1, <2>1 DEF Events
<1>4. KeptInFront'
  <2> SUFFICES ASSUME NEW i \in 1 .. n + 1, log'[i].ev = "add", ~Undone(i)'
               PROVE  Leads(m_pRuleResult', log'[i].rule, log'[i].key)
    BY <1>1 DEF KeptInFront
  <2>1. CASE i = n + 1
    BY <1>1, <2>1 DEF Harmless, Event
  <2>2. CASE i \in 1 .. n
    <3>1. log'[i] = log[i] /\ log[i].ev = "add" /\ ~Undone(i)
      BY <1>1, <1>2, <2>2
    <3>2. Leads(m_pRuleResult, log[i].rule, log[i].key)
      BY <2>2, <3>1 DEF RunInv, KeptInFront, n
    <3>3. n + 1 \in i .. Len(log')
      BY <1>1
    <3>4. log'[n + 1].ev = "clear" => log'[n + 1].rule \notin {0, log'[i].rule}
      BY <3>3 DEF Undone, Cleared
    <3>5. log'[n + 1].rule = log'[i].rule => log'[n + 1].key = log'[i].key
      BY <3>3 DEF Undone
    <3>6. log'[n + 1].ev = ev /\ log'[n + 1].rule = rule /\ log'[n + 1].key = key
      BY <1>1 DEF Event
    <3> QED
      BY <3>1, <3>2, <3>4, <3>5, <3>6 DEF Harmless
  <2> QED
    BY <1>1, <2>1, <2>2
<1>5. RunsOnce'
  <2> SUFFICES ASSUME NEW i \in 1 .. n + 1, NEW j \in 1 .. n + 1, i < j, log'[j].ev = "run",
                      log'[i] = [log'[j] EXCEPT !.ev = "add"]
               PROVE  \/ Cleared(log[j].rule, i, j)'
                      \/ \E m \in i .. j : log'[m].rule = log'[j].rule /\ log'[m].key # log'[j].key
    <3>1. DOMAIN log' = 1 .. n + 1
      BY <1>1, ListProperties
    <3> QED
      BY <3>1 DEF RunsOnce
  <2>1. i \in 1 .. n /\ log'[i] = log[i]
    BY <1>1
  <2>2. log'[j] = Event(log'[j].ev, log'[j].rule, log'[j].key)
    BY <1>1, <1>3 DEF Events
  <2>3. log[i].ev = "add" /\ log[i].rule = log'[j].rule /\ log[i].key = log'[j].key
    BY <2>1, <2>2 DEF Event
  <2>4. CASE j = n + 1
    <3>1. ~Leads(m_pRuleResult, log[i].rule, log[i].key)
      BY <1>1, <2>3, <2>4 DEF Harmless, Event
    <3>2. Undone(i)
      BY <2>1, <2>3, <3>1 DEF RunInv, KeptInFront, n
    <3>3. Undone(i)'
      BY <1>2, <2>1, <3>2
    <3>4. Len(log') = j
      BY <1>1, <2>4
    <3> QED
      BY <2>1, <2>3, <3>3, <3>4 DEF Undone
  <2>5. CASE j \in 1 .. n
    <3>1. log'[j] = log[j] /\ DOMAIN log = 1 .. n
      BY <1>1, <2>5, ListProperties DEF RunInv, n
    <3>2. \/ Cleared(log[j].rule, i, j)
          \/ \E m \in i .. j : log[m].rule = log[j].rule /\ log[m].key # log[j].key
      BY <2>1, <2>5, <3>1 DEF RunInv, RunsOnce
    <3>3. \A m \in i .. j : m \in 1 .. n /\ log'[m] = log[m]
      BY <1>1, <2>1, <2>5
    <3>4. Cleared(log[j].rule, i, j) => Cleared(log[j].rule, i, j)'
      BY <3>1, <3>3 DEF Cleared
    <3> QED
      BY <3>1, <3>2, <3>3, <3>4
  <2> QED
    BY <1>1, <2>4, <2>5
<1> QED
  BY <1>1, <1>3, <1>4, <1>5 DEF RunInv, Harmless

(* A call, whatever kind it is: a hit changes nothing, a search that fails *)
(* finds no leader.                                                        *)
LEMMA CallIsHarmless ==
  ASSUME NEW call, NEW key, RunInv, Called(call, key)
  PROVE  RunInv'
<1> DEFINE rule == call.rule
<1>1. CASE Hit(rule, key) /\ log' = Append(log, Event("hit", rule, key)) /\ UNCHANGED m_pRuleResult
  BY <1>1, HarmlessEvent DEF Harmless, RunInv
<1>2. CASE /\ ~Hit(rule, key) /\ m_pRuleResult' = AfterSearch(rule, key)
           /\ log' = Append(log, Event("run", rule, key))
  <2>1. Unlinked(m_pRuleResult', m_pRuleResult, {rule})
    BY <1>2, Searched DEF RunInv
  <2>2. ~Leads(m_pRuleResult, rule, key)
    BY <1>2, LeaderIsHit DEF RunInv
  <2>3. Harmless("run", rule, key)
    BY <1>2, <2>1, <2>2 DEF Harmless, Unlinked
  <2> QED
    BY <2>3, HarmlessEvent
<1> QED
  BY <1>1, <1>2 DEF Called, Run, Frame

LEMMA DirectIsHarmless ==
  ASSUME NEW frame, RunInv, Run("direct", frame), UNCHANGED m_pRuleResult
  PROVE  RunInv'
<1>1. Harmless("direct", frame.of.rule, frame.key)
  BY DEF Harmless, Run, RunInv
<1> QED
  BY <1>1, HarmlessEvent

(* The invariant holds from the start and every step preserves it.         *)
LEMMA RunInductive ==
  /\ Init => RunInv
  /\ RunInv /\ [Next]_vars => RunInv'
<1>1. Init => RunInv
  <2> SUFFICES ASSUME Init PROVE RunInv
    OBVIOUS
  <2>1. m_pRuleResult = <<>> /\ log = <<>> /\ IsList(<<>>)
    BY DEF Init, IsList, ToSet
  <2>2. Len(log) = 0 /\ DOMAIN log = {}
    BY <2>1
  <2> QED
    BY <2>1, <2>2 DEF RunInv, Events, KeptInFront, RunsOnce
<1>2. RunInv /\ [Next]_vars => RunInv'
  <2> SUFFICES ASSUME RunInv, [Next]_vars PROVE RunInv'
    OBVIOUS
  <2>1. ASSUME NEW rule \in Rules, NEW args \in Arguments[rule], getRuleResultValue(rule, args)
        PROVE  RunInv'
    BY <2>1, CallIsHarmless DEF getRuleResultValue
  <2>2. ASSUME NEW rule \in Rules, GetRuleValue(rule) PROVE RunInv'
    BY <2>2, CallIsHarmless DEF GetRuleValue
  <2>3. ASSUME NEW rule \in Rules, NEW i \in 1 .. 2, ColumnRuleValue(rule, i) PROVE RunInv'
    BY <2>3, CallIsHarmless, DirectIsHarmless DEF ColumnRuleValue
  <2>4. ASSUME NEW rule \in Rules, RunByName(rule) PROVE RunInv'
    BY <2>4, DirectIsHarmless DEF RunByName
  <2>5. ASSUME NEW id \in Rules \cup {0}, DelRuleResultAll(id) PROVE RunInv'
    <3>1. /\ IsList(m_pRuleResult')
          /\ \A r, k : id \notin {0, r} /\ Leads(m_pRuleResult, r, k) => Leads(m_pRuleResult', r, k)
      BY <2>5, Cleansed DEF DelRuleResultAll, RunInv
    <3>2. Harmless("clear", id, <<>>)
      BY <2>5, <3>1 DEF Harmless, DelRuleResultAll
    <3> QED
      BY <3>2, HarmlessEvent
  <2>6. CASE Return
    <3> DEFINE f == Head(stack)
               A == (IF f.of.rule \in NoData THEN <<Result(f)>> ELSE <<>>)
                      \o (IF f.save THEN <<Result(f)>> ELSE <<>>)
    <3>1. A \in Seq({Result(f)})
      BY AddedResults DEF AddedBy
    <3>2. /\ m_pRuleResult' = A \o m_pRuleResult
          /\ log' = IF A = <<>> THEN log ELSE Append(log, Event("add", f.of.rule, f.key))
      BY <2>6 DEF Return
    <3>3. Result(f).ruleId = f.of.rule /\ Result(f).parmInfo = f.key
      BY DEF Result
    <3> HIDE DEF A, f
    <3>4. /\ IsList(m_pRuleResult')
          /\ A # <<>> => Leads(m_pRuleResult', f.of.rule, f.key)
          /\ \A r, k : (A = <<>> \/ r # f.of.rule) /\ Leads(m_pRuleResult, r, k)
                          => Leads(m_pRuleResult', r, k)
      BY <3>1, <3>2, <3>3, Prepended DEF RunInv
    <3>5. CASE A = <<>>
      <4>1. log' = log
        BY <3>2, <3>5
      <4>2. ASSUME NEW i \in 1 .. Len(log), log[i].ev = "add", ~Undone(i)
            PROVE  Leads(m_pRuleResult', log[i].rule, log[i].key)
        BY <3>4, <3>5, <4>2 DEF RunInv, KeptInFront
      <4>3. KeptInFront'
        BY <4>1, <4>2 DEF KeptInFront, Undone, Cleared
      <4> QED
        BY <3>4, <4>1, <4>3 DEF RunInv, Events, RunsOnce, Cleared
    <3>6. CASE A # <<>>
      <4>1. Harmless("add", f.of.rule, f.key)
        BY <3>2, <3>4, <3>6 DEF Harmless
      <4> QED
        BY <4>1, HarmlessEvent
    <3> QED
      BY <3>5, <3>6
  <2>7. CASE Raise
    BY <2>7 DEF Raise, RunInv, Events, KeptInFront, Undone, Cleared, RunsOnce
  <2>8. CASE UNCHANGED vars
    BY <2>8 DEF vars, RunInv, Events, KeptInFront, Undone, Cleared, RunsOnce
  <2> QED
    BY <2>1, <2>2, <2>3, <2>4, <2>5, <2>6, <2>7, <2>8 DEF Next
<1> QED
  BY <1>1, <1>2

LEMMA RunInvariance == Spec => []RunInv
<1> QED
  BY RunInductive, PTL DEF Spec

(* A rule is run again for the same arguments only after it was cleared or      *)
(* met with others, for every set of rules and arguments: as long as none of    *)
(* this happens the result that was added is the first of its rule in the list, *)
(* where the next search finds it (GetRuleResult).                              *)
THEOREM RulesRunOnce == Spec => []RunsOnce
<1>1. RunInv => RunsOnce
  BY DEF RunInv
<1> QED
  BY <1>1, RunInvariance, PTL

-----------------------------------------------------------------------------
(* What the text of the arguments tells apart                              *)

LEMMA SignedText ==
  ASSUME NEW n \in Int, NEW m \in Nat
  PROVE  /\ Signed(n, <<m>>) = IF n < 0 THEN <<MINUS, m>> ELSE <<m>>
         /\ Signed(n, <<m>>) \in Seq(Char)
         /\ \A k \in DOMAIN Signed(n, <<m>>) : Signed(n, <<m>>)[k] # BAR
<1>1. MINUS \in Char /\ m \in Char /\ MINUS # BAR /\ m # BAR
  BY DEF Char, MINUS, BAR
<1>2. <<MINUS>> \o <<m>> = <<MINUS, m>>
  <2> DEFINE A == <<MINUS>>
             B == <<m>>
             C == <<MINUS, m>>
  <2>1. /\ A \in Seq(Int) /\ Len(A) = 1 /\ A[1] = MINUS
        /\ B \in Seq(Int) /\ Len(B) = 1 /\ B[1] = m
        /\ C \in Seq(Int) /\ Len(C) = 2 /\ C[1] = MINUS /\ C[2] = m
    BY DEF MINUS
  <2> HIDE DEF A, B, C
  <2>2. PICK D : D = A \o B
    OBVIOUS
  <2>3. /\ D \in Seq(Int) /\ Len(D) = Len(A) + Len(B)
        /\ \A k \in 1 .. Len(A) : D[k] = A[k]
        /\ \A k \in 1 .. Len(B) : D[Len(A) + k] = B[k]
    <3>1. PICK S : S = Int
      OBVIOUS
    <3>2. A \in Seq(S) /\ B \in Seq(S)
      BY <2>1, <3>1
    <3>3. /\ D \in Seq(S) /\ Len(D) = Len(A) + Len(B)
          /\ \A k \in 1 .. Len(A) : D[k] = A[k]
          /\ \A k \in 1 .. Len(B) : D[Len(A) + k] = B[k]
      BY <2>2, <3>2, Joined
    <3> QED
      BY <3>1, <3>3
  <2>4. Len(D) = 2 /\ D[1] = MINUS /\ D[2] = m
    <3>1. D[1] = A[1] /\ D[1 + 1] = B[1]
      BY <2>1, <2>3
    <3> QED
      BY <2>1, <2>3, <3>1
  <2>5. C = [k \in 1 .. Len(C) |-> C[k]] /\ D = [k \in 1 .. Len(D) |-> D[k]]
    <3>1. \A E \in Seq(Int) : E = [k \in 1 .. Len(E) |-> E[k]]
      OBVIOUS
    <3> QED
      BY <2>1, <2>3, <3>1, Zenon
  <2>6. \A k \in 1 .. 2 : C[k] = D[k]
    BY <2>1, <2>4
  <2>7. C = D
    BY <2>1, <2>4, <2>5, <2>6
  <2> QED
    BY <2>2, <2>7 DEF A, B, C
<1>3. Signed(n, <<m>>) = IF n < 0 THEN <<MINUS, m>> ELSE <<m>>
  BY <1>2 DEF Signed
<1>4. /\ <<MINUS, m>> \in Seq(Char) /\ <<m>> \in Seq(Char)
      /\ \A k \in DOMAIN <<MINUS, m>> : <<MINUS, m>>[k] # BAR
      /\ \A k \in DOMAIN <<m>> : <<m>>[k] # BAR
  BY <1>1
<1>5. CASE n < 0
  BY <1>3, <1>4, <1>5
<1>6. CASE ~(n < 0)
  BY <1>3, <1>4, <1>6
<1> QED
  BY <1>5, <1>6

LEMMA SignedEqual ==
  ASSUME NEW i \in Int, NEW j \in Int, NEW m \in Nat, NEW n \in Nat,
         Signed(i, <<m>>) = Signed(j, <<n>>)
  PROVE  (i < 0 <=> j < 0) /\ m = n
<1>1. (IF i < 0 THEN <<MINUS, m>> ELSE <<m>>) = (IF j < 0 THEN <<MINUS, n>> ELSE <<n>>)
  BY SignedText
<1>2. <<MINUS, m>> # <<n>> /\ <<m>> # <<MINUS, n>>
  <2>1. Len(<<MINUS, m>>) = 2 /\ Len(<<n>>) = 1 /\ Len(<<m>>) = 1 /\ Len(<<MINUS, n>>) = 2
    OBVIOUS
  <2> QED
    BY <2>1
<1>3. (<<MINUS, m>> = <<MINUS, n>> => m = n) /\ (<<m>> = <<n>> => m = n)
  OBVIOUS
<1> QED
  BY <1>1, <1>2, <1>3

(* Rounding moves a number by half of one, which is five tenths, at most.  *)
LEMMA RoundedNear ==
  ASSUME NEW n \in Nat
  PROVE  Rounded(n) \in Nat /\ n - 10 * Rounded(n) \in -5 .. 5
<1> DEFINE q == n \div 10
           r == n % 10
<1>1. q \in Nat /\ r \in 0 .. 9 /\ n = 10 * q + r
  OBVIOUS
<1>2. Rounded(n) = IF r > 5 \/ (r = 5 /\ q % 2 = 1) THEN q + 1 ELSE q
  BY DEF Rounded
<1> HIDE DEF q, r
<1> QED
  BY <1>1, <1>2

LEMMA MagnitudeIsNat ==
  ASSUME NEW n \in Int
  PROVE  Magnitude(n) \in Nat
BY DEF Magnitude

(* The text of an argument, by its type.                                   *)
LEMMA KeyTexts ==
  ASSUME NEW x \in Argument
  PROVE  \/ x.t = "LONG" /\ x.v \in Int /\ KeyText(x) = Signed(x.v, <<Magnitude(x.v)>>)
         \/ x.t = "DOUBLE" /\ x.v \in Int /\ KeyText(x) = Signed(x.v, <<Rounded(Magnitude(x.v))>>)
         \/ x.t = "STRING" /\ x.v \in Seq(Char) /\ KeyText(x) = x.v
         \/ x.t \in {"BOOL", "NONE"} /\ KeyText(x) = <<>>
<1>1. CASE x \in [t : {"LONG", "DOUBLE"}, v : Int]
  BY <1>1 DEF KeyText
<1>2. CASE x \in [t : {"STRING"}, v : Seq(Char)]
  BY <1>2 DEF KeyText
<1>3. CASE x \in [t : {"BOOL"}, v : BOOLEAN]
  <2>1. x.t = "BOOL"
    BY <1>3
  <2> QED
    BY <2>1 DEF KeyText
<1>4. CASE x \in [t : {"NONE"}, v : {0}]
  <2>1. x.t = "NONE"
    BY <1>4
  <2> QED
    BY <2>1 DEF KeyText
<1> QED
  BY <1>1, <1>2, <1>3, <1>4 DEF Argument

(* Texts without a bar.                                                    *)
Barless(x) == x \in Seq(Char) /\ \A k \in DOMAIN x : x[k] # BAR

LEMMA KeyTextIsText ==
  ASSUME NEW x \in Argument
  PROVE  /\ KeyText(x) \in Seq(Char)
         /\ (x.t = "STRING" => \A k \in DOMAIN x.v : x.v[k] # BAR) => Barless(KeyText(x))
<1>1. CASE x.t = "LONG" /\ x.v \in Int /\ KeyText(x) = Signed(x.v, <<Magnitude(x.v)>>)
  BY <1>1, MagnitudeIsNat, SignedText DEF Barless
<1>2. CASE x.t = "DOUBLE" /\ x.v \in Int /\ KeyText(x) = Signed(x.v, <<Rounded(Magnitude(x.v))>>)
  <2>1. Rounded(Magnitude(x.v)) \in Nat
    BY <1>2, MagnitudeIsNat, RoundedNear
  <2> QED
    BY <1>2, <2>1, SignedText DEF Barless
<1>3. CASE x.t = "STRING" /\ x.v \in Seq(Char) /\ KeyText(x) = x.v
  BY <1>3 DEF Barless
<1>4. CASE KeyText(x) = <<>>
  BY <1>4 DEF Barless
<1> QED
  BY <1>1, <1>2, <1>3, <1>4, KeyTexts

LEMMA ColumnTextIsText ==
  ASSUME NEW x \in Argument
  PROVE  ColumnText(x) \in Seq(Char)
<1>1. CASE x.t = "DOUBLE"
  <2> DEFINE m == Magnitude(x.v)
             q == m \div 10
             r == m % 10
  <2>1. x.v \in Int
    BY <1>1 DEF Argument
  <2>2. m \in Nat
    BY <2>1, MagnitudeIsNat
  <2> HIDE DEF m
  <2>3. q \in Nat /\ r \in Nat
    BY <2>2
  <2> HIDE DEF q, r
  <2>4. q \in Char /\ r \in Char /\ POINT \in Char /\ MINUS \in Char
    BY <2>3 DEF Char
  <2> HIDE DEF Char
  <2>5. <<q, POINT, r>> \in Seq(Char) /\ <<MINUS>> \o <<q, POINT, r>> \in Seq(Char)
    BY <2>4
  <2>6. ColumnText(x) = Signed(x.v, <<q, POINT, r>>)
    BY <1>1 DEF ColumnText, m, q, r
  <2> QED
    BY <2>5, <2>6 DEF Signed
<1>2. CASE x.t # "DOUBLE"
  BY <1>2, KeyTextIsText DEF ColumnText
<1> QED
  BY <1>1, <1>2

(* Arguments with one text are alike.                                      *)
LEMMA OneTextAlike ==
  ASSUME NEW x \in Argument, NEW y \in Argument, KeyText(x) = KeyText(y)
  PROVE  AlikeArgument(x, y)
<1>1. CASE x.t # y.t
  BY <1>1 DEF AlikeArgument
<1>2. CASE x.t = y.t /\ x.t = "STRING"
  BY <1>2, KeyTexts DEF AlikeArgument
<1>3. CASE x.t = y.t /\ x.t = "LONG"
  <2>1. x.v \in Int /\ y.v \in Int
    BY <1>3, KeyTexts
  <2>2. Magnitude(x.v) \in Nat /\ Magnitude(y.v) \in Nat
    BY <2>1, MagnitudeIsNat
  <2>3. Signed(x.v, <<Magnitude(x.v)>>) = Signed(y.v, <<Magnitude(y.v)>>)
    BY <1>3, KeyTexts
  <2>4. (x.v < 0 <=> y.v < 0) /\ Magnitude(x.v) = Magnitude(y.v)
    BY <2>1, <2>2, <2>3, SignedEqual
  <2>5. x.v = y.v
    BY <2>1, <2>4 DEF Magnitude
  <2> QED
    BY <1>3, <2>5 DEF AlikeArgument
<1>4. CASE x.t = y.t /\ x.t = "DOUBLE"
  <2>1. x.v \in Int /\ y.v \in Int
    BY <1>4, KeyTexts
  <2> DEFINE m == Magnitude(x.v)
             n == Magnitude(y.v)
  <2>2. m \in Nat /\ n \in Nat
    BY <2>1, MagnitudeIsNat
  <2>3. /\ Rounded(m) \in Nat /\ m - 10 * Rounded(m) \in -5 .. 5
        /\ Rounded(n) \in Nat /\ n - 10 * Rounded(n) \in -5 .. 5
    BY <2>2, RoundedNear
  <2>4. Signed(x.v, <<Rounded(m)>>) = Signed(y.v, <<Rounded(n)>>)
    BY <1>4, KeyTexts
  <2>5. (x.v < 0 <=> y.v < 0) /\ Rounded(m) = Rounded(n)
    BY <2>1, <2>3, <2>4, SignedEqual
  <2>6. m - n \in -10 .. 10
    BY <2>2, <2>3, <2>5
  <2>7. x.v - y.v \in -10 .. 10
    BY <2>1, <2>5, <2>6 DEF Magnitude
  <2> QED
    BY <1>4, <2>7 DEF AlikeArgument
<1>5. CASE x.t = y.t /\ x.t \notin {"LONG", "DOUBLE", "STRING"}
  BY <1>5 DEF AlikeArgument
<1> QED
  BY <1>1, <1>2, <1>3, <1>4, <1>5

-----------------------------------------------------------------------------
(* The texts of a list of arguments, one after the other                   *)

FlattenBody(seqs, f, i) == IF i = 1 THEN seqs[i] ELSE f[i - 1] \o seqs[i]

Flat(seqs) == CHOOSE f : f = [i \in 1 .. Len(seqs) |-> FlattenBody(seqs, f, i)]

(* F is right for all places up to m.                                      *)
FlatUpTo(seqs, f, m) == \A i \in Nat : 1 <= i /\ i <= m => f[i] = FlattenBody(seqs, f, i)

LEMMA NextFlat ==
  ASSUME NEW seqs, NEW m \in Nat, NEW g, FlatUpTo(seqs, g, m),
         NEW f, f = [i \in 1 .. m + 1 |-> FlattenBody(seqs, g, i)]
  PROVE  FlatUpTo(seqs, f, m + 1)
<1> SUFFICES ASSUME NEW i \in Nat, 1 <= i, i <= m + 1 PROVE f[i] = FlattenBody(seqs, f, i)
  BY DEF FlatUpTo
<1>1. i \in 1 .. m + 1 /\ f[i] = FlattenBody(seqs, g, i)
  OBVIOUS
<1>2. CASE i = 1
  BY <1>1, <1>2 DEF FlattenBody
<1>3. CASE i # 1
  <2>1. i - 1 \in 1 .. m + 1 /\ i - 1 \in Nat /\ 1 <= i - 1 /\ i - 1 <= m
    BY <1>3
  <2>2. f[i - 1] = g[i - 1]
    BY <2>1 DEF FlatUpTo
  <2> QED
    BY <1>1, <1>3, <2>2 DEF FlattenBody
<1> QED
  BY <1>2, <1>3

(* The function that FlattenSeq chooses exists.                            *)
LEMMA FlatExists ==
  ASSUME NEW seqs, Len(seqs) \in Nat
  PROVE  /\ \A i \in 1 .. Len(seqs) : Flat(seqs)[i] = FlattenBody(seqs, Flat(seqs), i)
         /\ FlattenSeq(seqs) = IF Len(seqs) = 0 THEN seqs ELSE Flat(seqs)[Len(seqs)]
<1> DEFINE T == {m \in Nat : ~ \E g : FlatUpTo(seqs, g, m)}
<1>1. T = {}
  <2> SUFFICES ASSUME T # {} PROVE FALSE
    OBVIOUS
  <2>1. PICK m \in T : \A j \in T : m <= j
    BY LeastNumber
  <2>2. FlatUpTo(seqs, 0, 0)
    BY DEF FlatUpTo
  <2>3. m \in Nat /\ m # 0
    BY <2>1, <2>2
  <2>4. m - 1 \in Nat /\ m - 1 \notin T /\ m - 1 + 1 = m
    BY <2>1, <2>3
  <2>5. PICK g : FlatUpTo(seqs, g, m - 1)
    BY <2>4
  <2>6. FlatUpTo(seqs, [i \in 1 .. m - 1 + 1 |-> FlattenBody(seqs, g, i)], m - 1 + 1)
    BY <2>4, <2>5, NextFlat
  <2> QED
    BY <2>1, <2>4, <2>6
<1>2. PICK g : FlatUpTo(seqs, g, Len(seqs))
  BY <1>1
<1> DEFINE f == [i \in 1 .. Len(seqs) |-> g[i]]
<1>3. ASSUME NEW i \in 1 .. Len(seqs) PROVE f[i] = FlattenBody(seqs, f, i)
  <2>1. g[i] = FlattenBody(seqs, g, i) /\ f[i] = g[i]
    BY <1>2 DEF FlatUpTo
  <2>2. i # 1 => f[i - 1] = g[i - 1]
    OBVIOUS
  <2> QED
    BY <2>1, <2>2 DEF FlattenBody
<1>4. f = [i \in 1 .. Len(seqs) |-> FlattenBody(seqs, f, i)]
  <2>1. f = [i \in 1 .. Len(seqs) |-> f[i]]
    OBVIOUS
  <2> HIDE DEF f
  <2> QED
    BY <1>3, <2>1
<1> HIDE DEF f
<1>5. Flat(seqs) = [i \in 1 .. Len(seqs) |-> FlattenBody(seqs, Flat(seqs), i)]
  BY <1>4, Zenon DEF Flat
<1>6. FlattenSeq(seqs) = IF Len(seqs) = 0 THEN seqs ELSE Flat(seqs)[Len(seqs)]
  BY Zenon DEF FlattenSeq, Flat, FlattenBody
<1> HIDE DEF Flat
<1> QED
  BY <1>5, <1>6

(* The text of the first n arguments.                                      *)
Piece(args, i) == (IF i > 1 /\ args[i].t # "NONE" THEN SEP ELSE <<>>) \o KeyText(args[i])
Pieces(args) == [i \in DOMAIN args |-> Piece(args, i)]
Begin(args, n) == Flat(Pieces(args))[n]

LEMMA Beginnings ==
  ASSUME NEW args \in Seq(Argument), args # <<>>
  PROVE  /\ Len(args) \in Nat /\ Len(args) >= 1
         /\ sKey(args) = Begin(args, Len(args))
         /\ Begin(args, 1) = KeyText(args[1])
         /\ \A i \in 2 .. Len(args) :
              args[i].t # "NONE" => Begin(args, i) = Begin(args, i - 1) \o (SEP \o KeyText(args[i]))
<1> DEFINE P == Pieces(args)
<1>1. Len(args) \in Nat /\ Len(args) >= 1 /\ DOMAIN args = 1 .. Len(args) /\ args[1] \in Argument
  OBVIOUS
<1>2. Len(P) = Len(args) /\ \A i \in 1 .. Len(args) : P[i] = Piece(args, i)
  BY <1>1 DEF Pieces
<1>3. sKey(args) = FlattenSeq(P)
  BY DEF sKey, Pieces, Piece
<1> HIDE DEF P
<1>4. /\ \A i \in 1 .. Len(P) : Flat(P)[i] = FlattenBody(P, Flat(P), i)
      /\ FlattenSeq(P) = IF Len(P) = 0 THEN P ELSE Flat(P)[Len(P)]
  BY <1>1, <1>2, FlatExists
<1>5. sKey(args) = Begin(args, Len(args))
  BY <1>1, <1>2, <1>3, <1>4 DEF Begin, P
<1>6. Begin(args, 1) = KeyText(args[1])
  <2>1. Begin(args, 1) = Piece(args, 1)
    BY <1>1, <1>2, <1>4 DEF Begin, FlattenBody, P
  <2>2. Piece(args, 1) = <<>> \o KeyText(args[1])
    BY DEF Piece
  <2>3. KeyText(args[1]) \in Seq(Char)
    BY <1>1, KeyTextIsText
  <2> QED
    BY <2>1, <2>2, <2>3
<1>7. ASSUME NEW i \in 2 .. Len(args), args[i].t # "NONE"
      PROVE  Begin(args, i) = Begin(args, i - 1) \o (SEP \o KeyText(args[i]))
  <2>1. i \in 1 .. Len(P) /\ i # 1 /\ i > 1 /\ i \in 1 .. Len(args)
    BY <1>1, <1>2
  <2>2. Flat(P)[i] = Flat(P)[i - 1] \o P[i]
    BY <1>4, <2>1 DEF FlattenBody
  <2>3. P[i] = SEP \o KeyText(args[i])
    BY <1>2, <1>7, <2>1 DEF Piece
  <2> QED
    BY <2>2, <2>3 DEF Begin, P
<1> QED
  BY <1>1, <1>5, <1>6, <1>7

LEMMA PlainTexts ==
  ASSUME NEW args \in Seq(Argument), Plain(args), NEW i \in 1 .. Len(args)
  PROVE  Barless(KeyText(args[i])) /\ args[i].t # "NONE"
<1>1. i \in DOMAIN args /\ args[i] \in Argument
  OBVIOUS
<1>2. /\ args[i].t # "NONE"
      /\ args[i].t = "STRING" => \A k \in DOMAIN args[i].v : args[i].v[k] # BAR
  BY <1>1 DEF Plain
<1> QED
  BY <1>1, <1>2, KeyTextIsText

LEMMA BeginIsText ==
  ASSUME NEW args \in Seq(Argument), args # <<>>, Plain(args)
  PROVE  \A n \in 1 .. Len(args) : Begin(args, n) \in Seq(Char)
<1> DEFINE T == {n \in Nat : n \in 1 .. Len(args) /\ Begin(args, n) \notin Seq(Char)}
<1> SUFFICES ASSUME T # {} PROVE FALSE
  OBVIOUS
<1>1. PICK n \in T : \A j \in T : n <= j
  BY LeastNumber
<1>2. n \in Nat /\ n \in 1 .. Len(args) /\ Begin(args, n) \notin Seq(Char)
  BY <1>1
<1>3. Len(args) \in Nat /\ args[1] \in Argument /\ args[n] \in Argument /\ args[n].t # "NONE"
  BY <1>2, Beginnings DEF Plain
<1>4. n # 1
  BY <1>2, <1>3, Beginnings, KeyTextIsText
<1>5. n - 1 \in Nat /\ n - 1 \in 1 .. Len(args) /\ n - 1 \notin T /\ n \in 2 .. Len(args)
  BY <1>1, <1>2, <1>3, <1>4
<1>6. Begin(args, n - 1) \in Seq(Char)
  BY <1>5
<1>7. KeyText(args[n]) \in Seq(Char) /\ SEP \in Seq(Char)
  <2>1. BAR \in Char
    BY DEF Char
  <2> QED
    BY <1>3, <2>1, KeyTextIsText DEF SEP
<1>8. Begin(args, n) = Begin(args, n - 1) \o (SEP \o KeyText(args[n]))
  BY <1>3, <1>5, Beginnings
<1> QED
  BY <1>2, <1>6, <1>7, <1>8

LEMMA PlainBeginnings ==
  ASSUME NEW args \in Seq(Argument), args # <<>>, Plain(args)
  PROVE  /\ Begin(args, 1) = KeyText(args[1])
         /\ \A i \in 2 .. Len(args) : Begin(args, i) = Begin(args, i - 1) \o (SEP \o KeyText(args[i]))
         /\ \A i \in 1 .. Len(args) : Begin(args, i) \in Seq(Char)
<1>1. ASSUME NEW i \in 2 .. Len(args)
      PROVE  Begin(args, i) = Begin(args, i - 1) \o (SEP \o KeyText(args[i]))
  <2>1. i \in 1 .. Len(args)
    BY Beginnings
  <2>2. args[i].t # "NONE"
    BY <2>1, PlainTexts
  <2> QED
    BY <2>2, Beginnings
<1> QED
  BY <1>1, Beginnings, BeginIsText

(* W is P, two bars and x, which has none.                                 *)
Barred(P, x, W) ==
  /\ Len(P) \in Nat /\ Len(x) \in Nat /\ Len(W) = Len(P) + 2 + Len(x)
  /\ DOMAIN W = 1 .. Len(W)
  /\ \A i \in 1 .. Len(P) : W[i] = P[i]
  /\ W[Len(P) + 2] = BAR
  /\ \A i \in 1 .. Len(x) : W[Len(P) + 2 + i] = x[i]
  /\ \A i \in Len(P) + 3 .. Len(W) : W[i] # BAR

LEMMA BehindBar ==
  ASSUME NEW P \in Seq(Char), NEW x, Barless(x), NEW W, W = P \o (SEP \o x)
  PROVE  Barred(P, x, W)
<1> DEFINE Q == SEP \o x
<1>1. x \in Seq(Char) /\ Len(x) \in Nat /\ \A i \in 1 .. Len(x) : x[i] # BAR
  BY DEF Barless
<1>2. SEP \in Seq(Char) /\ Len(SEP) = 2 /\ SEP[2] = BAR
  <2>1. BAR \in Char
    BY DEF Char
  <2> HIDE DEF Char
  <2> QED
    BY <2>1 DEF SEP
<1>3. /\ Q \in Seq(Char) /\ Len(Q) = 2 + Len(x)
      /\ \A k \in 1 .. 2 : Q[k] = SEP[k]
      /\ \A k \in 1 .. Len(x) : Q[2 + k] = x[k]
  <2>1. /\ Q \in Seq(Char) /\ Len(Q) = Len(SEP) + Len(x)
        /\ \A k \in 1 .. Len(SEP) : Q[k] = SEP[k]
        /\ \A k \in 1 .. Len(x) : Q[Len(SEP) + k] = x[k]
    <3>1. SEP \in Seq(Char) /\ x \in Seq(Char)
      BY <1>1, <1>2
    <3> QED
      BY <3>1, Joined
  <2> HIDE DEF Q
  <2> QED
    BY <1>2, <2>1
<1> HIDE DEF Q
<1>4. /\ W \in Seq(Char) /\ Len(W) = Len(P) + Len(Q) /\ Len(P) \in Nat
      /\ \A k \in 1 .. Len(P) : W[k] = P[k]
      /\ \A k \in 1 .. Len(Q) : W[Len(P) + k] = Q[k]
  <2>1. Q \in Seq(Char) /\ W = P \o Q
    BY <1>3 DEF Q
  <2> QED
    BY <2>1, Joined
<1>5. W[Len(P) + 2] = BAR
  BY <1>1, <1>2, <1>3, <1>4
<1>6. ASSUME NEW i \in 1 .. Len(x) PROVE W[Len(P) + 2 + i] = x[i]
  <2>1. 2 + i \in 1 .. Len(Q) /\ Len(P) + (2 + i) = Len(P) + 2 + i
    BY <1>1, <1>3, <1>4
  <2> QED
    BY <1>3, <1>4, <2>1
<1>7. ASSUME NEW i \in Len(P) + 3 .. Len(W) PROVE W[i] # BAR
  <2>1. i - (Len(P) + 2) \in 1 .. Len(x) /\ Len(P) + 2 + (i - (Len(P) + 2)) = i
    BY <1>1, <1>3, <1>4
  <2> QED
    BY <1>1, <1>6, <2>1
<1>8. DOMAIN W = 1 .. Len(W)
  BY <1>4
<1>9. Len(P) \in Nat /\ Len(x) \in Nat /\ Len(W) = Len(P) + 2 + Len(x)
  BY <1>1, <1>3, <1>4
<1>10. \A i \in 1 .. Len(P) : W[i] = P[i]
  BY <1>4
<1> QED
  BY <1>5, <1>6, <1>7, <1>8, <1>9, <1>10, Zenon DEF Barred

LEMMA BarBetween ==
  ASSUME NEW P \in Seq(Char), NEW x, Barless(x)
  PROVE  ~Barless(P \o (SEP \o x))
<1>1. PICK W : W = P \o (SEP \o x)
  OBVIOUS
<1>2. Barred(P, x, W)
  BY <1>1, BehindBar
<1>3. Len(P) + 2 \in DOMAIN W /\ W[Len(P) + 2] = BAR
  BY <1>2 DEF Barred
<1>4. ~Barless(W)
  BY <1>3 DEF Barless
<1> QED
  BY <1>1, <1>4

(* The last bar of a text is that of its last separator.                   *)
LEMMA LastBar ==
  ASSUME NEW P \in Seq(Char), NEW Q \in Seq(Char), NEW x, NEW y, Barless(x), Barless(y),
         P \o (SEP \o x) = Q \o (SEP \o y)
  PROVE  P = Q /\ x = y
<1>1. PICK W : W = P \o (SEP \o x) /\ W = Q \o (SEP \o y)
  OBVIOUS
<1>2. Barred(P, x, W) /\ Barred(Q, y, W)
  BY <1>1, BehindBar
<1>3. Len(P) \in Nat /\ Len(Q) \in Nat /\ Len(x) \in Nat /\ Len(y) \in Nat
  BY <1>2 DEF Barred
<1>4. Len(P) = Len(Q) /\ Len(x) = Len(y)
  <2>1. ~(Len(P) < Len(Q))
    <3>1. Len(P) < Len(Q) => Len(Q) + 2 \in Len(P) + 3 .. Len(W)
      BY <1>2, <1>3 DEF Barred
    <3> QED
      BY <1>2, <3>1 DEF Barred
  <2>2. ~(Len(Q) < Len(P))
    <3>1. Len(Q) < Len(P) => Len(P) + 2 \in Len(Q) + 3 .. Len(W)
      BY <1>2, <1>3 DEF Barred
    <3> QED
      BY <1>2, <3>1 DEF Barred
  <2> QED
    BY <1>2, <1>3, <2>1, <2>2 DEF Barred
<1>5. P = Q
  <2>1. P = [i \in 1 .. Len(P) |-> P[i]] /\ Q = [i \in 1 .. Len(Q) |-> Q[i]]
    OBVIOUS
  <2>2. \A i \in 1 .. Len(P) : P[i] = Q[i]
    BY <1>2, <1>4 DEF Barred
  <2> QED
    BY <1>4, <2>1, <2>2
<1>6. x = y
  <2>1. x = [i \in 1 .. Len(x) |-> x[i]] /\ y = [i \in 1 .. Len(y) |-> y[i]]
    BY DEF Barless
  <2>2. \A i \in 1 .. Len(x) : x[i] = y[i]
    BY <1>2, <1>4 DEF Barred
  <2> QED
    BY <1>4, <2>1, <2>2
<1> QED
  BY <1>5, <1>6

(* Plain arguments with one text: as many of them, and each with the text of *)
(* the other.                                                                *)
SamePlaces(a, b, n) == \A i \in 1 .. n : KeyText(a[i]) = KeyText(b[i])

LEMMA SameText ==
  ASSUME NEW a \in Seq(Argument), NEW b \in Seq(Argument), a # <<>>, b # <<>>,
         Plain(a), Plain(b), sKey(a) = sKey(b)
  PROVE  Len(a) = Len(b) /\ SamePlaces(a, b, Len(a))
<1> DEFINE Known(n) ==
             \A m \in 1 .. Len(b) : Begin(a, n) = Begin(b, m) => n = m /\ SamePlaces(a, b, n)
           T == {n \in Nat : n \in 1 .. Len(a) /\ ~Known(n)}
<1>1. Len(a) \in Nat /\ Len(a) >= 1 /\ Len(b) \in Nat /\ Len(b) >= 1
  BY Beginnings
<1>2. \A i \in 1 .. Len(a) : Barless(KeyText(a[i])) /\ a[i].t # "NONE"
  BY PlainTexts
<1>3. \A i \in 1 .. Len(b) : Barless(KeyText(b[i])) /\ b[i].t # "NONE"
  BY PlainTexts
<1>4. /\ Begin(a, 1) = KeyText(a[1])
      /\ \A i \in 2 .. Len(a) : Begin(a, i) = Begin(a, i - 1) \o (SEP \o KeyText(a[i]))
      /\ \A i \in 1 .. Len(a) : Begin(a, i) \in Seq(Char)
  BY PlainBeginnings
<1>5. /\ Begin(b, 1) = KeyText(b[1])
      /\ \A i \in 2 .. Len(b) : Begin(b, i) = Begin(b, i - 1) \o (SEP \o KeyText(b[i]))
      /\ \A i \in 1 .. Len(b) : Begin(b, i) \in Seq(Char)
  BY PlainBeginnings
<1> HIDE DEF Known
<1>6. ASSUME NEW n \in 1 .. Len(a), n # 1 => Known(n - 1) PROVE Known(n)
  <2> SUFFICES ASSUME NEW m \in 1 .. Len(b), Begin(a, n) = Begin(b, m)
               PROVE  n = m /\ SamePlaces(a, b, n)
    BY DEF Known
  <2>1. CASE n = 1 /\ m = 1
    BY <1>4, <1>5, <2>1 DEF SamePlaces
  <2>2. CASE n = 1 /\ m # 1
    <3>1. m - 1 \in 1 .. Len(b) /\ m \in 2 .. Len(b)
      BY <1>1, <2>2
    <3>2. KeyText(a[1]) = Begin(b, m - 1) \o (SEP \o KeyText(b[m]))
      BY <1>4, <1>5, <2>2, <3>1
    <3>3. ~Barless(KeyText(a[1]))
      <4>1. Begin(b, m - 1) \in Seq(Char) /\ Barless(KeyText(b[m]))
        BY <1>3, <1>5, <3>1
      <4> QED
        BY <3>2, <4>1, BarBetween
    <3> QED
      BY <1>1, <1>2, <3>3
  <2>3. CASE n # 1 /\ m = 1
    <3>1. n - 1 \in 1 .. Len(a) /\ n \in 2 .. Len(a)
      BY <1>1, <2>3
    <3>2. KeyText(b[1]) = Begin(a, n - 1) \o (SEP \o KeyText(a[n]))
      BY <1>4, <1>5, <2>3, <3>1
    <3>3. ~Barless(KeyText(b[1]))
      <4>1. Begin(a, n - 1) \in Seq(Char) /\ Barless(KeyText(a[n]))
        BY <1>2, <1>4, <3>1
      <4> QED
        BY <3>2, <4>1, BarBetween
    <3> QED
      BY <1>1, <1>3, <3>3
  <2>4. CASE n # 1 /\ m # 1
    <3>1. n - 1 \in 1 .. Len(a) /\ n \in 2 .. Len(a) /\ m - 1 \in 1 .. Len(b) /\ m \in 2 .. Len(b)
      BY <1>1, <2>4
    <3>2. Begin(a, n - 1) \o (SEP \o KeyText(a[n])) = Begin(b, m - 1) \o (SEP \o KeyText(b[m]))
      BY <1>4, <1>5, <3>1
    <3>3. /\ Begin(a, n - 1) \in Seq(Char) /\ Begin(b, m - 1) \in Seq(Char)
          /\ Barless(KeyText(a[n])) /\ Barless(KeyText(b[m]))
      BY <1>2, <1>3, <1>4, <1>5, <3>1
    <3>4. Begin(a, n - 1) = Begin(b, m - 1) /\ KeyText(a[n]) = KeyText(b[m])
      BY <3>2, <3>3, LastBar
    <3>5. n - 1 = m - 1 /\ SamePlaces(a, b, n - 1)
      BY <1>6, <2>4, <3>1, <3>4 DEF Known
    <3>6. n = m /\ \A i \in 1 .. n : i \in 1 .. n - 1 \/ i = n
      BY <1>1, <3>5
    <3> QED
      BY <3>4, <3>5, <3>6 DEF SamePlaces
  <2> QED
    BY <2>1, <2>2, <2>3, <2>4
<1>7. T = {}
  <2> SUFFICES ASSUME T # {} PROVE FALSE
    OBVIOUS
  <2>1. PICK n \in T : \A j \in T : n <= j
    BY LeastNumber
  <2>2. n \in 1 .. Len(a) /\ ~Known(n)
    BY <2>1
  <2>3. n # 1 => n - 1 \in 1 .. Len(a) /\ n - 1 \in Nat /\ n - 1 \notin T
    BY <1>1, <2>1, <2>2
  <2> QED
    BY <1>6, <2>2, <2>3
<1>8. Known(Len(a)) /\ Begin(a, Len(a)) = Begin(b, Len(b)) /\ Len(b) \in 1 .. Len(b)
  BY <1>1, <1>7, Beginnings
<1> QED
  BY <1>8 DEF Known

(* So the text confuses plain arguments only if they are alike.            *)
LEMMA SameTextAlike ==
  ASSUME NEW a \in Seq(Argument), NEW b \in Seq(Argument), a # <<>>, b # <<>>,
         Plain(a), Plain(b), sKey(a) = sKey(b)
  PROVE  Alike(a, b)
<1>1. Len(a) = Len(b) /\ \A i \in 1 .. Len(a) : KeyText(a[i]) = KeyText(b[i])
  BY SameText DEF SamePlaces
<1>2. \A i \in DOMAIN a : a[i] \in Argument /\ b[i] \in Argument /\ i \in 1 .. Len(a)
  BY <1>1
<1> QED
  BY <1>1, <1>2, OneTextAlike DEF Alike

-----------------------------------------------------------------------------
(* What a call is answered                                                 *)

(* What is kept, and what a rule that runs will leave, is known by the text *)
(* of what it came from.                                                    *)
GoodResult(p) ==
  /\ p.of.rule = p.ruleId /\ p.of.args \in Seq(Argument)
  /\ p.ruleId \notin NoData => Text(p.of) = p.parmInfo

GoodFrame(f) ==
  /\ f.of.args \in Seq(Argument)
  /\ f.save /\ f.of.rule \notin NoData => Text(f.of) = f.key

AnswerInv ==
  /\ IsList(m_pRuleResult) /\ \A p \in ToSet(m_pRuleResult) : GoodResult(p)
  /\ IsList(stack) /\ \A f \in ToSet(stack) : GoodFrame(f)
  /\ AnswersMatch

(* A rule that begins to run.                                              *)
LEMMA Begun ==
  ASSUME AnswerInv, NEW frame, GoodFrame(frame), NEW ev, Run(ev, frame)
  PROVE  IsList(stack') /\ \A f \in ToSet(stack') : GoodFrame(f)
<1> DEFINE S == ToSet(stack) \cup {frame}
<1>1. stack \in Seq(S) /\ <<frame>> \in Seq(S)
  <2>1. stack \in Seq(ToSet(stack)) /\ ToSet(stack) \subseteq S /\ frame \in S
    BY DEF AnswerInv, IsList
  <2> HIDE DEF S
  <2> QED
    BY <2>1
<1>2. \A f \in S : GoodFrame(f)
  BY DEF AnswerInv
<1> HIDE DEF S
<1>3. stack' = <<frame>> \o stack
  BY DEF Run
<1>4. stack' \in Seq(S)
  BY <1>1, <1>3
<1> QED
  BY <1>2, <1>4, ListOfSeq

(* An answer with the text of the call.                                    *)
LEMMA FitAnswer ==
  ASSUME NEW call, NEW of, answer' = Answer(call, of), of.rule = call.rule,
         call.args \in Seq(Argument), of.args \in Seq(Argument),
         call.rule \notin NoData => Text(of) = Text(call)
  PROVE  AnswersMatch'
<1>1. answer'.call = call /\ answer'.of = of
  BY DEF Answer
<1>2. ASSUME call.rule \notin NoData, ByArguments(of), ByArguments(call) PROVE Alike(of.args, call.args)
  <2>1. sKey(of.args) = sKey(call.args)
    BY <1>2 DEF ByArguments, Text
  <2> QED
    BY <1>2, <2>1, SameTextAlike DEF ByArguments
<1> QED
  BY <1>1, <1>2 DEF AnswersMatch

(* A call whose key is its text.                                           *)
LEMMA CallIsAnswered ==
  ASSUME AnswerInv, NEW call, call.args \in Seq(Argument), NEW key,
         Called(call, key), Text(call) = key
  PROVE  AnswerInv'
<1> DEFINE rule == call.rule
<1>1. CASE /\ Hit(rule, key)
           /\ answer' = Answer(call, m_pRuleResult[Found(rule, key)].of)
           /\ UNCHANGED <<m_pRuleResult, stack>>
  <2> DEFINE p == m_pRuleResult[Found(rule, key)]
  <2>1. p.ruleId = rule /\ p.parmInfo = key /\ p \in ToSet(m_pRuleResult)
    BY <1>1, FoundRange, ListProperties DEF Hit, AnswerInv
  <2>2. GoodResult(p)
    BY <2>1 DEF AnswerInv
  <2>3. answer' = Answer(call, p.of)
    BY <1>1
  <2> HIDE DEF p
  <2>4. AnswersMatch'
    BY <2>1, <2>2, <2>3, FitAnswer DEF GoodResult
  <2> QED
    BY <1>1, <2>4 DEF AnswerInv
<1>2. CASE /\ m_pRuleResult' = AfterSearch(rule, key)
           /\ Run("run", Frame(call, key, TRUE))
           /\ UNCHANGED answer
  <2>1. IsList(m_pRuleResult') /\ ToSet(m_pRuleResult') \subseteq ToSet(m_pRuleResult)
    BY <1>2, Searched DEF AnswerInv, Unlinked
  <2>2. GoodFrame(Frame(call, key, TRUE))
    BY DEF GoodFrame, Frame
  <2>3. IsList(stack') /\ \A f \in ToSet(stack') : GoodFrame(f)
    BY <1>2, <2>2, Begun
  <2>4. AnswersMatch'
    BY <1>2 DEF AnswerInv, AnswersMatch
  <2> QED
    BY <2>1, <2>3, <2>4 DEF AnswerInv
<1> QED
  BY <1>1, <1>2 DEF Called

(* The text that a column gives its rule is the key of that.               *)
LEMMA ColumnFrame ==
  ASSUME NEW rule, NEW x \in Argument
  PROVE  GoodFrame(Frame(Source(rule, <<[t |-> "STRING", v |-> ColumnText(x)]>>, FALSE),
                         ColumnText(x), TRUE))
<1> DEFINE text == ColumnText(x)
           arg == [t |-> "STRING", v |-> text]
           args == <<arg>>
<1>1. text \in Seq(Char)
  BY ColumnTextIsText
<1> HIDE DEF text
<1>2. arg \in Argument /\ KeyText(arg) = text
  BY <1>1 DEF Argument, KeyText
<1> HIDE DEF arg
<1>3. args \in Seq(Argument) /\ args # <<>> /\ Len(args) = 1 /\ args[1] = arg
  BY <1>2
<1> HIDE DEF args
<1>4. sKey(args) = text
  BY <1>2, <1>3, Beginnings
<1>5. GoodFrame(Frame(Source(rule, args, FALSE), text, TRUE))
  BY <1>3, <1>4 DEF GoodFrame, Frame, Source, Text
<1> QED
  BY <1>5 DEF args, arg, text

(* The invariant holds from the start and every step preserves it.         *)
LEMMA AnswerInductive ==
  /\ Init => AnswerInv
  /\ AnswerInv /\ [Next]_vars => AnswerInv'
<1> USE CallsAssumption
<1>1. Init => AnswerInv
  <2> SUFFICES ASSUME Init PROVE AnswerInv
    OBVIOUS
  <2> DEFINE f == Frame(Source(1, <<>>, TRUE), <<>>, TRUE)
  <2>1. m_pRuleResult = <<>> /\ stack = <<f>> /\ answer = NoAnswer
    BY DEF Init
  <2>2. IsList(<<>>) /\ ToSet(<<>>) = {}
    BY DEF IsList, ToSet
  <2>3. GoodFrame(f)
    <3>1. f.of.args = <<>> /\ f.of.named /\ f.key = <<>>
      BY DEF Frame, Source
    <3> HIDE DEF f
    <3> QED
      BY <3>1 DEF GoodFrame, Text
  <2> HIDE DEF f
  <2>4. <<f>> \in Seq({f})
    OBVIOUS
  <2>5. IsList(stack) /\ ToSet(stack) \subseteq {f}
    BY <2>1, <2>4, ListOfSeq
  <2> QED
    BY <2>1, <2>2, <2>3, <2>5 DEF AnswerInv, AnswersMatch
<1>2. AnswerInv /\ [Next]_vars => AnswerInv'
  <2> SUFFICES ASSUME AnswerInv, [Next]_vars PROVE AnswerInv'
    OBVIOUS
  <2>1. InRule => /\ stack[1] \in ToSet(stack) /\ GoodFrame(stack[1])
                  /\ stack \in Seq(ToSet(stack)) /\ stack # <<>>
    <3>1. IsList(stack) /\ stack \in Seq(ToSet(stack))
      BY DEF AnswerInv, IsList
    <3>2. InRule => 1 \in 1 .. Len(stack)
      BY <3>1 DEF InRule
    <3> QED
      BY <3>1, <3>2, ListProperties DEF AnswerInv, InRule
  <2>2. ASSUME NEW rule \in Rules, NEW args \in Arguments[rule], getRuleResultValue(rule, args)
        PROVE  AnswerInv'
    <3> DEFINE call == Source(rule, args, FALSE)
    <3>1. call.args \in Seq(Argument) /\ Text(call) = sKey(args)
      BY DEF CallsAssumption, Source, Text
    <3>2. Called(call, sKey(args))
      BY <2>2 DEF getRuleResultValue
    <3> HIDE DEF call
    <3> QED
      BY <3>1, <3>2, CallIsAnswered
  <2>3. ASSUME NEW rule \in Rules, GetRuleValue(rule) PROVE AnswerInv'
    <3> DEFINE call == Source(rule, stack[1].of.args, TRUE)
    <3>1. call.args \in Seq(Argument) /\ Text(call) = <<>>
      BY <2>1, <2>3 DEF GetRuleValue, CanCall, GoodFrame, Source, Text
    <3>2. Called(call, <<>>)
      BY <2>3 DEF GetRuleValue
    <3> HIDE DEF call
    <3> QED
      BY <3>1, <3>2, CallIsAnswered
  <2>4. ASSUME NEW rule \in Rules, NEW i \in 1 .. 2, ColumnRuleValue(rule, i)
        PROVE  AnswerInv'
    <3> DEFINE given == stack[1].of.args
               text == ColumnText(given[i])
               call == Source(rule, <<>>, TRUE)
               frame == Frame(Source(rule, <<[t |-> "STRING", v |-> text]>>, FALSE), text, TRUE)
    <3>1. given \in Seq(Argument)
      BY <2>1, <2>4 DEF ColumnRuleValue, CanCall, GoodFrame
    <3>2. CASE Called(call, <<>>)
      <4>1. call.args \in Seq(Argument) /\ Text(call) = <<>>
        BY DEF Source, Text
      <4> HIDE DEF call
      <4> QED
        BY <3>2, <4>1, CallIsAnswered
    <3>3. CASE i \in DOMAIN given /\ Run("direct", frame) /\ UNCHANGED <<m_pRuleResult, answer>>
      <4>1. GoodFrame(frame)
        <5>1. given[i] \in Argument
          BY <3>1, <3>3
        <5> QED
          BY <5>1, ColumnFrame
      <4>2. Run("direct", frame)
        BY <3>3
      <4> HIDE DEF frame
      <4>3. IsList(stack') /\ \A f \in ToSet(stack') : GoodFrame(f)
        BY <4>1, <4>2, Begun
      <4> QED
        BY <3>3, <4>3 DEF AnswerInv, AnswersMatch
    <3> QED
      BY <2>4, <3>2, <3>3 DEF ColumnRuleValue
  <2>5. ASSUME NEW rule \in Rules, RunByName(rule) PROVE AnswerInv'
    <3> DEFINE frame == Frame(Source(rule, stack[1].of.args, TRUE), <<TYPES>>, FALSE)
    <3>1. GoodFrame(frame)
      BY <2>1, <2>5 DEF RunByName, CanCall, GoodFrame, Frame, Source
    <3>2. Run("direct", frame)
      BY <2>5 DEF RunByName
    <3> HIDE DEF frame
    <3>3. IsList(stack') /\ \A f \in ToSet(stack') : GoodFrame(f)
      BY <3>1, <3>2, Begun
    <3> QED
      BY <2>5, <3>3 DEF RunByName, AnswerInv, AnswersMatch
  <2>6. ASSUME NEW id \in Rules \cup {0}, DelRuleResultAll(id) PROVE AnswerInv'
    <3>1. IsList(m_pRuleResult') /\ ToSet(m_pRuleResult') \subseteq ToSet(m_pRuleResult)
      BY <2>6, Cleansed DEF DelRuleResultAll, AnswerInv
    <3> QED
      BY <2>6, <3>1 DEF DelRuleResultAll, AnswerInv, AnswersMatch
  <2>7. CASE Return
    <3> DEFINE f == Head(stack)
               A == (IF f.of.rule \in NoData THEN <<Result(f)>> ELSE <<>>)
                      \o (IF f.save THEN <<Result(f)>> ELSE <<>>)
    <3>1. f = stack[1] /\ GoodFrame(f) /\ stack \in Seq(ToSet(stack)) /\ stack # <<>>
      BY <2>1, <2>7, SMTT(30) DEF Return
    <3>2. A \in Seq({Result(f)}) /\ (~f.save /\ f.of.rule \notin NoData => A = <<>>)
      BY AddedResults DEF AddedBy
    <3>3. m_pRuleResult' = A \o m_pRuleResult /\ stack' = Tail(stack)
      BY <2>7 DEF Return
    <3>4. answer' = Answer(f.of, f.of)
      BY <2>7 DEF Return, Result
    <3>5. f.save \/ f.of.rule \in NoData => GoodResult(Result(f))
      BY <3>1 DEF GoodFrame, GoodResult, Result
    <3> HIDE DEF A, f
    <3>6. IsList(m_pRuleResult') /\ ToSet(m_pRuleResult') \subseteq ToSet(m_pRuleResult) \cup {Result(f)}
      BY <3>2, <3>3, Prepended DEF AnswerInv
    <3>7. A = <<>> => m_pRuleResult' = m_pRuleResult
      <4>1. m_pRuleResult \in Seq(ToSet(m_pRuleResult))
        BY DEF AnswerInv, IsList
      <4> QED
        BY <3>3, <4>1
    <3>8. \A p \in ToSet(m_pRuleResult') : GoodResult(p)
      BY <3>2, <3>5, <3>6, <3>7 DEF AnswerInv
    <3>9. IsList(stack') /\ ToSet(stack') \subseteq ToSet(stack)
      <4>1. stack' \in Seq(ToSet(stack))
        BY <3>1, <3>3
      <4> QED
        BY <4>1, ListOfSeq
    <3>10. AnswersMatch'
      BY <3>1, <3>4, FitAnswer DEF GoodFrame
    <3> QED
      BY <3>6, <3>8, <3>9, <3>10 DEF AnswerInv
  <2>8. CASE Raise
    <3>1. IsList(<<>>) /\ ToSet(<<>>) = {}
      BY DEF IsList, ToSet
    <3> QED
      BY <2>8, <3>1 DEF Raise, AnswerInv, AnswersMatch
  <2>9. CASE UNCHANGED vars
    BY <2>9 DEF vars, AnswerInv, AnswersMatch
  <2> QED
    BY <2>2, <2>3, <2>4, <2>5, <2>6, <2>7, <2>8, <2>9 DEF Next
<1> QED
  BY <1>1, <1>2

(* A call gets a result of the rule it names that came from the same text,  *)
(* and from like arguments where both are plain, however deep rules call    *)
(* each other and whatever is cleared meanwhile, for all rules and          *)
(* arguments: every kept result, and every rule that runs, has the text of  *)
(* what it came from as its key, and of a text made of plain arguments the  *)
(* last bar shows where the last one begins (GetRuleResult,                 *)
(* getRuleParmValues, AddResultForRule).                                    *)
THEOREM CallsAreAnswered == Spec => []AnswersMatch
<1>1. AnswerInv => AnswersMatch
  BY DEF AnswerInv
<1> QED
  BY <1>1, AnswerInductive, PTL DEF Spec
=============================================================================
