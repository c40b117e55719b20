--------------------------- MODULE RuleRunProofs ----------------------------
(***************************************************************************)
(* Proofs about RuleRun: what sorting and aggregating make of the rows of  *)
(* a rule, for all lists of rows, columns and orders, and which rows a     *)
(* table takes, for all tables and values.                                 *)
(*                                                                         *)
(* Values of one type are in an order where, of two that differ, a third   *)
(* one differs from one of them in the same direction. So are rows that    *)
(* are compared column by column, and that is all the insertion of a row,  *)
(* its group and the best row so far need. In a sorted table the orders    *)
(* of the values and the rows fall, which is all that the search by halves *)
(* needs.                                                                  *)
(***************************************************************************)
EXTENDS TableMeaning, WellFoundedInduction, TLAPS

-----------------------------------------------------------------------------
(* Numbers and sequences                                                   *)

(* A set of numbers that is not empty has a least one.                     *)
LEMMA LeastNumber ==
  ASSUME NEW T, T \subseteq Nat, T # {}
  PROVE  \E k \in T : \A j \in T : k <= j
<1>1. PICK k \in T : \A j \in T : <<j, k>> \notin OpToRel(<, Nat)
  BY WFMin, NatLessThanWellFounded, Zenon
<1>2. ASSUME NEW j \in T PROVE ~(j < k)
  BY <1>1 DEF OpToRel
<1> QED
  BY <1>2

(* A set that holds 0 and the successor of each of its numbers holds all.  *)
LEMMA Climb ==
  ASSUME NEW T, 0 \in T, \A n \in Nat : n \in T => n + 1 \in T
  PROVE  \A n \in Nat : n \in T
<1> SUFFICES ASSUME Nat \ T # {} PROVE FALSE
  OBVIOUS
<1>1. PICK k \in Nat \ T : \A j \in Nat \ T : k <= j
  BY LeastNumber
<1>2. k # 0 /\ k - 1 \in Nat /\ k - 1 \in T
  BY <1>1
<1> QED
  BY <1>1, <1>2

LEMMA MinIsLeast ==
  ASSUME NEW T, T \subseteq Nat, T # {}
  PROVE  Min(T) \in T /\ \A j \in T : Min(T) <= j
BY LeastNumber DEF Min

-----------------------------------------------------------------------------
(* Values                                                                  *)

(* The texts differ at i first, or one of them ends before i.              *)
LEMMA FirstCharacters ==
  ASSUME NEW s \in Seq(Int), NEW r \in Seq(Int), NEW i \in 1 .. Len(r),
         \A j \in 1 .. i - 1 : j <= Len(s) /\ s[j] = r[j],
         i > Len(s) \/ s[i] < r[i]
  PROVE  TextBefore(s, r) /\ ~TextBefore(r, s)
<1>1. TextBefore(s, r)
  BY DEF TextBefore
<1>2. ASSUME NEW k \in 1 .. Len(s), \A j \in 1 .. k - 1 : j <= Len(r) /\ r[j] = s[j],
             k > Len(r) \/ r[k] < s[k]
      PROVE  FALSE
  <2>1. /\ Len(s) \in Nat /\ Len(r) \in Nat
        /\ \A j \in 1 .. Len(s) : s[j] \in Int
        /\ \A j \in 1 .. Len(r) : r[j] \in Int
    OBVIOUS
  <2>2. CASE k < i
    <3>1. k \in 1 .. i - 1 /\ k \in 1 .. Len(r)
      BY <2>1, <2>2
    <3>. QED
      BY <3>1, <2>1, <1>2
  <2>3. CASE k = i
    BY <2>1, <2>3, <1>2
  <2>4. CASE i < k
    <3>1. i \in 1 .. k - 1 /\ i \in 1 .. Len(s)
      BY <2>1, <2>4
    <3>. QED
      BY <3>1, <2>1, <1>2
  <2>. QED
    BY <2>1, <2>2, <2>3, <2>4
<1>. QED
  BY <1>1, <1>2 DEF TextBefore

(* Texts are compared as strcmp does.                                      *)
LEMMA TextOrder ==
  ASSUME NEW s \in Seq(Int), NEW r \in Seq(Int)
  PROVE  /\ StrCmp(s, r) \in {-1, 0, 1}
         /\ StrCmp(s, r) = -1 <=> TextBefore(s, r)
         /\ StrCmp(s, r) = 1 <=> TextBefore(r, s)
         /\ StrCmp(s, r) = 0 <=> s = r
<1> DEFINE m == Least(Len(s), Len(r))
           d == {i \in 1 .. m : s[i] # r[i]}
           f == CHOOSE i \in d : \A j \in d : i <= j
<1>1. /\ Len(s) \in Nat /\ Len(r) \in Nat /\ m \in Nat /\ m <= Len(s) /\ m <= Len(r)
      /\ m = Len(s) \/ m = Len(r)
  BY DEF Least
<1>2. /\ \A i \in 1 .. Len(s) : s[i] \in Int
      /\ \A i \in 1 .. Len(r) : r[i] \in Int
  OBVIOUS
<1>3. StrCmp(s, r) = CASE d # {} -> IF s[f] < r[f] THEN -1 ELSE 1
                       [] d = {} /\ Len(s) = Len(r) -> 0
                       [] OTHER -> IF Len(s) < Len(r) THEN -1 ELSE 1
  BY DEF StrCmp
<1>4. CASE d # {}
  <2>1. d \subseteq Nat
    BY <1>1
  <2>2. \E i \in d : \A j \in d : i <= j
    BY <1>4, <2>1, LeastNumber
  <2>3. f \in d /\ \A j \in d : f <= j
    BY <2>2
  <2>4. PICK i : i = f
    OBVIOUS
  <2>5. /\ i \in 1 .. m /\ s[i] # r[i] /\ s[i] \in Int /\ r[i] \in Int
        /\ \A j \in 1 .. i - 1 : s[j] = r[j] /\ j <= Len(s) /\ j <= Len(r)
    <3>1. i \in 1 .. m /\ s[i] # r[i]
      BY <2>3, <2>4
    <3>2. i \in 1 .. Len(s) /\ i \in 1 .. Len(r)
      BY <3>1, <1>1
    <3>3. ASSUME NEW j \in 1 .. i - 1 PROVE s[j] = r[j] /\ j <= Len(s) /\ j <= Len(r)
      <4>1. j \in 1 .. m /\ ~(i <= j) /\ j <= Len(s) /\ j <= Len(r)
        BY <3>1, <1>1
      <4>2. j \notin d
        BY <4>1, <2>3, <2>4
      <4>. QED
        BY <4>1, <4>2
    <3>. QED
      BY <3>1, <3>2, <3>3, <1>2
  <2>6. StrCmp(s, r) = IF s[i] < r[i] THEN -1 ELSE 1
    BY <1>3, <1>4, <2>4
  <2> HIDE DEF m, d, f
  <2>7. s[i] < r[i] => TextBefore(s, r) /\ ~TextBefore(r, s)
    <3>1. i \in 1 .. Len(r)
      BY <1>1, <2>5
    <3>. QED
      BY <3>1, <2>5, FirstCharacters
  <2>8. r[i] < s[i] => TextBefore(r, s) /\ ~TextBefore(s, r)
    <3>1. i \in 1 .. Len(s)
      BY <1>1, <2>5
    <3>. QED
      BY <3>1, <2>5, FirstCharacters
  <2>9. s[i] < r[i] \/ r[i] < s[i]
    BY <2>5
  <2>10. s # r
    BY <2>5
  <2>. QED
    BY <2>5, <2>6, <2>7, <2>8, <2>9, <2>10
<1>5. CASE d = {}
  <2>1. \A j \in 1 .. m : s[j] = r[j]
    BY <1>5
  <2> HIDE DEF m, d, f
  <2>2. CASE Len(s) = Len(r)
    <3>1. s = r
      BY <2>1, <2>2, <1>1
    <3>2. ~TextBefore(s, s)
      BY <1>1, <1>2 DEF TextBefore
    <3>. QED
      BY <3>1, <3>2, <2>2, <1>3, <1>5
  <2>3. CASE Len(s) < Len(r)
    <3>1. PICK i : i = Len(s) + 1
      OBVIOUS
    <3>2. i \in 1 .. Len(r) /\ i > Len(s) /\ \A j \in 1 .. i - 1 : j <= Len(s) /\ s[j] = r[j]
      BY <3>1, <1>1, <2>1, <2>3
    <3>4. TextBefore(s, r) /\ ~TextBefore(r, s)
      BY <3>2, FirstCharacters
    <3>3. StrCmp(s, r) = -1
      BY <1>3, <1>5, <2>3
    <3>. QED
      BY <3>3, <3>4, <2>3
  <2>4. CASE Len(r) < Len(s)
    <3>1. PICK i : i = Len(r) + 1
      OBVIOUS
    <3>2. i \in 1 .. Len(s) /\ i > Len(r) /\ \A j \in 1 .. i - 1 : j <= Len(r) /\ r[j] = s[j]
      BY <3>1, <1>1, <2>1, <2>4
    <3>4. TextBefore(r, s) /\ ~TextBefore(s, r)
      BY <3>2, FirstCharacters
    <3>3. StrCmp(s, r) = 1
      BY <1>3, <1>5, <2>4, <1>1
    <3>. QED
      BY <3>3, <3>4, <2>4
  <2>. QED
    BY <2>2, <2>3, <2>4, <1>1
<1>. QED
  BY <1>4, <1>5

LEMMA TextTransitive ==
  ASSUME NEW s \in Seq(Int), NEW r \in Seq(Int), NEW u \in Seq(Int),
         TextBefore(s, r), TextBefore(r, u)
  PROVE  TextBefore(s, u)
<1>1. PICK i \in 1 .. Len(r) : /\ \A j \in 1 .. i - 1 : j <= Len(s) /\ s[j] = r[j]
                               /\ i > Len(s) \/ s[i] < r[i]
  BY DEF TextBefore
<1>2. PICK k \in 1 .. Len(u) : /\ \A j \in 1 .. k - 1 : j <= Len(r) /\ r[j] = u[j]
                               /\ k > Len(r) \/ r[k] < u[k]
  BY DEF TextBefore
<1>3. /\ Len(s) \in Nat /\ Len(r) \in Nat /\ Len(u) \in Nat
      /\ \A j \in 1 .. Len(s) : s[j] \in Int
      /\ \A j \in 1 .. Len(r) : r[j] \in Int
      /\ \A j \in 1 .. Len(u) : u[j] \in Int
  OBVIOUS
<1>4. CASE i <= k
  <2>1. i \in 1 .. Len(u)
    BY <1>3, <1>4
  <2>2. ASSUME NEW j \in 1 .. i - 1 PROVE j <= Len(s) /\ s[j] = u[j]
    <3>1. j \in 1 .. k - 1
      BY <1>3, <1>4
    <3>. QED
      BY <1>1, <1>2, <3>1
  <2>3. i > Len(s) \/ s[i] < u[i]
    <3>1. CASE i < k
      <4>1. i \in 1 .. k - 1
        BY <1>3, <3>1
      <4>. QED
        BY <1>1, <1>2, <4>1
    <3>2. CASE i = k
      BY SMTT(30), <1>1, <1>2, <1>3, <3>2, <2>1
    <3>. QED
      BY <1>3, <1>4, <3>1, <3>2
  <2>. QED
    BY <2>1, <2>2, <2>3 DEF TextBefore
<1>5. CASE k < i
  <2>0. k \in 1 .. i - 1 /\ k \in 1 .. Len(r) /\ k <= Len(s) /\ s[k] = r[k]
    <3>1. k \in 1 .. i - 1 /\ k \in 1 .. Len(r)
      BY <1>3, <1>5
    <3>. QED
      BY <1>1, <3>1
  <2>1. ASSUME NEW j \in 1 .. k - 1 PROVE j <= Len(s) /\ s[j] = u[j]
    <3>1. j \in 1 .. i - 1
      BY <1>3, <1>5
    <3>. QED
      BY <1>1, <1>2, <3>1
  <2>2. k > Len(s) \/ s[k] < u[k]
    BY <1>2, <1>3, <2>0
  <2>. QED
    BY <2>1, <2>2 DEF TextBefore
<1>. QED
  BY <1>4, <1>5

LEMMA NumberOrder ==
  ASSUME NEW m \in Int, NEW n \in Int
  PROVE  /\ NumCmp(m, n) < 0 <=> m < n
         /\ NumCmp(m, n) > 0 <=> n < m
         /\ NumCmp(m, n) = 0 <=> m = n
BY DEF NumCmp

(* Fractions with positive denominators.                                   *)
LEMMA FractionBetween ==
  ASSUME NEW a \in Int, NEW b \in Int, NEW c \in Int,
         NEW p1 \in Nat \ {0}, NEW p2 \in Nat \ {0}, NEW p3 \in Nat \ {0},
         a * p3 < c * p1
  PROVE  a * p2 < b * p1 \/ b * p3 < c * p2
<1> SUFFICES ASSUME b * p1 <= a * p2, c * p2 <= b * p3 PROVE FALSE
  <2>1. /\ b * p1 \in Int /\ a * p2 \in Int /\ c * p2 \in Int /\ b * p3 \in Int
    OBVIOUS
  <2>. QED
    BY <2>1
<1>1. (b * p1) * p3 <= (a * p2) * p3
  OBVIOUS
<1>2. (c * p2) * p1 <= (b * p3) * p1
  OBVIOUS
<1>3. (a * p3) * p2 < (c * p1) * p2
  OBVIOUS
<1>4. (c * p2) * p1 <= (a * p2) * p3
  BY <1>1, <1>2
<1>. QED
  BY <1>3, <1>4

(* The code compares values of one type in the order of their type.        *)
LEMMA ValueOrder ==
  ASSUME NEW type \in Types, NEW x, NEW y, IsValue(x, type), IsValue(y, type)
  PROVE  /\ CellCmp(x, y) < 0 <=> Below(x, y)
         /\ CellCmp(x, y) > 0 <=> Below(y, x)
         /\ CellCmp(x, y) # 0 <=> ~Same(x, y)
         /\ ~(Below(x, y) /\ Below(y, x))
<1>1. x.t = type /\ y.t = type
  BY DEF IsValue
<1>2. CASE type \in {"LONG", "BOOL"}
  <2>1. x.v[1] \in Int /\ y.v[1] \in Int
    BY <1>2 DEF IsValue
  <2>2. CellCmp(x, y) = NumCmp(x.v[1], y.v[1])
    BY <1>1, <1>2 DEF CellCmp, Compare, OneIs
  <2>3. (Below(x, y) <=> x.v[1] < y.v[1]) /\ (Below(y, x) <=> y.v[1] < x.v[1])
    BY <1>1, <1>2 DEF Below
  <2>4. PICK m, n : m = x.v[1] /\ n = y.v[1]
    OBVIOUS
  <2>5. /\ CellCmp(x, y) < 0 <=> m < n
        /\ CellCmp(x, y) > 0 <=> n < m
        /\ CellCmp(x, y) = 0 <=> m = n
    BY <2>1, <2>2, <2>4, NumberOrder
  <2>. QED
    BY <2>1, <2>3, <2>4, <2>5 DEF Same
<1>3. CASE type = "DOUBLE"
  <2>1. x.v[1] \in Int /\ y.v[1] \in Int /\ x.v[2] \in Int /\ y.v[2] \in Int
    BY <1>3 DEF IsValue
  <2>2. PICK m, n : m = x.v[1] * y.v[2] /\ n = y.v[1] * x.v[2] /\ m \in Int /\ n \in Int
    BY <2>1
  <2>3. CellCmp(x, y) = NumCmp(m, n)
    BY <1>1, <1>3, <2>2 DEF CellCmp, Compare, OneIs, Fraction
  <2>4. (Below(x, y) <=> m < n) /\ (Below(y, x) <=> n < m)
    BY <1>1, <1>3, <2>2 DEF Below
  <2>5. /\ CellCmp(x, y) < 0 <=> m < n
        /\ CellCmp(x, y) > 0 <=> n < m
        /\ CellCmp(x, y) = 0 <=> m = n
    BY <2>2, <2>3, NumberOrder
  <2>. QED
    BY <2>2, <2>4, <2>5 DEF Same
<1>4. CASE type \in {"STRING", "LSTRING"}
  <2>1. x.v \in Seq(Int) /\ y.v \in Seq(Int)
    BY <1>4 DEF IsValue
  <2>2. CellCmp(x, y) = StrCmp(x.v, y.v)
    BY <1>1, <1>4 DEF CellCmp
  <2>3. (Below(x, y) <=> TextBefore(x.v, y.v)) /\ (Below(y, x) <=> TextBefore(y.v, x.v))
    BY <1>1, <1>4 DEF Below
  <2>4. PICK c : c = CellCmp(x, y)
    OBVIOUS
  <2>5. c \in {-1, 0, 1} /\ (c = -1 <=> Below(x, y)) /\ (c = 1 <=> Below(y, x))
    BY <2>1, <2>2, <2>3, <2>4, TextOrder
  <2>. QED
    BY <2>4, <2>5 DEF Same
<1>. QED
  BY <1>2, <1>3, <1>4 DEF Types

(* Of two values that differ a third one differs from one of them in the   *)
(* same direction.                                                         *)
LEMMA ValueBetween ==
  ASSUME NEW type \in Types, NEW x, NEW y, NEW z,
         IsValue(x, type), IsValue(y, type), IsValue(z, type), Below(x, z)
  PROVE  Below(x, y) \/ Below(y, z)
<1>1. x.t = type /\ y.t = type /\ z.t = type
  BY DEF IsValue
<1>2. CASE type \in {"LONG", "BOOL"}
  <2>1. x.v[1] \in Int /\ y.v[1] \in Int /\ z.v[1] \in Int
    BY <1>2 DEF IsValue
  <2>. QED
    BY <1>1, <1>2, <2>1 DEF Below
<1>3. CASE type = "DOUBLE"
  <2>1. /\ x.v[1] \in Int /\ y.v[1] \in Int /\ z.v[1] \in Int
        /\ x.v[2] \in Nat \ {0} /\ y.v[2] \in Nat \ {0} /\ z.v[2] \in Nat \ {0}
    BY <1>3 DEF IsValue
  <2>2. x.v[1] * z.v[2] < z.v[1] * x.v[2]
    BY <1>1, <1>3 DEF Below
  <2>3. x.v[1] * y.v[2] < y.v[1] * x.v[2] \/ y.v[1] * z.v[2] < z.v[1] * y.v[2]
    BY <2>1, <2>2, FractionBetween
  <2>. QED
    BY <1>1, <1>3, <2>3 DEF Below
<1>4. CASE type \in {"STRING", "LSTRING"}
  <2>1. x.v \in Seq(Int) /\ y.v \in Seq(Int) /\ z.v \in Seq(Int)
    BY <1>4 DEF IsValue
  <2>2. TextBefore(x.v, z.v)
    BY <1>1, <1>4 DEF Below
  <2>3. StrCmp(x.v, y.v) \in {-1, 0, 1}
    BY <2>1, TextOrder
  <2>4. TextBefore(x.v, y.v) \/ x.v = y.v \/ TextBefore(y.v, x.v)
    BY <2>1, <2>3, TextOrder
  <2>5. TextBefore(x.v, y.v) \/ TextBefore(y.v, z.v)
    BY <2>1, <2>2, <2>4, TextTransitive
  <2>. QED
    BY <1>1, <1>4, <2>5 DEF Below
<1>. QED
  BY <1>2, <1>3, <1>4 DEF Types

-----------------------------------------------------------------------------
(* Rows                                                                    *)

(* Rows whose columns hold values of one type each.                        *)
SameTypes(R, cols) ==
  /\ cols \in Seq(Nat)
  /\ \A k \in DOMAIN cols : \E type \in Types : \A r \in R : IsValue(r[cols[k]], type)

(* i is the first of the columns in which the rows differ.                 *)
FirstAt(i, r1, r2, cols) ==
  /\ i \in DOMAIN cols
  /\ ~Same(r1[cols[i]], r2[cols[i]])
  /\ \A j \in 1 .. i - 1 : Same(r1[cols[j]], r2[cols[j]])

(* The order of two values in a column, upward or downward.                *)
Goes(x, y, dir) == IF dir = "D" THEN Below(y, x) ELSE Below(x, y)

LEMMA ComparableRows ==
  ASSUME NEW list, NEW cols, Comparable(list, cols)
  PROVE  SameTypes(ToSet(list), cols)
<1>1. ASSUME NEW k \in DOMAIN cols
      PROVE  \E type \in Types : \A r \in ToSet(list) : IsValue(r[cols[k]], type)
  <2>1. cols[k] \in ToSet(cols)
    BY DEF ToSet
  <2>2. PICK type \in Types : IsColumn(list, cols[k], type)
    BY <2>1 DEF Comparable
  <2>. QED
    BY <2>2 DEF IsColumn, ToSet
<1>. QED
  BY <1>1 DEF SameTypes, Comparable

LEMMA SubsetTypes ==
  ASSUME NEW R, NEW cols, SameTypes(R, cols), NEW T, T \subseteq R
  PROVE  SameTypes(T, cols)
BY DEF SameTypes

LEMMA SameIsSymmetric == \A x, y : Same(x, y) <=> Same(y, x)
BY DEF Same

(* What FirstDifference returns.                                           *)
LEMMA Difference ==
  ASSUME NEW R, NEW cols, SameTypes(R, cols), NEW r1 \in R, NEW r2 \in R
  PROVE  \/ FirstDifference(r1, r2, cols) = 0 /\ SameIn(r1, r2, cols)
         \/ FirstDifference(r1, r2, cols) # 0 /\ FirstAt(FirstDifference(r1, r2, cols), r1, r2, cols)
<1> DEFINE D == {i \in 1 .. Len(cols) : CellCmp(r1[cols[i]], r2[cols[i]]) # 0}
<1>1. FirstDifference(r1, r2, cols) = IF D # {} THEN Min(D) ELSE 0
  BY DEF FirstDifference, SelectInSeq
<1>2. DOMAIN cols = 1 .. Len(cols) /\ Len(cols) \in Nat
  BY DEF SameTypes
<1>3. ASSUME NEW i \in DOMAIN cols PROVE i \in D <=> ~Same(r1[cols[i]], r2[cols[i]])
  <2>1. PICK type \in Types : \A r \in R : IsValue(r[cols[i]], type)
    BY DEF SameTypes
  <2>2. CellCmp(r1[cols[i]], r2[cols[i]]) # 0 <=> ~Same(r1[cols[i]], r2[cols[i]])
    BY <2>1, ValueOrder
  <2>. QED
    BY <1>2, <2>2
<1>4. D \subseteq DOMAIN cols /\ D \subseteq Nat
  BY <1>2
<1> HIDE DEF D
<1>5. CASE D = {}
  BY <1>1, <1>3, <1>5 DEF SameIn
<1>6. CASE D # {}
  <2>1. PICK i : i = Min(D)
    OBVIOUS
  <2>2. i \in D /\ \A j \in D : i <= j
    BY <1>4, <1>6, <2>1, MinIsLeast
  <2>3. i \in DOMAIN cols /\ ~Same(r1[cols[i]], r2[cols[i]])
    BY <1>3, <1>4, <2>2
  <2>4. ASSUME NEW j \in 1 .. i - 1 PROVE Same(r1[cols[j]], r2[cols[j]])
    <3>1. j \in DOMAIN cols /\ ~(i <= j)
      BY <1>2, <2>3
    <3>. QED
      BY <3>1, <2>2, <1>3
  <2>5. i # 0
    BY <2>3, <1>2
  <2>. QED
    BY <1>1, <1>6, <2>1, <2>3, <2>4, <2>5 DEF FirstAt
<1>. QED
  BY <1>5, <1>6

(* The first column in which they differ decides which row precedes.       *)
LEMMA FirstDecides ==
  ASSUME NEW r1, NEW r2, NEW cols \in Seq(Nat), NEW order, NEW i, FirstAt(i, r1, r2, cols)
  PROVE  Precedes(r1, r2, cols, order) <=> Goes(r1[cols[i]], r2[cols[i]], order[i])
<1>1. DOMAIN cols = 1 .. Len(cols) /\ Len(cols) \in Nat
  OBVIOUS
<1>2. i \in 1 .. Len(cols) /\ ~Same(r1[cols[i]], r2[cols[i]])
      /\ \A j \in 1 .. i - 1 : Same(r1[cols[j]], r2[cols[j]])
  BY <1>1 DEF FirstAt
<1>3. ASSUME Goes(r1[cols[i]], r2[cols[i]], order[i]) PROVE Precedes(r1, r2, cols, order)
  BY <1>1, <1>2, <1>3 DEF Precedes, Goes
<1>4. ASSUME NEW k \in DOMAIN cols, Goes(r1[cols[k]], r2[cols[k]], order[k]),
             \A j \in 1 .. k - 1 : Same(r1[cols[j]], r2[cols[j]])
      PROVE  k = i
  <2>1. ~Same(r1[cols[k]], r2[cols[k]])
    BY <1>4 DEF Goes, Same
  <2>2. ~(k < i)
    BY <2>1, <1>1, <1>2
  <2>3. ~(i < k)
    BY <1>1, <1>2, <1>4
  <2>. QED
    BY <2>2, <2>3, <1>1, <1>2
<1>5. ASSUME Precedes(r1, r2, cols, order) PROVE Goes(r1[cols[i]], r2[cols[i]], order[i])
  <2>1. PICK k \in DOMAIN cols : /\ Goes(r1[cols[k]], r2[cols[k]], order[k])
                                 /\ \A j \in 1 .. k - 1 : Same(r1[cols[j]], r2[cols[j]])
    BY <1>5 DEF Precedes, Goes
  <2>. QED
    BY <2>1, <1>4
<1>. QED
  BY <1>3, <1>5

LEMMA SameNeverPrecedes ==
  ASSUME NEW r1, NEW r2, NEW cols, NEW order, SameIn(r1, r2, cols)
  PROVE  ~Precedes(r1, r2, cols, order) /\ ~Precedes(r2, r1, cols, order)
BY DEF SameIn, Precedes, Same

(* What sortCompare and resultCompare say of two rows.                     *)
LEMMA SortCompares ==
  ASSUME NEW aggr, NEW R, SameTypes(R, aggr.nSort), NEW row \in R, NEW new \in R
  PROVE  sortCompare(row, new, aggr) <=> Precedes(new, row, aggr.nSort, aggr.cOrder)
<1>1. PICK cols, order, i : /\ cols = aggr.nSort /\ order = aggr.cOrder
                            /\ i = FirstDifference(row, new, cols)
  OBVIOUS
<1>2. sortCompare(row, new, aggr) <=>
        i # 0 /\ (IF order[i] = "D" THEN CellCmp(row[cols[i]], new[cols[i]]) < 0
                                    ELSE CellCmp(row[cols[i]], new[cols[i]]) > 0)
  BY <1>1 DEF sortCompare
<1>3. cols \in Seq(Nat) /\ SameTypes(R, cols)
  BY <1>1 DEF SameTypes
<1>4. CASE i = 0
  <2>1. SameIn(row, new, cols)
    BY <1>1, <1>3, <1>4, Difference
  <2>. QED
    BY <1>1, <1>2, <1>4, <2>1, SameNeverPrecedes
<1>5. CASE i # 0
  <2>1. FirstAt(i, row, new, cols)
    BY <1>1, <1>3, <1>5, Difference
  <2>2. FirstAt(i, new, row, cols)
    BY <2>1, SameIsSymmetric DEF FirstAt
  <2>3. PICK type \in Types : IsValue(row[cols[i]], type) /\ IsValue(new[cols[i]], type)
    BY <1>3, <2>1 DEF SameTypes, FirstAt
  <2>4. /\ CellCmp(row[cols[i]], new[cols[i]]) < 0 <=> Below(row[cols[i]], new[cols[i]])
        /\ CellCmp(row[cols[i]], new[cols[i]]) > 0 <=> Below(new[cols[i]], row[cols[i]])
    BY <2>3, ValueOrder
  <2>5. Precedes(new, row, cols, order) <=> Goes(new[cols[i]], row[cols[i]], order[i])
    BY <1>3, <2>2, FirstDecides
  <2>. QED
    BY <1>1, <1>2, <1>5, <2>4, <2>5 DEF Goes
<1>. QED
  BY <1>4, <1>5

LEMMA ResultCompares ==
  ASSUME NEW R, NEW cols, SameTypes(R, cols), NEW new \in R, NEW old \in R
  PROVE  /\ resultCompare(new, old, cols) = 0 <=> SameIn(new, old, cols)
         /\ resultCompare(new, old, cols) = 2 <=> Precedes(new, old, cols, Upward(cols))
         /\ resultCompare(new, old, cols) = 1 <=> Precedes(old, new, cols, Upward(cols))
<1>1. PICK i : i = FirstDifference(new, old, cols)
  OBVIOUS
<1>2. resultCompare(new, old, cols) =
        IF i = 0 THEN 0 ELSE IF CellCmp(new[cols[i]], old[cols[i]]) < 0 THEN 2 ELSE 1
  BY <1>1 DEF resultCompare
<1>3. cols \in Seq(Nat)
  BY DEF SameTypes
<1>4. CASE i = 0
  <2>1. SameIn(new, old, cols)
    BY <1>1, <1>4, Difference
  <2>. QED
    BY <1>2, <1>4, <2>1, SameNeverPrecedes
<1>5. CASE i # 0
  <2>1. FirstAt(i, new, old, cols)
    BY <1>1, <1>5, Difference
  <2>2. FirstAt(i, old, new, cols)
    BY <2>1, SameIsSymmetric DEF FirstAt
  <2>3. PICK type \in Types : IsValue(old[cols[i]], type) /\ IsValue(new[cols[i]], type)
    BY <2>1 DEF SameTypes, FirstAt
  <2>4. /\ CellCmp(new[cols[i]], old[cols[i]]) < 0 <=> Below(new[cols[i]], old[cols[i]])
        /\ ~(Below(new[cols[i]], old[cols[i]]) /\ Below(old[cols[i]], new[cols[i]]))
    BY <2>3, ValueOrder
  <2>5. Below(new[cols[i]], old[cols[i]]) \/ Below(old[cols[i]], new[cols[i]])
    BY <2>1 DEF FirstAt, Same
  <2>6. Upward(cols)[i] # "D"
    BY <2>1 DEF Upward, FirstAt
  <2>7. /\ Precedes(new, old, cols, Upward(cols)) <=> Below(new[cols[i]], old[cols[i]])
        /\ Precedes(old, new, cols, Upward(cols)) <=> Below(old[cols[i]], new[cols[i]])
    BY <1>3, <2>1, <2>2, <2>6, FirstDecides DEF Goes
  <2>8. ~SameIn(new, old, cols)
    BY <2>1 DEF SameIn, FirstAt
  <2>. QED
    BY <1>2, <1>5, <2>4, <2>5, <2>7, <2>8
<1>. QED
  BY <1>4, <1>5

(* The order of rows is asymmetric, and of two rows in this order a third  *)
(* one is after the first or before the second.                            *)
LEMMA RowsAsymmetric ==
  ASSUME NEW R, NEW cols, SameTypes(R, cols), NEW order, NEW r1 \in R, NEW r2 \in R,
         Precedes(r1, r2, cols, order)
  PROVE  ~Precedes(r2, r1, cols, order)
<1>1. cols \in Seq(Nat)
  BY DEF SameTypes
<1>2. PICK i : FirstAt(i, r1, r2, cols)
  BY Difference, SameNeverPrecedes
<1>3. FirstAt(i, r2, r1, cols)
  BY <1>2, SameIsSymmetric DEF FirstAt
<1>4. PICK type \in Types : IsValue(r1[cols[i]], type) /\ IsValue(r2[cols[i]], type)
  BY <1>2 DEF SameTypes, FirstAt
<1>5. ~(Below(r1[cols[i]], r2[cols[i]]) /\ Below(r2[cols[i]], r1[cols[i]]))
  BY <1>4, ValueOrder
<1>6. /\ Precedes(r1, r2, cols, order) <=> Goes(r1[cols[i]], r2[cols[i]], order[i])
      /\ Precedes(r2, r1, cols, order) <=> Goes(r2[cols[i]], r1[cols[i]], order[i])
  BY <1>1, <1>2, <1>3, FirstDecides
<1>. QED
  BY <1>5, <1>6 DEF Goes

(* Values of one type that are the same differ from a third one alike.     *)
LEMMA SameIsTransitive ==
  ASSUME NEW type \in Types, NEW x, NEW y, NEW z,
         IsValue(x, type), IsValue(y, type), IsValue(z, type), Same(x, y), Same(y, z)
  PROVE  Same(x, z)
<1>1. ~Below(x, z)
  BY ValueBetween DEF Same
<1>2. ~Below(z, x)
  BY ValueBetween DEF Same
<1>. QED
  BY <1>1, <1>2 DEF Same

LEMMA SameInIsTransitive ==
  ASSUME NEW R, NEW cols, SameTypes(R, cols), NEW r1 \in R, NEW r2 \in R, NEW r3 \in R,
         SameIn(r1, r2, cols), SameIn(r2, r3, cols)
  PROVE  SameIn(r1, r3, cols)
<1> SUFFICES ASSUME NEW k \in DOMAIN cols PROVE Same(r1[cols[k]], r3[cols[k]])
  BY DEF SameIn
<1>1. PICK type \in Types : \A r \in R : IsValue(r[cols[k]], type)
  BY DEF SameTypes
<1>2. Same(r1[cols[k]], r2[cols[k]]) /\ Same(r2[cols[k]], r3[cols[k]])
  BY DEF SameIn
<1>. QED
  BY <1>1, <1>2, SameIsTransitive

LEMMA RowsBetween ==
  ASSUME NEW R, NEW cols, SameTypes(R, cols), NEW order,
         NEW r1 \in R, NEW r2 \in R, NEW r3 \in R, Precedes(r1, r3, cols, order)
  PROVE  Precedes(r1, r2, cols, order) \/ Precedes(r2, r3, cols, order)
<1>1. /\ cols \in Seq(Nat)
      /\ \A k \in DOMAIN cols : \E type \in Types : \A r \in R : IsValue(r[cols[k]], type)
      /\ DOMAIN cols = 1 .. Len(cols) /\ Len(cols) \in Nat
  BY DEF SameTypes
<1>2. PICK i : FirstAt(i, r1, r3, cols)
  BY Difference, SameNeverPrecedes
<1>3. /\ Goes(r1[cols[i]], r3[cols[i]], order[i])
      /\ i \in DOMAIN cols
      /\ \A j \in 1 .. i - 1 : Same(r1[cols[j]], r3[cols[j]])
  BY <1>1, <1>2, FirstDecides DEF FirstAt
<1>4. CASE \A j \in 1 .. i - 1 : Same(r1[cols[j]], r2[cols[j]])
  <2>1. ASSUME NEW j \in 1 .. i - 1 PROVE Same(r2[cols[j]], r3[cols[j]])
    <3>1. j \in DOMAIN cols
      BY <1>1, <1>3
    <3>2. PICK type \in Types : \A r \in R : IsValue(r[cols[j]], type)
      BY <1>1, <3>1
    <3>3. Same(r2[cols[j]], r1[cols[j]]) /\ Same(r1[cols[j]], r3[cols[j]])
      BY <1>3, <1>4, SameIsSymmetric
    <3>. QED
      BY <3>2, <3>3, SameIsTransitive
  <2>2. PICK type \in Types : \A r \in R : IsValue(r[cols[i]], type)
    BY <1>1, <1>3
  <2>3. Goes(r1[cols[i]], r2[cols[i]], order[i]) \/ Goes(r2[cols[i]], r3[cols[i]], order[i])
    BY <1>3, <2>2, ValueBetween DEF Goes
  <2>. QED
    BY <1>3, <1>4, <2>1, <2>3 DEF Precedes, Goes
<1>5. CASE ~(\A j \in 1 .. i - 1 : Same(r1[cols[j]], r2[cols[j]]))
  <2>1. ~SameIn(r1, r2, cols)
    BY <1>1, <1>3, <1>5 DEF SameIn
  <2>2. PICK k : FirstAt(k, r1, r2, cols)
    BY <2>1, Difference
  <2>3. k \in 1 .. i - 1
    <3>1. k \in Nat /\ i \in Nat /\ k >= 1
      BY <1>1, <1>3, <2>2 DEF FirstAt
    <3>2. ~(i <= k)
      BY <3>1, <1>5, <2>2 DEF FirstAt
    <3>. QED
      BY <3>1, <3>2
  <2>4. /\ k \in DOMAIN cols /\ ~Same(r1[cols[k]], r2[cols[k]])
        /\ \A j \in 1 .. k - 1 : Same(r1[cols[j]], r2[cols[j]])
    BY <2>2 DEF FirstAt
  <2>5. ASSUME NEW j \in 1 .. k - 1 PROVE Same(r2[cols[j]], r3[cols[j]])
    <3>1. j \in DOMAIN cols /\ j \in 1 .. i - 1
      BY <1>1, <1>3, <2>3
    <3>2. PICK type \in Types : \A r \in R : IsValue(r[cols[j]], type)
      BY <1>1, <3>1
    <3>3. Same(r2[cols[j]], r1[cols[j]]) /\ Same(r1[cols[j]], r3[cols[j]])
      BY <1>3, <2>4, <3>1, SameIsSymmetric
    <3>. QED
      BY <3>2, <3>3, SameIsTransitive
  <2>6. PICK type \in Types : \A r \in R : IsValue(r[cols[k]], type)
    BY <1>1, <2>4
  <2>7. Same(r1[cols[k]], r3[cols[k]])
    BY <1>3, <2>3
  <2>8. Below(r1[cols[k]], r2[cols[k]]) => Below(r3[cols[k]], r2[cols[k]])
    BY <2>6, <2>7, ValueBetween DEF Same
  <2>9. Below(r2[cols[k]], r1[cols[k]]) => Below(r2[cols[k]], r3[cols[k]])
    BY <2>6, <2>7, ValueBetween DEF Same
  <2>10. Goes(r1[cols[k]], r2[cols[k]], order[k]) \/ Goes(r2[cols[k]], r3[cols[k]], order[k])
    BY <2>4, <2>8, <2>9 DEF Same, Goes
  <2>. QED
    BY <2>4, <2>5, <2>10 DEF Precedes, Goes
<1>. QED
  BY <1>4, <1>5

-----------------------------------------------------------------------------
(* One row after the other                                                 *)

(* What each of the loops over the rows of a list makes of v, what it has  *)
(* made of the first n - 1 of them, and of the n-th; at the number it      *)
(* begins with v does not matter.                                          *)
Start(kind) == IF kind \in {"best", "chain"} THEN 1 ELSE 0

Taken(kind, list, x, v, n) ==
  CASE kind = "sort"     -> IF n = 0 THEN <<>> ELSE Insert(v, list[n], x)
    [] kind = "sum"      -> IF n = 0 THEN <<>> ELSE Merge(v, list[n], x)
    [] kind = "distinct" -> IF n = 0 THEN <<>> ELSE Unlink(v, list[n])
    [] kind = "total"    -> IF n = 0 THEN 0
                            ELSE v + (IF n \in x[2] THEN list[n][x[1]].v[1] ELSE 0)
    [] kind = "best"     -> IF n = 1 THEN list[1]
                            ELSE IF Better(list[n], v, x[1], x[2]) THEN list[n] ELSE v
    [] kind = "chain"    -> IF n = 1 THEN list[1] ELSE v \o list[n]
    [] kind = "search"   -> IF n = 0 THEN [first |-> 1, last |-> x] ELSE Halved(list, v)

Loops == {"sort", "sum", "distinct", "total", "best", "chain", "search"}

LEMMA StartIsFree ==
  ASSUME NEW kind \in Loops, NEW list, NEW x, NEW v, NEW w
  PROVE  Taken(kind, list, x, v, Start(kind)) = Taken(kind, list, x, w, Start(kind))
BY DEF Taken, Start, Loops

(* f is a function on lo .. last that does so.                             *)
IsLoop(f, kind, list, x, lo, last) ==
  /\ f = [n \in lo .. last |-> f[n]]
  /\ \A n \in lo .. last : f[n] = Taken(kind, list, x, f[n - 1], n)

(* There is the function that the definition of each loop describes.       *)
LEMMA LoopExists ==
  ASSUME NEW kind \in Loops, NEW list, NEW x, NEW lo, lo = Start(kind), NEW last \in Nat
  PROVE  \E f : IsLoop(f, kind, list, x, lo, last)
<1> DEFINE T == {m \in Nat : \E f : IsLoop(f, kind, list, x, lo, m)}
<1>0. lo \in {0, 1}
  BY DEF Start
<1>1. 0 \in T
  <2>1. PICK f : f = [n \in lo .. 0 |-> Taken(kind, list, x, <<>>, n)]
    OBVIOUS
  <2>2. ASSUME NEW n \in lo .. 0 PROVE f[n] = Taken(kind, list, x, f[n - 1], n)
    <3>1. n = lo /\ f[n] = Taken(kind, list, x, <<>>, n)
      BY <1>0, <2>1
    <3>. QED
      BY <3>1, StartIsFree
  <2>3. f = [n \in lo .. 0 |-> f[n]]
    BY <2>1
  <2>. QED
    BY <2>2, <2>3 DEF IsLoop
<1>2. ASSUME NEW m \in Nat, m \in T PROVE m + 1 \in T
  <2>1. PICK f : IsLoop(f, kind, list, x, lo, m)
    BY <1>2
  <2>2. PICK g : g = [n \in lo .. m + 1 |-> Taken(kind, list, x, f[n - 1], n)]
    OBVIOUS
  <2>3. ASSUME NEW n \in lo .. m + 1 PROVE g[n] = Taken(kind, list, x, g[n - 1], n)
    <3>1. g[n] = Taken(kind, list, x, f[n - 1], n)
      BY <2>2
    <3>2. CASE n = lo
      BY <3>1, <3>2, StartIsFree
    <3>3. CASE n # lo
      <4>1. n - 1 \in lo .. m /\ n - 1 \in lo .. m + 1
        BY <3>3, <1>0
      <4>2. g[n - 1] = Taken(kind, list, x, f[(n - 1) - 1], n - 1)
        BY <2>2, <4>1
      <4>3. f[n - 1] = Taken(kind, list, x, f[(n - 1) - 1], n - 1)
        BY <2>1, <4>1 DEF IsLoop
      <4>. QED
        BY <3>1, <4>2, <4>3
    <3>. QED
      BY <3>2, <3>3
  <2>4. g = [n \in lo .. m + 1 |-> g[n]]
    BY <2>2
  <2>5. IsLoop(g, kind, list, x, lo, m + 1)
    BY <2>3, <2>4 DEF IsLoop
  <2>. QED
    BY <2>5
<1>3. \A m \in Nat : m \in T
  <2> HIDE DEF T
  <2>. QED
    BY <1>1, <1>2, Climb
<1>4. last \in T
  BY <1>3
<1>. QED
  BY <1>4

LEMMA SortingLoop ==
  ASSUME NEW list, NEW aggr, Len(list) \in Nat
  PROVE  \E f : /\ Sorting(list, aggr) = f[Len(list)]
                /\ f[0] = <<>>
                /\ \A n \in 1 .. Len(list) : f[n] = Insert(f[n - 1], list[n], aggr)
<1> DEFINE V(v, n) == IF n = 0 THEN <<>> ELSE Insert(v, list[n], aggr)
           Eq(f) == f = [n \in 0 .. Len(list) |-> V(f[n - 1], n)]
<1>1. \E f : Eq(f)
  <2>1. PICK f : IsLoop(f, "sort", list, aggr, 0, Len(list))
    <3>1. "sort" \in Loops /\ Start("sort") = 0
      BY DEF Loops, Start
    <3>. QED
      BY <3>1, LoopExists
  <2>2. \A n \in 0 .. Len(list) : Taken("sort", list, aggr, f[n - 1], n) = V(f[n - 1], n)
    BY DEF Taken
  <2>3. Eq(f)
    <3> HIDE DEF V
    <3>. QED
      BY <2>1, <2>2 DEF IsLoop
  <2>. QED
    BY <2>3
<1>2. PICK f : f = CHOOSE h : Eq(h)
  OBVIOUS
<1>3. Sorting(list, aggr) = f[Len(list)]
  BY <1>2 DEF Sorting
<1>4. Eq(f)
  <2> HIDE DEF Eq
  <2>. QED
    BY <1>1, <1>2
<1>. QED
  BY <1>3, <1>4

LEMMA SumLoop ==
  ASSUME NEW list, NEW group, Len(list) \in Nat
  PROVE  \E f : /\ SumResult(list, group) = f[Len(list)]
                /\ f[0] = <<>>
                /\ \A n \in 1 .. Len(list) : f[n] = Merge(f[n - 1], list[n], group)
<1> DEFINE V(v, n) == IF n = 0 THEN <<>> ELSE Merge(v, list[n], group)
           Eq(f) == f = [n \in 0 .. Len(list) |-> V(f[n - 1], n)]
<1>1. \E f : Eq(f)
  <2>1. PICK f : IsLoop(f, "sum", list, group, 0, Len(list))
    <3>1. "sum" \in Loops /\ Start("sum") = 0
      BY DEF Loops, Start
    <3>. QED
      BY <3>1, LoopExists
  <2>2. \A n \in 0 .. Len(list) : Taken("sum", list, group, f[n - 1], n) = V(f[n - 1], n)
    BY DEF Taken
  <2>3. Eq(f)
    <3> HIDE DEF V
    <3>. QED
      BY <2>1, <2>2 DEF IsLoop
  <2>. QED
    BY <2>3
<1>2. PICK f : f = CHOOSE h : Eq(h)
  OBVIOUS
<1>3. SumResult(list, group) = f[Len(list)]
  BY <1>2 DEF SumResult
<1>4. Eq(f)
  <2> HIDE DEF Eq
  <2>. QED
    BY <1>1, <1>2
<1>. QED
  BY <1>3, <1>4

LEMMA DistinctLoop ==
  ASSUME NEW list, Len(list) \in Nat
  PROVE  \E f : /\ DistinctResult(list) = f[Len(list)]
                /\ f[0] = <<>>
                /\ \A n \in 1 .. Len(list) : f[n] = Unlink(f[n - 1], list[n])
<1> DEFINE V(v, n) == IF n = 0 THEN <<>> ELSE Unlink(v, list[n])
           Eq(f) == f = [n \in 0 .. Len(list) |-> V(f[n - 1], n)]
<1>1. \E f : Eq(f)
  <2>1. PICK f : IsLoop(f, "distinct", list, {}, 0, Len(list))
    <3>1. "distinct" \in Loops /\ Start("distinct") = 0
      BY DEF Loops, Start
    <3>. QED
      BY <3>1, LoopExists
  <2>2. \A n \in 0 .. Len(list) : Taken("distinct", list, {}, f[n - 1], n) = V(f[n - 1], n)
    BY DEF Taken
  <2>3. Eq(f)
    <3> HIDE DEF V
    <3>. QED
      BY <2>1, <2>2 DEF IsLoop
  <2>. QED
    BY <2>3
<1>2. PICK f : f = CHOOSE h : Eq(h)
  OBVIOUS
<1>3. DistinctResult(list) = f[Len(list)]
  BY <1>2 DEF DistinctResult
<1>4. Eq(f)
  <2> HIDE DEF Eq
  <2>. QED
    BY <1>1, <1>2
<1>. QED
  BY <1>3, <1>4

LEMMA TotalLoop ==
  ASSUME NEW list, NEW c, NEW members, Len(list) \in Nat
  PROVE  \E f : /\ Total(list, c, members) = f[Len(list)]
                /\ f[0] = 0
                /\ \A n \in 1 .. Len(list) :
                     f[n] = f[n - 1] + (IF n \in members THEN list[n][c].v[1] ELSE 0)
<1> DEFINE V(v, n) == IF n = 0 THEN 0
                           ELSE v + (IF n \in members THEN list[n][c].v[1] ELSE 0)
           Eq(f) == f = [n \in 0 .. Len(list) |-> V(f[n - 1], n)]
<1>1. \E f : Eq(f)
  <2>1. PICK f : IsLoop(f, "total", list, <<c, members>>, 0, Len(list))
    <3>1. "total" \in Loops /\ Start("total") = 0
      BY DEF Loops, Start
    <3>. QED
      BY <3>1, LoopExists
  <2>2. \A n \in 0 .. Len(list) : Taken("total", list, <<c, members>>, f[n - 1], n) = V(f[n - 1], n)
    BY DEF Taken
  <2>3. Eq(f)
    <3> HIDE DEF V
    <3>. QED
      BY <2>1, <2>2 DEF IsLoop
  <2>. QED
    BY <2>3
<1>2. PICK f : f = CHOOSE h : Eq(h)
  OBVIOUS
<1>3. Total(list, c, members) = f[Len(list)]
  BY <1>2 DEF Total
<1>4. Eq(f)
  <2> HIDE DEF Eq
  <2>. QED
    BY <1>1, <1>2
<1>. QED
  BY <1>3, <1>4

LEMMA BestLoop ==
  ASSUME NEW list, NEW aggr, NEW cols, cols = MinMaxColumns(list, aggr), Len(list) \in Nat \ {0}
  PROVE  \E f : /\ MinMaxResult(list, aggr) = <<f[Len(list)]>>
                /\ f[1] = list[1]
                /\ \A n \in 2 .. Len(list) :
                     f[n] = IF Better(list[n], f[n - 1], cols, aggr.Option) THEN list[n] ELSE f[n - 1]
<1> DEFINE V(v, n) == IF n = 1 THEN list[1]
                        ELSE IF Better(list[n], v, cols, aggr.Option) THEN list[n] ELSE v
           Eq(f) == f = [n \in 1 .. Len(list) |-> V(f[n - 1], n)]
<1>1. \E f : Eq(f)
  <2>1. PICK f : IsLoop(f, "best", list, <<cols, aggr.Option>>, 1, Len(list))
    <3>1. "best" \in Loops /\ Start("best") = 1
      BY DEF Loops, Start
    <3>. QED
      BY <3>1, LoopExists
  <2>2. \A n \in 1 .. Len(list) : Taken("best", list, <<cols, aggr.Option>>, f[n - 1], n) = V(f[n - 1], n)
    BY DEF Taken
  <2>3. Eq(f)
    <3> HIDE DEF V
    <3>. QED
      BY <2>1, <2>2 DEF IsLoop
  <2>. QED
    BY <2>3
<1>2. PICK f : f = CHOOSE h : Eq(h)
  OBVIOUS
<1>3. MinMaxResult(list, aggr) = <<f[Len(list)]>>
  BY <1>2 DEF MinMaxResult
<1>4. Eq(f)
  <2> HIDE DEF Eq
  <2>. QED
    BY <1>1, <1>2
<1>5. f[1] = list[1]
  BY <1>4
<1>6. ASSUME NEW n \in 2 .. Len(list)
      PROVE  f[n] = IF Better(list[n], f[n - 1], cols, aggr.Option) THEN list[n] ELSE f[n - 1]
  BY <1>4
<1>. QED
  BY <1>3, <1>5, <1>6

-----------------------------------------------------------------------------
(* Sorting                                                                 *)

(* new is list with the row at j: after those that it does not precede,    *)
(* before the first one that it precedes.                                  *)
InsertedAt(new, j, list, row, aggr, S) ==
  /\ \A k \in 1 .. j - 1 : ~Precedes(row, list[k], aggr.nSort, aggr.cOrder)
  /\ j <= Len(list) => Precedes(row, list[j], aggr.nSort, aggr.cOrder)
  /\ new \in Seq(S)
  /\ Len(new) = Len(list) + 1
  /\ \A k \in 1 .. Len(list) + 1 :
       new[k] = IF k < j THEN list[k] ELSE IF k = j THEN row ELSE list[k - 1]

LEMMA Inserted ==
  ASSUME NEW aggr, NEW S, SameTypes(S, aggr.nSort), NEW list \in Seq(S), NEW row \in S
  PROVE  \E j \in 1 .. Len(list) + 1 : InsertedAt(Insert(list, row, aggr), j, list, row, aggr, S)
<1> DEFINE D == {k \in 1 .. Len(list) : sortCompare(list[k], row, aggr)}
<1>1. Len(list) \in Nat /\ \A k \in 1 .. Len(list) : list[k] \in S
  OBVIOUS
<1>2. ASSUME NEW k \in 1 .. Len(list)
      PROVE  k \in D <=> Precedes(row, list[k], aggr.nSort, aggr.cOrder)
  BY <1>1, SortCompares
<1>3. PICK i : i = IF D # {} THEN Min(D) ELSE 0
  OBVIOUS
<1>4. Insert(list, row, aggr) = IF i = 0 THEN Append(list, row) ELSE InsertAt(list, i, row)
  BY <1>3 DEF Insert, SelectInSeq
<1>5. D \subseteq 1 .. Len(list)
  OBVIOUS
<1> HIDE DEF D
<1>6. CASE D = {}
  <2>1. Insert(list, row, aggr) = Append(list, row)
    BY <1>3, <1>4, <1>6
  <2>2. PICK j : j = Len(list) + 1
    OBVIOUS
  <2>3. j \in 1 .. Len(list) + 1 /\ ~(j <= Len(list))
    BY <1>1, <2>2
  <2>4. \A k \in 1 .. j - 1 : ~Precedes(row, list[k], aggr.nSort, aggr.cOrder)
    BY <1>1, <1>2, <1>6, <2>2
  <2>5. \A k \in 1 .. Len(list) + 1 :
          Append(list, row)[k] = IF k < j THEN list[k] ELSE IF k = j THEN row ELSE list[k - 1]
    BY <1>1, <2>2
  <2>6. Append(list, row) \in Seq(S) /\ Len(Append(list, row)) = Len(list) + 1
    OBVIOUS
  <2>7. InsertedAt(Append(list, row), j, list, row, aggr, S)
    BY <2>3, <2>4, <2>5, <2>6 DEF InsertedAt
  <2>. QED
    BY <2>1, <2>3, <2>7
<1>7. CASE D # {}
  <2>1. i \in D /\ \A k \in D : i <= k
    <3>1. D \subseteq Nat
      BY <1>1, <1>5
    <3>2. i = Min(D)
      BY <1>3, <1>7
    <3>. QED
      BY <1>7, <3>1, <3>2, MinIsLeast
  <2>2. i \in 1 .. Len(list) /\ i # 0
    BY <1>1, <1>5, <2>1
  <2>3. Insert(list, row, aggr) = SubSeq(list, 1, i - 1) \o <<row>> \o SubSeq(list, i, Len(list))
    BY <1>4, <2>2 DEF InsertAt
  <2>4. PICK a, b : a = SubSeq(list, 1, i - 1) /\ b = SubSeq(list, i, Len(list))
    OBVIOUS
  <2>5. /\ a \in Seq(S) /\ Len(a) = i - 1 /\ \A k \in 1 .. i - 1 : a[k] = list[k]
        /\ b \in Seq(S) /\ Len(b) = Len(list) - i + 1
        /\ \A k \in 1 .. Len(list) - i + 1 : b[k] = list[i + k - 1]
    BY <1>1, <2>2, <2>4
  <2>6. PICK c : c = a \o <<row>>
    OBVIOUS
  <2>7. /\ c \in Seq(S) /\ Len(c) = i
        /\ \A k \in 1 .. i : c[k] = IF k < i THEN list[k] ELSE row
    BY <2>2, <2>5, <2>6
  <2>8. Insert(list, row, aggr) = c \o b
    BY <2>3, <2>4, <2>6
  <2>9. /\ c \o b \in Seq(S) /\ Len(c \o b) = Len(list) + 1
        /\ \A k \in 1 .. Len(list) + 1 : (c \o b)[k] = IF k <= i THEN c[k] ELSE b[k - i]
    BY <1>1, <2>2, <2>5, <2>7
  <2>10. ASSUME NEW k \in 1 .. Len(list) + 1
         PROVE  (c \o b)[k] = IF k < i THEN list[k] ELSE IF k = i THEN row ELSE list[k - 1]
    <3>1. CASE k <= i
      BY <1>1, <2>2, <2>7, <2>9, <3>1
    <3>2. CASE i < k
      <4>1. (c \o b)[k] = b[k - i] /\ k - i \in 1 .. Len(list) - i + 1
        BY <1>1, <2>2, <2>9, <3>2
      <4>2. b[k - i] = list[i + (k - i) - 1]
        BY <2>5, <4>1
      <4>3. i + (k - i) - 1 = k - 1
        BY <2>2
      <4>. QED
        BY <4>1, <4>2, <4>3, <2>2, <3>2
    <3>3. k <= i \/ i < k
      BY <1>1, <2>2
    <3>. QED
      BY <3>1, <3>2, <3>3
  <2>11. \A k \in 1 .. i - 1 : ~Precedes(row, list[k], aggr.nSort, aggr.cOrder)
    <3> SUFFICES ASSUME NEW k \in 1 .. i - 1
                 PROVE  ~Precedes(row, list[k], aggr.nSort, aggr.cOrder)
      OBVIOUS
    <3>1. k \in 1 .. Len(list) /\ ~(i <= k)
      BY <1>1, <2>2
    <3>. QED
      BY <3>1, <1>2, <2>1
  <2>12. Precedes(row, list[i], aggr.nSort, aggr.cOrder)
    BY <1>2, <2>1, <2>2
  <2>13. i \in 1 .. Len(list) + 1
    BY <1>1, <2>2
  <2>14. PICK new : new = Insert(list, row, aggr)
    OBVIOUS
  <2>15. /\ new \in Seq(S)
         /\ Len(new) = Len(list) + 1
         /\ \A k \in 1 .. Len(list) + 1 :
              new[k] = IF k < i THEN list[k] ELSE IF k = i THEN row ELSE list[k - 1]
    BY ONLY <2>8, <2>9, <2>10, <2>14
  <2>16. InsertedAt(new, i, list, row, aggr, S)
    BY ONLY <2>11, <2>12, <2>15 DEF InsertedAt
  <2>. QED
    BY <2>13, <2>14, <2>16
<1>. QED
  BY <1>6, <1>7

(* The first n rows of old, in order; place says where a row was.          *)
Placed(new, old, n, cols, order, place) ==
  /\ new \in Seq(ToSet(old))
  /\ Len(new) = n
  /\ place \in [1 .. n -> 1 .. n]
  /\ \A i \in 1 .. n : \E k \in 1 .. n : place[k] = i
  /\ \A k \in 1 .. n : new[k] = old[place[k]]
  /\ \A k, l \in 1 .. n : k < l =>
       \/ Precedes(new[k], new[l], cols, order)
       \/ ~Precedes(new[l], new[k], cols, order) /\ place[k] < place[l]

LEMMA InsertKeepsOrder ==
  ASSUME NEW aggr, NEW old, old \in Seq(ToSet(old)), SameTypes(ToSet(old), aggr.nSort),
         NEW n \in 1 .. Len(old), NEW list, NEW place,
         Placed(list, old, n - 1, aggr.nSort, aggr.cOrder, place)
  PROVE  \E p2 : Placed(Insert(list, old[n], aggr), old, n, aggr.nSort, aggr.cOrder, p2)
<1> DEFINE P(r1, r2) == Precedes(r1, r2, aggr.nSort, aggr.cOrder)
<1>1. PICK S, row, new : S = ToSet(old) /\ row = old[n] /\ new = Insert(list, row, aggr)
  OBVIOUS
<1>2. /\ Len(old) \in Nat /\ n \in Nat /\ n >= 1 /\ row \in S
      /\ list \in Seq(S) /\ Len(list) = n - 1
      /\ \A k \in 1 .. n - 1 : list[k] \in S
  <2>1. Len(old) \in Nat /\ n \in Nat /\ n >= 1 /\ old[n] \in ToSet(old)
    OBVIOUS
  <2>2. list \in Seq(ToSet(old)) /\ Len(list) = n - 1
    BY DEF Placed
  <2>3. \A k \in 1 .. n - 1 : list[k] \in ToSet(old)
    BY <2>2
  <2>. QED
    BY <1>1, <2>1, <2>2, <2>3
<1>3. PICK j \in 1 .. n :
           /\ \A k \in 1 .. j - 1 : ~P(row, list[k])
           /\ j <= n - 1 => P(row, list[j])
           /\ new \in Seq(S)
           /\ Len(new) = n
           /\ \A k \in 1 .. n : new[k] = IF k < j THEN list[k] ELSE IF k = j THEN row ELSE list[k - 1]
  <2>1. Len(list) + 1 = n
    BY <1>2
  <2>2. SameTypes(S, aggr.nSort)
    BY <1>1
  <2>3. PICK j \in 1 .. Len(list) + 1 : InsertedAt(Insert(list, row, aggr), j, list, row, aggr, S)
    BY <1>2, <2>2, Inserted
  <2>4. new = Insert(list, row, aggr) /\ Len(list) = n - 1
    BY <1>1, <1>2
  <2>. QED
    BY ONLY <2>1, <2>3, <2>4 DEF P, InsertedAt
<1>4. /\ \A k \in 1 .. n - 1 : place[k] \in 1 .. n - 1
      /\ \A i \in 1 .. n - 1 : \E k \in 1 .. n - 1 : place[k] = i
      /\ \A k \in 1 .. n - 1 : list[k] = old[place[k]]
      /\ \A k, l \in 1 .. n - 1 : k < l =>
           P(list[k], list[l]) \/ (~P(list[l], list[k]) /\ place[k] < place[l])
  BY DEF Placed
<1>5. /\ \A r1, r2 \in S : P(r1, r2) => ~P(r2, r1)
      /\ \A r1, r2, r3 \in S : P(r1, r3) => P(r1, r2) \/ P(r2, r3)
  BY <1>1, RowsAsymmetric, RowsBetween
<1> HIDE DEF P
<1>6. PICK p2 : p2 = [k \in 1 .. n |-> IF k < j THEN place[k] ELSE IF k = j THEN n ELSE place[k - 1]]
  OBVIOUS
<1>7. /\ \A k \in 1 .. n : k < j => /\ k \in 1 .. n - 1 /\ p2[k] = place[k]
                                    /\ new[k] = list[k] /\ p2[k] \in 1 .. n - 1
      /\ p2[j] = n /\ new[j] = row
      /\ \A k \in 1 .. n : j < k => /\ k - 1 \in 1 .. n - 1 /\ p2[k] = place[k - 1]
                                    /\ new[k] = list[k - 1] /\ p2[k] \in 1 .. n - 1
  <2>1. ASSUME NEW k \in 1 .. n, k < j
        PROVE  k \in 1 .. n - 1 /\ p2[k] = place[k] /\ new[k] = list[k] /\ p2[k] \in 1 .. n - 1
    <3>1. k \in 1 .. n - 1
      BY <1>2, <2>1
    <3>2. p2[k] = place[k] /\ new[k] = list[k]
      BY <1>3, <1>6, <2>1
    <3>. QED
      BY <3>1, <3>2, <1>4
  <2>2. ASSUME NEW k \in 1 .. n, j < k
        PROVE  /\ k - 1 \in 1 .. n - 1 /\ p2[k] = place[k - 1]
               /\ new[k] = list[k - 1] /\ p2[k] \in 1 .. n - 1
    <3>1. k - 1 \in 1 .. n - 1 /\ ~(k < j) /\ k # j
      BY <1>2, <2>2
    <3>2. p2[k] = place[k - 1] /\ new[k] = list[k - 1]
      BY <1>3, <1>6, <3>1
    <3>. QED
      BY <3>1, <3>2, <1>4
  <2>3. p2[j] = n /\ new[j] = row
    <3>1. j \in 1 .. n /\ ~(j < j)
      BY <1>2
    <3>. QED
      BY <3>1, <1>3, <1>6
  <2>. QED
    BY <2>1, <2>2, <2>3
<1>8. p2 \in [1 .. n -> 1 .. n]
  <2>1. ASSUME NEW k \in 1 .. n PROVE p2[k] \in 1 .. n
    BY <1>2, <1>7
  <2>. QED
    BY <1>6, <2>1
<1>9. ASSUME NEW i \in 1 .. n PROVE \E k \in 1 .. n : p2[k] = i
  <2>1. CASE i = n
    BY <1>7, <2>1
  <2>2. CASE i # n
    <3>1. i \in 1 .. n - 1
      BY <1>2, <2>2
    <3>2. PICK k \in 1 .. n - 1 : place[k] = i
      BY <1>4, <3>1
    <3>3. CASE k < j
      <4>1. k \in 1 .. n
        BY <1>2
      <4>2. p2[k] = place[k]
        BY <1>7, <3>3, <4>1
      <4>. QED
        BY <3>2, <4>1, <4>2
    <3>4. CASE j <= k
      <4>1. k + 1 \in 1 .. n /\ j < k + 1 /\ (k + 1) - 1 = k
        BY <1>2, <3>4
      <4>2. p2[k + 1] = place[k]
        BY <1>7, <4>1
      <4>. QED
        BY <3>2, <4>1, <4>2
    <3>. QED
      BY <1>2, <3>3, <3>4
  <2>. QED
    BY <2>1, <2>2
<1>10. ASSUME NEW k \in 1 .. n PROVE new[k] = old[p2[k]]
  <2>1. CASE k = j
    BY <2>1, <1>1, <1>7
  <2>2. CASE k < j
    BY <2>2, <1>4, <1>7
  <2>3. CASE j < k
    <3>1. k - 1 \in 1 .. n - 1 /\ p2[k] = place[k - 1] /\ new[k] = list[k - 1]
      BY <2>3, <1>7
    <3>2. list[k - 1] = old[place[k - 1]]
      BY <3>1, <1>4
    <3>. QED
      BY <3>1, <3>2
  <2>4. k = j \/ k < j \/ j < k
    BY <1>2
  <2>. QED
    BY <2>1, <2>2, <2>3, <2>4
<1>11. ASSUME NEW m \in 1 .. n - 1, j <= m PROVE P(row, list[m]) /\ ~P(list[m], row)
  <2>1. j \in 1 .. n - 1 /\ list[j] \in S /\ list[m] \in S /\ row \in S
    BY <1>2, <1>11
  <2>2. P(row, list[j])
    BY <1>2, <1>3, <2>1
  <2>3. CASE m = j
    BY <2>1, <2>2, <2>3, <1>5
  <2>4. CASE j < m
    <3>1. ~P(list[m], list[j])
      BY <1>4, <1>5, <2>1, <2>4
    <3>2. P(row, list[m])
      BY <1>5, <2>1, <2>2, <3>1
    <3>. QED
      BY <1>5, <2>1, <3>2
  <2>. QED
    BY <1>11, <2>3, <2>4
<1>12. ASSUME NEW k \in 1 .. n, NEW l \in 1 .. n, k < l
       PROVE  P(new[k], new[l]) \/ (~P(new[l], new[k]) /\ p2[k] < p2[l])
  <2>1. CASE l < j
    <3>1. k < j /\ k \in 1 .. n - 1 /\ l \in 1 .. n - 1
      BY <1>2, <1>12, <2>1
    <3>. QED
      BY <3>1, <2>1, <1>4, <1>7, <1>12
  <2>2. CASE l = j
    <3>1. k < j /\ k \in 1 .. j - 1
      BY <1>2, <1>12, <2>2
    <3>2. new[k] = list[k] /\ new[l] = row /\ p2[k] \in 1 .. n - 1 /\ p2[l] = n
      BY <3>1, <2>2, <1>7
    <3>3. ~P(row, list[k])
      BY <3>1, <1>3
    <3>4. p2[k] < p2[l]
      BY <3>2, <1>2
    <3>. QED
      BY <3>2, <3>3, <3>4
  <2>3. CASE k = j
    <3>1. j < l /\ l - 1 \in 1 .. n - 1 /\ j <= l - 1
      BY <1>2, <1>12, <2>3
    <3>2. new[k] = row /\ new[l] = list[l - 1]
      BY <3>1, <2>3, <1>7
    <3>. QED
      BY <3>1, <3>2, <1>11
  <2>4. CASE j < k
    <3>1. k - 1 \in 1 .. n - 1 /\ l - 1 \in 1 .. n - 1 /\ k - 1 < l - 1 /\ j < l
      BY <1>2, <1>12, <2>4
    <3>2. new[k] = list[k - 1] /\ new[l] = list[l - 1] /\ p2[k] = place[k - 1] /\ p2[l] = place[l - 1]
      BY <3>1, <2>4, <1>7
    <3>. QED
      BY <3>1, <3>2, <1>4
  <2>5. CASE k < j /\ j < l
    <3>1. /\ new[k] = list[k] /\ new[l] = list[l - 1] /\ p2[k] = place[k] /\ p2[l] = place[l - 1]
          /\ k \in 1 .. n - 1 /\ l - 1 \in 1 .. n - 1 /\ k < l - 1
      BY <1>2, <2>5, <1>7
    <3>. QED
      BY <3>1, <1>4
  <2>. QED
    BY <1>2, <1>12, <2>1, <2>2, <2>3, <2>4, <2>5
<1>13. Placed(new, old, n, aggr.nSort, aggr.cOrder, p2)
  BY <1>1, <1>3, <1>8, <1>9, <1>10, <1>12 DEF Placed, P
<1>. QED
  BY <1>1, <1>13

(* Sorting puts all rows of a list in order.                               *)
LEMMA SortingOrders ==
  ASSUME NEW list, NEW aggr, Comparable(list, aggr.nSort)
  PROVE  InOrder(Sorting(list, aggr), list, aggr.nSort, aggr.cOrder)
<1>1. list \in Seq(ToSet(list)) /\ SameTypes(ToSet(list), aggr.nSort) /\ Len(list) \in Nat
  BY ComparableRows DEF Comparable
<1>2. PICK f : /\ Sorting(list, aggr) = f[Len(list)]
               /\ f[0] = <<>>
               /\ \A n \in 1 .. Len(list) : f[n] = Insert(f[n - 1], list[n], aggr)
  BY <1>1, SortingLoop
<1> DEFINE T == {n \in Nat : n <= Len(list) =>
                   \E place : Placed(f[n], list, n, aggr.nSort, aggr.cOrder, place)}
<1>3. 0 \in T
  <2>1. PICK place : place = [k \in 1 .. 0 |-> k]
    OBVIOUS
  <2>2. Placed(<<>>, list, 0, aggr.nSort, aggr.cOrder, place)
    BY <2>1 DEF Placed
  <2>. QED
    BY <1>2, <2>2
<1>4. ASSUME NEW n \in Nat, n \in T PROVE n + 1 \in T
  <2> SUFFICES ASSUME n + 1 <= Len(list)
               PROVE  \E place : Placed(f[n + 1], list, n + 1, aggr.nSort, aggr.cOrder, place)
    OBVIOUS
  <2>1. PICK m : m = n + 1
    OBVIOUS
  <2>2. m \in 1 .. Len(list) /\ m - 1 = n /\ n <= Len(list)
    BY <1>1, <2>1
  <2>3. PICK place : Placed(f[n], list, m - 1, aggr.nSort, aggr.cOrder, place)
    BY <1>4, <2>2
  <2>4. f[m] = Insert(f[n], list[m], aggr)
    BY <1>2, <2>2
  <2>. QED
    BY <1>1, <2>1, <2>2, <2>3, <2>4, InsertKeepsOrder
<1>5. \A n \in Nat : n \in T
  <2> HIDE DEF T
  <2>. QED
    BY <1>3, <1>4, Climb
<1>6. PICK place, new : /\ new = Sorting(list, aggr)
                        /\ Placed(new, list, Len(list), aggr.nSort, aggr.cOrder, place)
  BY <1>1, <1>2, <1>5
<1>7. DOMAIN new = 1 .. Len(list) /\ DOMAIN list = 1 .. Len(list)
  BY <1>1, <1>6 DEF Placed
<1>8. /\ place \in [DOMAIN new -> DOMAIN list]
      /\ \A i \in DOMAIN list : \E k \in DOMAIN new : place[k] = i
      /\ \A k \in DOMAIN new : new[k] = list[place[k]]
      /\ \A k, l \in DOMAIN new : k < l =>
           \/ Precedes(new[k], new[l], aggr.nSort, aggr.cOrder)
           \/ ~Precedes(new[l], new[k], aggr.nSort, aggr.cOrder) /\ place[k] < place[l]
  BY ONLY <1>6, <1>7 DEF Placed
<1>9. InOrder(new, list, aggr.nSort, aggr.cOrder)
  BY ONLY <1>8 DEF InOrder
<1>. QED
  BY <1>6, <1>9

-----------------------------------------------------------------------------
(* The least or greatest row                                               *)

Wins(r1, r2, cols, option) ==
  IF option = 3 THEN Precedes(r1, r2, cols, Upward(cols)) ELSE Precedes(r2, r1, cols, Upward(cols))

LEMMA WinsOrders ==
  ASSUME NEW R, NEW cols, SameTypes(R, cols), NEW option \in {3, 4}
  PROVE  /\ \A r1, r2 \in R : Better(r1, r2, cols, option) <=> Wins(r1, r2, cols, option)
         /\ \A r1, r2 \in R : Wins(r1, r2, cols, option) => ~Wins(r2, r1, cols, option)
         /\ \A r1, r2, r3 \in R : Wins(r1, r3, cols, option) =>
              Wins(r1, r2, cols, option) \/ Wins(r2, r3, cols, option)
<1>1. ASSUME NEW r1 \in R, NEW r2 \in R
      PROVE  Better(r1, r2, cols, option) <=> Wins(r1, r2, cols, option)
  BY ResultCompares DEF Better, Wins
<1>2. ASSUME NEW r1 \in R, NEW r2 \in R, Wins(r1, r2, cols, option)
      PROVE  ~Wins(r2, r1, cols, option)
  BY <1>2, RowsAsymmetric DEF Wins
<1>3. ASSUME NEW r1 \in R, NEW r2 \in R, NEW r3 \in R, Wins(r1, r3, cols, option)
      PROVE  Wins(r1, r2, cols, option) \/ Wins(r2, r3, cols, option)
  BY <1>3, RowsBetween DEF Wins
<1>. QED
  BY <1>1, <1>2, <1>3

(* Of the first n rows, row i is the first of the best ones.               *)
IsBest(i, list, n, cols, option) ==
  /\ i \in 1 .. n
  /\ \A j \in 1 .. n : ~Wins(list[j], list[i], cols, option)
  /\ \A j \in 1 .. i - 1 : Wins(list[i], list[j], cols, option)

LEMMA BestOfMore ==
  ASSUME NEW list, NEW cols, NEW option \in {3, 4}, Comparable(list, cols),
         NEW n \in Nat, n + 1 \in 1 .. Len(list), NEW i, IsBest(i, list, n, cols, option)
  PROVE  IsBest(IF Better(list[n + 1], list[i], cols, option) THEN n + 1 ELSE i,
                list, n + 1, cols, option)
<1> DEFINE W(r1, r2) == Wins(r1, r2, cols, option)
           R == ToSet(list)
<1>1. SameTypes(R, cols) /\ list \in Seq(R) /\ Len(list) \in Nat
  BY ComparableRows DEF Comparable
<1>2. i \in 1 .. n /\ \A j \in 1 .. n + 1 : list[j] \in R
  BY <1>1 DEF IsBest
<1>3. /\ \A j \in 1 .. n : ~W(list[j], list[i])
      /\ \A j \in 1 .. i - 1 : W(list[i], list[j])
  BY DEF IsBest
<1>4. PICK m : m = n + 1
  OBVIOUS
<1>5. list[i] \in R /\ list[m] \in R
  BY <1>2, <1>4
<1>6. Better(list[m], list[i], cols, option) <=> W(list[m], list[i])
  BY <1>1, <1>5, WinsOrders
<1>7. /\ \A r1, r2 \in R : W(r1, r2) => ~W(r2, r1)
      /\ \A r1, r2, r3 \in R : W(r1, r3) => W(r1, r2) \/ W(r2, r3)
  BY <1>1, WinsOrders
<1> HIDE DEF W, R
<1>8. CASE W(list[m], list[i])
  <2>1. ASSUME NEW j \in 1 .. n PROVE W(list[m], list[j])
    <3>1. ~W(list[j], list[i]) /\ list[j] \in R
      BY <1>2, <1>3
    <3>. QED
      BY <3>1, <1>5, <1>7, <1>8
  <2>2. ASSUME NEW j \in 1 .. m PROVE ~W(list[j], list[m])
    <3>1. CASE j = m
      BY <3>1, <1>5, <1>7
    <3>2. CASE j # m
      <4>1. j \in 1 .. n /\ list[j] \in R
        BY <3>2, <1>2, <1>4
      <4>2. W(list[m], list[j])
        BY <4>1, <2>1
      <4>. QED
        BY <4>1, <4>2, <1>5, <1>7
    <3>. QED
      BY <3>1, <3>2
  <2>3. m \in 1 .. m /\ m - 1 = n
    BY <1>4
  <2>4. IsBest(m, list, m, cols, option)
    BY <2>1, <2>2, <2>3 DEF IsBest, W
  <2>. QED
    BY <2>4, <1>4, <1>6, <1>8
<1>9. CASE ~W(list[m], list[i])
  <2>1. ASSUME NEW j \in 1 .. m PROVE ~W(list[j], list[i])
    <3>1. j = m \/ j \in 1 .. n
      BY <1>4
    <3>. QED
      BY <3>1, <1>3, <1>9
  <2>2. i \in 1 .. m
    BY <1>2, <1>4
  <2>3. IsBest(i, list, m, cols, option)
    BY <2>1, <2>2, <1>3 DEF IsBest, W
  <2>. QED
    BY <2>3, <1>4, <1>6, <1>9
<1>. QED
  BY <1>8, <1>9

LEMMA MinMaxFinds ==
  ASSUME NEW list, NEW aggr, aggr.Option \in {3, 4}, Len(list) \in Nat \ {0},
         Comparable(list, MinMaxColumns(list, aggr))
  PROVE  FirstExtreme(MinMaxResult(list, aggr), list, MinMaxColumns(list, aggr), aggr.Option)
<1>1. PICK cols, option : cols = MinMaxColumns(list, aggr) /\ option = aggr.Option
  OBVIOUS
<1>2. option \in {3, 4} /\ Comparable(list, cols) /\ list \in Seq(ToSet(list))
  BY <1>1 DEF Comparable
<1>3. PICK f : /\ MinMaxResult(list, aggr) = <<f[Len(list)]>>
               /\ f[1] = list[1]
               /\ \A n \in 2 .. Len(list) :
                    f[n] = IF Better(list[n], f[n - 1], cols, option) THEN list[n] ELSE f[n - 1]
  BY <1>1, BestLoop
<1> DEFINE T == {n \in Nat : n + 1 <= Len(list) =>
                   \E i : f[n + 1] = list[i] /\ IsBest(i, list, n + 1, cols, option)}
<1>4. 0 \in T
  <2>1. list[1] \in ToSet(list) /\ SameTypes(ToSet(list), cols)
    BY <1>2, ComparableRows
  <2>2. ~Wins(list[1], list[1], cols, option)
    BY <1>2, <2>1, WinsOrders
  <2>3. IsBest(1, list, 1, cols, option)
    BY <2>2 DEF IsBest
  <2>. QED
    BY <2>3, <1>3
<1>5. ASSUME NEW k \in Nat, k \in T PROVE k + 1 \in T
  <2>1. PICK n : n = k + 1 /\ n \in Nat
    OBVIOUS
  <2> SUFFICES ASSUME n + 1 <= Len(list)
               PROVE  \E i : f[n + 1] = list[i] /\ IsBest(i, list, n + 1, cols, option)
    BY <2>1
  <2>2. PICK i : f[n] = list[i] /\ IsBest(i, list, n, cols, option)
    BY <1>5, <2>1
  <2>3. n + 1 \in 1 .. Len(list) /\ n + 1 \in 2 .. Len(list) /\ (n + 1) - 1 = n
    BY <2>1
  <2>4. PICK j : j = IF Better(list[n + 1], list[i], cols, option) THEN n + 1 ELSE i
    OBVIOUS
  <2>5. IsBest(j, list, n + 1, cols, option)
    BY <1>2, <2>1, <2>2, <2>3, <2>4, BestOfMore
  <2>6. f[n + 1] = list[j]
    BY <1>3, <2>2, <2>3, <2>4
  <2>. QED
    BY <2>5, <2>6
<1>6. \A k \in Nat : k \in T
  <2> HIDE DEF T
  <2>. QED
    BY <1>4, <1>5, Climb
<1>7. PICK n : n = Len(list) /\ n \in Nat \ {0}
  OBVIOUS
<1>8. \E i : f[n] = list[i] /\ IsBest(i, list, n, cols, option)
  <2>1. PICK k : k = n - 1
    OBVIOUS
  <2>2. k \in Nat /\ k + 1 = n /\ n <= Len(list)
    BY <1>7, <2>1
  <2>3. k \in T
    BY <1>6, <2>2
  <2>. QED
    BY <2>2, <2>3
<1>9. PICK i : f[n] = list[i] /\ IsBest(i, list, n, cols, option)
  BY <1>8
<1>10. DOMAIN list = 1 .. n
  BY <1>2, <1>7
<1>11. FirstExtreme(<<list[i]>>, list, cols, option)
  BY <1>9, <1>10 DEF FirstExtreme, IsBest, Wins
<1>. QED
  BY <1>1, <1>3, <1>7, <1>9, <1>11

-----------------------------------------------------------------------------
(* The first row for each value                                            *)

(* new has the rows of the first n of old whose first column is new there. *)
Kept(new, old, n, place) ==
  /\ new \in Seq(ToSet(old))
  /\ place \in [1 .. Len(new) -> 1 .. n]
  /\ \A k \in 1 .. Len(new) : new[k] = old[place[k]]
  /\ \A k, l \in 1 .. Len(new) : k < l => place[k] < place[l]
  /\ \A i \in 1 .. n : (\E k \in 1 .. Len(new) : place[k] = i)
                         <=> \A j \in 1 .. i - 1 : old[j][1] # old[i][1]

LEMMA UnlinkKeeps ==
  ASSUME NEW old, Legible(old), NEW n \in Nat, n + 1 \in 1 .. Len(old), NEW list, NEW place,
         Kept(list, old, n, place)
  PROVE  \E p2 : Kept(Unlink(list, old[n + 1]), old, n + 1, p2)
<1>1. PICK m, row, len : m = n + 1 /\ row = old[n + 1] /\ len = Len(list)
  OBVIOUS
<1>2. /\ old \in Seq(ToSet(old)) /\ Len(old) \in Nat /\ DOMAIN old = 1 .. Len(old)
      /\ \A i, j \in DOMAIN old : RawText(old[i][1]) = RawText(old[j][1]) => old[i][1] = old[j][1]
  BY DEF Legible
<1>3. /\ list \in Seq(ToSet(old)) /\ len \in Nat /\ DOMAIN list = 1 .. len
      /\ m \in 1 .. Len(old) /\ row = old[m] /\ row \in ToSet(old)
  <2>1. list \in Seq(ToSet(old))
    BY DEF Kept
  <2>2. old[n + 1] \in ToSet(old)
    BY <1>2
  <2>. QED
    BY <1>1, <2>1, <2>2
<1>4. /\ \A k \in 1 .. len : place[k] \in 1 .. n
      /\ \A k \in 1 .. len : list[k] = old[place[k]]
      /\ \A k, l \in 1 .. len : k < l => place[k] < place[l]
      /\ \A i \in 1 .. n : (\E k \in 1 .. len : place[k] = i)
                             <=> \A j \in 1 .. i - 1 : old[j][1] # old[i][1]
  BY <1>1 DEF Kept
<1>5. (\E k \in 1 .. len : RawText(list[k][1]) = RawText(row[1]))
        <=> ~\A j \in 1 .. m - 1 : old[j][1] # old[m][1]
  <2>1. ASSUME NEW k \in 1 .. len, RawText(list[k][1]) = RawText(row[1])
        PROVE  \E j \in 1 .. m - 1 : old[j][1] = old[m][1]
    <3>1. PICK j : j = place[k]
      OBVIOUS
    <3>2. j \in 1 .. n /\ list[k] = old[j]
      BY <3>1, <1>4
    <3>3. j \in DOMAIN old /\ m \in DOMAIN old /\ j \in 1 .. m - 1
      BY <3>2, <1>1, <1>2, <1>3
    <3>4. old[j][1] = old[m][1]
      BY <2>1, <3>2, <3>3, <1>2, <1>3
    <3>. QED
      BY <3>3, <3>4
  <2>2. ASSUME NEW j \in 1 .. m - 1, old[j][1] = old[m][1]
        PROVE  \E k \in 1 .. len : RawText(list[k][1]) = RawText(row[1])
    <3> DEFINE T == {i \in 1 .. m - 1 : old[i][1] = old[m][1]}
    <3>1. T \subseteq Nat /\ T # {}
      BY <2>2, <1>1
    <3>2. PICK i \in T : \A h \in T : i <= h
      BY <3>1, LeastNumber
    <3>3. i \in 1 .. n /\ old[i][1] = old[m][1]
      BY <3>2, <1>1
    <3>4. ASSUME NEW h \in 1 .. i - 1 PROVE old[h][1] # old[i][1]
      <4>1. h \in 1 .. m - 1 /\ ~(i <= h)
        BY <3>3, <1>1
      <4>. QED
        BY <4>1, <3>2, <3>3
    <3>5. PICK k \in 1 .. len : place[k] = i
      BY <1>4, <3>3, <3>4
    <3>6. list[k][1] = row[1]
      BY <1>3, <1>4, <3>3, <3>5
    <3>. QED
      BY <3>6
  <2>. QED
    BY <2>1, <2>2
<1>6. CASE \E k \in 1 .. len : RawText(list[k][1]) = RawText(row[1])
  <2>1. Unlink(list, row) = list
    BY <1>3, <1>6 DEF Unlink
  <2>2. place \in [1 .. len -> 1 .. m]
    <3>1. place \in [1 .. len -> 1 .. n]
      BY <1>1 DEF Kept
    <3>. QED
      BY <3>1, <1>1
  <2>3. ASSUME NEW i \in 1 .. m
        PROVE  (\E k \in 1 .. len : place[k] = i) <=> \A j \in 1 .. i - 1 : old[j][1] # old[i][1]
    <3>1. CASE i \in 1 .. n
      BY <3>1, <1>4
    <3>2. CASE i = m
      <4>1. ~\E k \in 1 .. len : place[k] = i
        BY <3>2, <1>1, <1>4
      <4>. QED
        BY <4>1, <3>2, <1>5, <1>6
    <3>. QED
      BY <3>1, <3>2, <1>1
  <2>4. Kept(list, old, m, place)
    BY ONLY <1>1, <1>3, <1>4, <2>2, <2>3 DEF Kept
  <2>. QED
    BY <1>1, <2>1, <2>4
<1>7. CASE ~\E k \in 1 .. len : RawText(list[k][1]) = RawText(row[1])
  <2>1. PICK new : new = Append(list, row)
    OBVIOUS
  <2>2. Unlink(list, row) = new
    BY <1>3, <1>7, <2>1 DEF Unlink
  <2>3. /\ new \in Seq(ToSet(old)) /\ Len(new) = len + 1
        /\ \A k \in 1 .. len : new[k] = list[k]
        /\ new[len + 1] = row
    BY <1>1, <1>3, <2>1
  <2>4. PICK p2 : p2 = [k \in 1 .. len + 1 |-> IF k = len + 1 THEN m ELSE place[k]]
    OBVIOUS
  <2>5. p2[len + 1] = m /\ \A k \in 1 .. len : p2[k] = place[k] /\ p2[k] \in 1 .. n
    BY <1>3, <1>4, <2>4
  <2>6. ASSUME NEW k \in 1 .. len + 1
        PROVE  p2[k] \in 1 .. m /\ new[k] = old[p2[k]] /\ (k = len + 1 \/ k \in 1 .. len)
    <3>1. k = len + 1 \/ k \in 1 .. len
      BY <1>3
    <3>. QED
      BY SMTT(30), <3>1, <1>1, <1>3, <1>4, <2>3, <2>5
  <2>7. p2 \in [1 .. len + 1 -> 1 .. m]
    BY <2>4, <2>6
  <2>8. ASSUME NEW k \in 1 .. len + 1, NEW l \in 1 .. len + 1, k < l PROVE p2[k] < p2[l]
    <3>1. k \in 1 .. len
      BY <1>3, <2>8
    <3>2. CASE l = len + 1
      BY <3>1, <3>2, <1>1, <2>5
    <3>3. CASE l \in 1 .. len
      BY <3>1, <3>3, <1>4, <2>5, <2>8
    <3>. QED
      BY <3>2, <3>3, <2>6
  <2>9. ASSUME NEW i \in 1 .. m
        PROVE  (\E k \in 1 .. len + 1 : p2[k] = i) <=> \A j \in 1 .. i - 1 : old[j][1] # old[i][1]
    <3>1. CASE i = m
      <4>1. len + 1 \in 1 .. len + 1
        BY <1>3
      <4>. QED
        BY <4>1, <3>1, <1>5, <1>7, <2>5
    <3>2. CASE i \in 1 .. n
      <4>1. (\E k \in 1 .. len + 1 : p2[k] = i) <=> (\E k \in 1 .. len : place[k] = i)
        <5>1. ASSUME NEW k \in 1 .. len + 1, p2[k] = i PROVE k \in 1 .. len /\ place[k] = i
          BY <5>1, <3>2, <1>1, <2>5, <2>6
        <5>2. ASSUME NEW k \in 1 .. len, place[k] = i PROVE k \in 1 .. len + 1 /\ p2[k] = i
          BY <5>2, <1>3, <2>5
        <5>. QED
          BY <5>1, <5>2
      <4>. QED
        BY <4>1, <3>2, <1>4
    <3>. QED
      BY <3>1, <3>2, <1>1
  <2>10. Kept(new, old, m, p2)
    BY ONLY <2>3, <2>6, <2>7, <2>8, <2>9 DEF Kept
  <2>. QED
    BY <1>1, <2>2, <2>10
<1>. QED
  BY <1>6, <1>7

LEMMA DistinctKeepsFirsts ==
  ASSUME NEW list, Legible(list)
  PROVE  FirstsOf(DistinctResult(list), list)
<1>1. list \in Seq(ToSet(list)) /\ Len(list) \in Nat
  BY DEF Legible
<1>2. PICK f : /\ DistinctResult(list) = f[Len(list)]
               /\ f[0] = <<>>
               /\ \A n \in 1 .. Len(list) : f[n] = Unlink(f[n - 1], list[n])
  BY <1>1, DistinctLoop
<1> DEFINE T == {n \in Nat : n <= Len(list) => \E place : Kept(f[n], list, n, place)}
<1>3. 0 \in T
  <2>1. PICK place : place = [k \in 1 .. 0 |-> k]
    OBVIOUS
  <2>2. Kept(<<>>, list, 0, place)
    BY <2>1 DEF Kept
  <2>. QED
    BY <1>2, <2>2
<1>4. ASSUME NEW n \in Nat, n \in T PROVE n + 1 \in T
  <2> SUFFICES ASSUME n + 1 <= Len(list) PROVE \E place : Kept(f[n + 1], list, n + 1, place)
    OBVIOUS
  <2>1. n + 1 \in 1 .. Len(list) /\ (n + 1) - 1 = n /\ n <= Len(list)
    BY <1>1
  <2>2. PICK place : Kept(f[n], list, n, place)
    BY <1>4, <2>1
  <2>3. f[n + 1] = Unlink(f[n], list[n + 1])
    BY <1>2, <2>1
  <2>. QED
    BY <2>1, <2>2, <2>3, UnlinkKeeps
<1>5. \A n \in Nat : n \in T
  <2> HIDE DEF T
  <2>. QED
    BY <1>3, <1>4, Climb
<1>6. PICK place, new : new = DistinctResult(list) /\ Kept(new, list, Len(list), place)
  BY <1>1, <1>2, <1>5
<1>7. DOMAIN new = 1 .. Len(new) /\ DOMAIN list = 1 .. Len(list)
  BY <1>1, <1>6 DEF Kept
<1>8. /\ place \in [DOMAIN new -> DOMAIN list]
      /\ \A k \in DOMAIN new : new[k] = list[place[k]]
      /\ \A k, l \in DOMAIN new : k < l => place[k] < place[l]
      /\ \A i \in DOMAIN list : (\E k \in DOMAIN new : place[k] = i)
                                  <=> \A j \in 1 .. i - 1 : list[j][1] # list[i][1]
  BY ONLY <1>6, <1>7 DEF Kept
<1>9. FirstsOf(new, list)
  BY ONLY <1>8 DEF FirstsOf
<1>. QED
  BY <1>6, <1>9

-----------------------------------------------------------------------------
(* Sums                                                                    *)

LEMMA TotalOfNone ==
  ASSUME NEW list, NEW c, Len(list) \in Nat
  PROVE  Total(list, c, {}) = 0
<1>1. PICK f : /\ Total(list, c, {}) = f[Len(list)]
               /\ f[0] = 0
               /\ \A n \in 1 .. Len(list) : f[n] = f[n - 1] + (IF n \in {} THEN list[n][c].v[1] ELSE 0)
  BY TotalLoop
<1> DEFINE T == {n \in Nat : n <= Len(list) => f[n] = 0}
<1>2. 0 \in T
  BY <1>1
<1>3. ASSUME NEW n \in Nat, n \in T PROVE n + 1 \in T
  <2> SUFFICES ASSUME n + 1 <= Len(list) PROVE f[n + 1] = 0
    OBVIOUS
  <2>1. n + 1 \in 1 .. Len(list) /\ (n + 1) - 1 = n /\ n <= Len(list)
    OBVIOUS
  <2>2. f[n + 1] = f[(n + 1) - 1] + 0
    BY <1>1, <2>1
  <2>3. f[n] = 0
    BY <1>3, <2>1
  <2>. QED
    BY <2>1, <2>2, <2>3
<1>4. \A n \in Nat : n \in T
  <2> HIDE DEF T
  <2>. QED
    BY <1>2, <1>3, Climb
<1>. QED
  BY <1>1, <1>4

(* The total of a column of numbers, and of one member more.               *)
LEMMA TotalOfMore ==
  ASSUME NEW list, NEW c, NEW members, NEW m \in 1 .. Len(list), m \notin members,
         list \in Seq(ToSet(list)), IsColumn(list, c, "LONG")
  PROVE  /\ Total(list, c, members) \in Int
         /\ Total(list, c, members \cup {m}) = Total(list, c, members) + list[m][c].v[1]
<1>1. Len(list) \in Nat /\ DOMAIN list = 1 .. Len(list)
  OBVIOUS
<1>2. PICK x : x = [n \in 1 .. Len(list) |-> list[n][c].v[1]]
  OBVIOUS
<1>3. \A n \in 1 .. Len(list) : x[n] = list[n][c].v[1] /\ x[n] \in Int
  BY <1>1, <1>2 DEF IsColumn, IsValue
<1>4. PICK f : /\ Total(list, c, members) = f[Len(list)]
               /\ f[0] = 0
               /\ \A n \in 1 .. Len(list) :
                    f[n] = f[n - 1] + (IF n \in members THEN list[n][c].v[1] ELSE 0)
  BY <1>1, TotalLoop
<1>5. PICK more : more = members \cup {m}
  OBVIOUS
<1>6. PICK g : /\ Total(list, c, more) = g[Len(list)]
               /\ g[0] = 0
               /\ \A n \in 1 .. Len(list) :
                    g[n] = g[n - 1] + (IF n \in more THEN list[n][c].v[1] ELSE 0)
  BY <1>1, TotalLoop
<1> DEFINE T == {n \in Nat : n <= Len(list) =>
                   /\ f[n] \in Int
                   /\ g[n] = f[n] + (IF m <= n THEN x[m] ELSE 0)}
<1>7. 0 \in T
  BY <1>4, <1>6
<1>8. ASSUME NEW n \in Nat, n \in T PROVE n + 1 \in T
  <2> SUFFICES ASSUME n + 1 <= Len(list)
               PROVE  f[n + 1] \in Int /\ g[n + 1] = f[n + 1] + (IF m <= n + 1 THEN x[m] ELSE 0)
    OBVIOUS
  <2>1. PICK k : k = n + 1
    OBVIOUS
  <2>2. k \in 1 .. Len(list) /\ k - 1 = n /\ n <= Len(list)
    BY <1>1, <2>1
  <2>3. f[k] = f[n] + (IF k \in members THEN x[k] ELSE 0)
    BY <1>3, <1>4, <2>2
  <2>4. g[k] = g[n] + (IF k \in more THEN x[k] ELSE 0)
    BY <1>3, <1>6, <2>2
  <2>5. f[n] \in Int /\ g[n] = f[n] + (IF m <= n THEN x[m] ELSE 0)
    BY <1>8, <2>2
  <2>6. x[k] \in Int /\ x[m] \in Int /\ m \in Int /\ k \in Int
    BY <1>3, <2>2
  <2>7. CASE k = m
    <3>1. f[k] = f[n] + 0 /\ g[k] = g[n] + x[k] /\ ~(m <= n) /\ m <= k
      BY <1>5, <2>1, <2>2, <2>3, <2>4, <2>7
    <3>. QED
      BY <3>1, <2>1, <2>5, <2>6, <2>7
  <2>8. CASE k # m
    <3>1. (k \in more <=> k \in members) /\ (m <= n <=> m <= k)
      BY <1>5, <2>1, <2>2, <2>6, <2>8
    <3>2. PICK d : d = IF k \in members THEN x[k] ELSE 0
      OBVIOUS
    <3>3. f[k] = f[n] + d /\ g[k] = g[n] + d /\ d \in Int
      BY <3>1, <3>2, <2>3, <2>4, <2>6
    <3>. QED
      BY <3>1, <3>3, <2>1, <2>5, <2>6
  <2>. QED
    BY <2>7, <2>8
<1>9. \A n \in Nat : n \in T
  <2> HIDE DEF T
  <2>. QED
    BY <1>7, <1>8, Climb
<1>10. PICK n : n = Len(list)
  OBVIOUS
<1>11. n \in Nat /\ n <= Len(list) /\ m <= n
  BY <1>1, <1>10
<1>12. f[n] \in Int /\ g[n] = f[n] + x[m]
  BY <1>9, <1>11
<1>. QED
  BY <1>5, <1>3, <1>4, <1>6, <1>10, <1>12

(* row is the sum of the members of old, the first of which is old[i].     *)
SumOf(row, i, old, members, group) ==
  /\ DOMAIN row = DOMAIN old[i]
  /\ \A c \in ToSet(group) : row[c] = old[i][c]
  /\ \A c \in DOMAIN old[i] \ ToSet(group) :
       /\ IsColumn(old, c, "LONG") =>
            IsValue(row[c], "LONG") /\ row[c].v[1] = Total(old, c, members)
       /\ IsColumn(old, c, "BOOL") =>
            /\ row[c].t = "BOOL"
            /\ Truth(row[c]) <=> \E j \in members : Truth(old[j][c])
       /\ IsColumn(old, c, "STRING") => row[c] = old[i][c]

LEMMA SumOfOne ==
  ASSUME NEW old, old \in Seq(ToSet(old)), NEW group, NEW m \in 1 .. Len(old)
  PROVE  SumOf(old[m], m, old, {m}, group)
<1>1. Len(old) \in Nat /\ m \in DOMAIN old
  OBVIOUS
<1>2. ASSUME NEW c, IsColumn(old, c, "LONG")
      PROVE  IsValue(old[m][c], "LONG") /\ old[m][c].v[1] = Total(old, c, {m})
  <2>1. IsValue(old[m][c], "LONG")
    BY <1>1, <1>2 DEF IsColumn
  <2>2. Total(old, c, {} \cup {m}) = Total(old, c, {}) + old[m][c].v[1]
    <3>1. m \notin {}
      OBVIOUS
    <3>. QED
      BY <1>2, <3>1, TotalOfMore
  <2>3. Total(old, c, {}) = 0 /\ old[m][c].v[1] \in Int /\ {} \cup {m} = {m}
    BY <1>1, <2>1, TotalOfNone DEF IsValue
  <2>. QED
    BY <2>1, <2>2, <2>3
<1>3. ASSUME NEW c, IsColumn(old, c, "BOOL")
      PROVE  /\ old[m][c].t = "BOOL"
             /\ Truth(old[m][c]) <=> \E j \in {m} : Truth(old[j][c])
  BY <1>1, <1>3 DEF IsColumn, IsValue
<1>. QED
  BY <1>2, <1>3 DEF SumOf

LEMMA SumOfMore ==
  ASSUME NEW old, NEW group, Comparable(old, group), NEW row, NEW i \in 1 .. Len(old), NEW members,
         SumOf(row, i, old, members, group), NEW m \in 1 .. Len(old), m \notin members
  PROVE  SumOf(VerticalResultSum(row, old[m], group), i, old, members \cup {m}, group)
<1>1. /\ old \in Seq(ToSet(old)) /\ Len(old) \in Nat /\ i \in DOMAIN old /\ m \in DOMAIN old
      /\ \A c \in ToSet(group) : c \in DOMAIN old[i]
  <2>1. old \in Seq(ToSet(old))
    BY DEF Comparable
  <2>2. Len(old) \in Nat /\ i \in DOMAIN old /\ m \in DOMAIN old
    BY <2>1
  <2>3. ASSUME NEW c \in ToSet(group) PROVE c \in DOMAIN old[i]
    BY <2>2 DEF Comparable, IsColumn
  <2>. QED
    BY <2>1, <2>2, <2>3
<1>2. PICK new, s : new = old[m] /\ s = VerticalResultSum(row, new, group)
  OBVIOUS
<1>3. /\ DOMAIN row = DOMAIN old[i]
      /\ \A c \in ToSet(group) : row[c] = old[i][c]
  BY DEF SumOf
<1>4. /\ DOMAIN s = DOMAIN old[i]
      /\ \A c \in DOMAIN old[i] :
           s[c] = CASE c \in ToSet(group) -> row[c]
                    [] c \notin ToSet(group) /\ row[c].t \in {"LONG", "DOUBLE"} -> CALC_PLUS(row[c], new[c])
                    [] c \notin ToSet(group) /\ row[c].t = "BOOL" -> CALC_OR(row[c], new[c])
                    [] OTHER -> row[c]
  BY <1>2, <1>3 DEF VerticalResultSum
<1>5. ASSUME NEW c \in ToSet(group) PROVE s[c] = old[i][c]
  <2>1. c \in DOMAIN old[i]
    BY <1>1
  <2>2. s[c] = row[c]
    BY <1>4, <2>1
  <2>. QED
    BY <2>2, <1>3
<1>6. ASSUME NEW c \in DOMAIN old[i] \ ToSet(group), IsColumn(old, c, "LONG")
      PROVE  IsValue(s[c], "LONG") /\ s[c].v[1] = Total(old, c, members \cup {m})
  <2>1. IsValue(row[c], "LONG") /\ row[c].v[1] = Total(old, c, members)
    BY <1>6 DEF SumOf
  <2>2. row[c].t = "LONG"
    BY <2>1 DEF IsValue
  <2>3. s[c] = CALC_PLUS(row[c], new[c])
    BY <1>4, <1>6, <2>2
  <2>4. new[c].t = "LONG" /\ new[c].v[1] \in Int
    BY <1>1, <1>2, <1>6 DEF IsColumn, IsValue
  <2>5. s[c] = Long(row[c].v[1] + new[c].v[1])
    <3>1. {row[c].t, new[c].t} \cap {"STRING", "LSTRING"} = {}
      BY <2>2, <2>4
    <3>2. ~OneIs("DOUBLE", row[c], new[c])
      BY <2>2, <2>4 DEF OneIs
    <3>. QED
      BY <2>3, <3>1, <3>2 DEF CALC_PLUS
  <2>6. s[c].t = "LONG" /\ s[c].v[1] = row[c].v[1] + new[c].v[1]
    BY <2>5 DEF Long
  <2>7. /\ Total(old, c, members) \in Int
        /\ Total(old, c, members \cup {m}) = Total(old, c, members) + new[c].v[1]
    BY <1>1, <1>2, <1>6, TotalOfMore
  <2>. QED
    BY <2>1, <2>4, <2>6, <2>7 DEF IsValue
<1>7. ASSUME NEW c \in DOMAIN old[i] \ ToSet(group), IsColumn(old, c, "BOOL")
      PROVE  /\ s[c].t = "BOOL"
             /\ Truth(s[c]) <=> \E j \in members \cup {m} : Truth(old[j][c])
  <2>1. row[c].t = "BOOL" /\ (Truth(row[c]) <=> \E j \in members : Truth(old[j][c]))
    BY <1>7 DEF SumOf
  <2>2. s[c] = CALC_OR(row[c], new[c])
    BY <1>4, <1>7, <2>1
  <2>3. s[c].t = "BOOL" /\ (Truth(s[c]) <=> Truth(row[c]) \/ Truth(new[c]))
    BY <2>2 DEF CALC_OR, Bool, Truth
  <2>. QED
    BY <2>1, <2>3, <1>2
<1>8. ASSUME NEW c \in DOMAIN old[i] \ ToSet(group), IsColumn(old, c, "STRING")
      PROVE  s[c] = old[i][c]
  <2>1. row[c] = old[i][c]
    BY <1>8 DEF SumOf
  <2>2. row[c].t = "STRING"
    BY <1>1, <1>8, <2>1 DEF IsColumn, IsValue
  <2>. QED
    BY <1>4, <1>8, <2>1, <2>2
<1>9. SumOf(s, i, old, members \cup {m}, group)
  BY <1>4, <1>5, <1>6, <1>7, <1>8 DEF SumOf
<1>. QED
  BY <1>2, <1>9

LEMMA SequenceOfItsOwn ==
  ASSUME NEW S, NEW s \in Seq(S)
  PROVE  s \in Seq(ToSet(s)) /\ Len(s) \in Nat /\ DOMAIN s = 1 .. Len(s)
<1>1. Len(s) \in Nat /\ DOMAIN s = 1 .. Len(s)
  OBVIOUS
<1>2. \A k \in 1 .. Len(s) : s[k] \in ToSet(s)
  BY <1>1 DEF ToSet
<1>. QED
  BY <1>1, <1>2

LEMMA SameInIsSymmetric ==
  ASSUME NEW r1, NEW r2, NEW cols, SameIn(r1, r2, cols)
  PROVE  SameIn(r2, r1, cols)
BY SameIsSymmetric DEF SameIn

LEMMA SameInIsReflexive ==
  ASSUME NEW R, NEW cols, SameTypes(R, cols), NEW r \in R
  PROVE  SameIn(r, r, cols)
<1> SUFFICES ASSUME NEW k \in DOMAIN cols PROVE Same(r[cols[k]], r[cols[k]])
  BY DEF SameIn
<1>1. PICK type \in Types : IsValue(r[cols[k]], type)
  BY DEF SameTypes
<1>. QED
  BY <1>1, ValueOrder DEF Same

(* Among the first n rows i is the first of group k, whose sum is row.     *)
Heads(k, i, row, old, n, of, group) ==
  /\ of[i] = k
  /\ \A j \in 1 .. i - 1 : of[j] < k
  /\ \A j \in 1 .. n : of[j] = k => i <= j
  /\ SumOf(row, i, old, {j \in 1 .. n : of[j] = k}, group)

(* list has a row for each group of the first n rows.                      *)
Grouped(list, old, n, of, group) ==
  /\ list \in Seq(ToSet(list))
  /\ of \in [1 .. n -> 1 .. Len(list)]
  /\ \A i, j \in 1 .. n : of[i] = of[j] <=> SameIn(old[i], old[j], group)
  /\ \A k \in 1 .. Len(list) : \E i \in 1 .. n : Heads(k, i, list[k], old, n, of, group)

(* A row is the same as the sum of a group in the columns of the group if  *)
(* it is the same as the first of the group.                               *)
LEMMA SameAsGroup ==
  ASSUME NEW old, NEW group, Comparable(old, group), NEW row \in ToSet(old), NEW sum,
         NEW i \in 1 .. Len(old), \A c \in ToSet(group) : sum[c] = old[i][c]
  PROVE  resultCompare(row, sum, group) = 0 <=> SameIn(row, old[i], group)
<1>1. PICK R : R = ToSet(old) \cup {sum}
  OBVIOUS
<1>2. SameTypes(ToSet(old), group) /\ old \in Seq(ToSet(old))
  BY ComparableRows DEF Comparable
<1>3. old[i] \in ToSet(old)
  BY <1>2
<1>4. \A x \in DOMAIN group : sum[group[x]] = old[i][group[x]]
  BY DEF ToSet
<1>5. SameTypes(R, group)
  <2>1. ASSUME NEW x \in DOMAIN group
        PROVE  \E type \in Types : \A r \in R : IsValue(r[group[x]], type)
    <3>1. PICK type \in Types : \A r \in ToSet(old) : IsValue(r[group[x]], type)
      BY <1>2 DEF SameTypes
    <3>2. IsValue(sum[group[x]], type)
      BY <1>3, <1>4, <3>1
    <3>. QED
      BY <1>1, <3>1, <3>2
  <2>. QED
    BY <1>2, <2>1 DEF SameTypes
<1>6. resultCompare(row, sum, group) = 0 <=> SameIn(row, sum, group)
  BY SMTT(30), <1>1, <1>5, ResultCompares
<1>7. SameIn(row, sum, group) <=> SameIn(row, old[i], group)
  BY <1>4 DEF SameIn
<1>. QED
  BY <1>6, <1>7

LEMMA MergeGroups ==
  ASSUME NEW old, NEW group, Comparable(old, group), NEW n \in Nat, n + 1 \in 1 .. Len(old),
         NEW list, NEW of, Grouped(list, old, n, of, group)
  PROVE  \E of2 : Grouped(Merge(list, old[n + 1], group), old, n + 1, of2, group)
<1>1. PICK m, row, len : m = n + 1 /\ row = old[n + 1] /\ len = Len(list)
  OBVIOUS
<1> DEFINE Alike(i, j) == SameIn(old[i], old[j], group)
<1>2. /\ Len(old) \in Nat /\ m \in 1 .. Len(old) /\ row = old[m] /\ row \in ToSet(old)
      /\ \A i \in 1 .. n : i \in 1 .. Len(old) /\ i \in 1 .. m /\ i # m
      /\ \A i \in 1 .. m : i = m \/ i \in 1 .. n
      /\ m \notin 1 .. n
  <2>1. old \in Seq(ToSet(old))
    BY DEF Comparable
  <2>. QED
    BY <1>1, <2>1
<1>3. /\ list \in Seq(ToSet(list)) /\ len \in Nat
      /\ \A i \in 1 .. n : of[i] \in 1 .. len
      /\ \A i, j \in 1 .. n : of[i] = of[j] <=> Alike(i, j)
      /\ \A k \in 1 .. len : \E i \in 1 .. n : Heads(k, i, list[k], old, n, of, group)
  BY <1>1 DEF Grouped
<1>4. /\ \A i \in 1 .. m : Alike(i, i)
      /\ \A i, j \in 1 .. m : Alike(i, j) => Alike(j, i)
      /\ \A i, j, k \in 1 .. m : Alike(i, j) /\ Alike(j, k) => Alike(i, k)
  <2>1. SameTypes(ToSet(old), group) /\ old \in Seq(ToSet(old))
    BY ComparableRows DEF Comparable
  <2>2. \A i \in 1 .. m : old[i] \in ToSet(old)
    BY <1>2, <2>1
  <2>3. ASSUME NEW i \in 1 .. m PROVE Alike(i, i)
    BY <2>1, <2>2, SameInIsReflexive
  <2>4. ASSUME NEW i \in 1 .. m, NEW j \in 1 .. m, Alike(i, j) PROVE Alike(j, i)
    BY <2>4, SameInIsSymmetric
  <2>5. ASSUME NEW i \in 1 .. m, NEW j \in 1 .. m, NEW k \in 1 .. m, Alike(i, j), Alike(j, k)
        PROVE  Alike(i, k)
    BY <2>1, <2>2, <2>5, SameInIsTransitive
  <2>. QED
    BY <2>3, <2>4, <2>5
<1>5. ASSUME NEW k \in 1 .. len, NEW i \in 1 .. n, Heads(k, i, list[k], old, n, of, group)
      PROVE  resultCompare(row, list[k], group) = 0 <=> Alike(m, i)
  <2>1. \A c \in ToSet(group) : list[k][c] = old[i][c]
    BY <1>5 DEF Heads, SumOf
  <2>2. i \in 1 .. Len(old)
    BY <1>2
  <2>3. resultCompare(row, list[k], group) = 0 <=> SameIn(row, old[i], group)
    BY <1>2, <2>1, <2>2, SameAsGroup
  <2>. QED
    BY <1>2, <2>3
<1> DEFINE D == {k \in 1 .. Len(list) : resultCompare(row, list[k], group) = 0}
<1>6. PICK k0 : k0 = IF D # {} THEN Min(D) ELSE 0
  OBVIOUS
<1>7. Merge(list, row, group) =
        IF k0 = 0 THEN Append(list, row)
        ELSE [list EXCEPT ![k0] = VerticalResultSum(list[k0], row, group)]
  BY <1>6 DEF Merge, SelectInSeq
<1>8. (D = {} /\ k0 = 0) \/ (k0 \in D /\ k0 # 0)
  <2>1. CASE D # {}
    <3>1. D \subseteq Nat /\ 0 \notin D
      BY <1>1, <1>3
    <3>2. Min(D) \in D
      BY <2>1, <3>1, MinIsLeast
    <3>. QED
      BY <2>1, <3>1, <3>2, <1>6
  <2> HIDE DEF D
  <2>. QED
    BY <2>1, <1>6
<1>9. PICK new, k1 : /\ new = Merge(list, row, group)
                     /\ k1 = IF k0 = 0 THEN len + 1 ELSE k0
  OBVIOUS
<1>10. ASSUME NEW j \in 1 .. n PROVE of[j] = k1 <=> Alike(j, m)
  <2>1. j \in 1 .. m /\ m \in 1 .. m
    BY <1>2
  <2>2. CASE k0 = 0
    <3>1. of[j] # k1
      BY <1>3, <1>9, <2>2
    <3>2. PICK i \in 1 .. n : Heads(of[j], i, list[of[j]], old, n, of, group)
      BY <1>3
    <3>3. of[j] \in 1 .. len /\ of[j] \notin D
      BY <1>3, <1>8, <2>2
    <3>4. ~Alike(m, i)
      BY <1>1, <1>5, <3>2, <3>3
    <3>5. Alike(j, i)
      BY <1>3, <3>2 DEF Heads
    <3>6. i \in 1 .. m
      BY <1>2
    <3> HIDE DEF Alike
    <3>. QED
      BY <1>4, <2>1, <3>1, <3>4, <3>5, <3>6
  <2>3. CASE k0 # 0
    <3>1. k0 \in 1 .. len /\ resultCompare(row, list[k0], group) = 0 /\ k1 = k0
      BY <1>1, <1>8, <1>9, <2>3
    <3>2. PICK i \in 1 .. n : Heads(k0, i, list[k0], old, n, of, group)
      BY <1>3, <3>1
    <3>3. Alike(m, i) /\ of[i] = k0
      BY <1>5, <3>1, <3>2 DEF Heads
    <3>4. of[j] = k0 <=> Alike(j, i)
      BY <1>3, <3>3
    <3>5. i \in 1 .. m
      BY <1>2
    <3> HIDE DEF Alike
    <3>. QED
      BY <1>4, <2>1, <3>1, <3>3, <3>4, <3>5
  <2>. QED
    BY <2>2, <2>3
<1>11. PICK of2 : of2 = [j \in 1 .. m |-> IF j = m THEN k1 ELSE of[j]]
  OBVIOUS
<1>12. of2[m] = k1 /\ \A j \in 1 .. n : of2[j] = of[j]
  <2>1. m \in 1 .. m
    BY <1>2
  <2>. QED
    BY <1>2, <1>11, <2>1
<1>13. /\ new \in Seq(ToSet(new))
       /\ Len(new) = IF k0 = 0 THEN len + 1 ELSE len
       /\ k1 \in 1 .. Len(new)
       /\ \A k \in 1 .. Len(new) : k = k1 \/ (k \in 1 .. len /\ new[k] = list[k])
       /\ new[k1] = IF k0 = 0 THEN row ELSE VerticalResultSum(list[k0], row, group)
  <2>1. CASE k0 = 0
    <3>1. new = Append(list, row) /\ k1 = len + 1
      BY <1>7, <1>9, <2>1
    <3>2. PICK S : S = ToSet(list) \cup {row}
      OBVIOUS
    <3>3. list \in Seq(S)
      BY <1>3, <3>2
    <3>4. /\ Append(list, row) \in Seq(S) /\ Len(Append(list, row)) = len + 1
          /\ \A k \in 1 .. len : Append(list, row)[k] = list[k]
          /\ Append(list, row)[len + 1] = row
      BY <1>1, <1>3, <3>2, <3>3
    <3>5. new \in Seq(ToSet(new))
      BY <3>1, <3>4, SequenceOfItsOwn
    <3>6. Len(new) = len + 1 /\ k1 \in 1 .. len + 1 /\ new[k1] = row
      BY <1>3, <3>1, <3>4
    <3>7. \A k \in 1 .. len + 1 : k = k1 \/ (k \in 1 .. len /\ new[k] = list[k])
      BY <1>3, <3>1, <3>4
    <3>. QED
      BY ONLY <2>1, <3>5, <3>6, <3>7
  <2>2. CASE k0 # 0
    <3>1. PICK s : s = VerticalResultSum(list[k0], row, group)
      OBVIOUS
    <3>2. new = [list EXCEPT ![k0] = s] /\ k1 = k0 /\ k0 \in 1 .. len
      BY <1>1, <1>7, <1>8, <1>9, <2>2, <3>1
    <3>3. PICK S : S = ToSet(list) \cup {s}
      OBVIOUS
    <3>4. list \in Seq(S)
      BY <1>3, <3>3
    <3>5. new \in Seq(S) /\ Len(new) = len
      BY <1>1, <3>2, <3>3, <3>4
    <3>6. \A k \in 1 .. len : new[k] = IF k = k0 THEN s ELSE list[k]
      BY <1>1, <1>3, <3>2
    <3>7. new \in Seq(ToSet(new))
      BY <3>5, SequenceOfItsOwn
    <3>8. Len(new) = len /\ k1 \in 1 .. len /\ new[k1] = s
      BY <3>2, <3>5, <3>6
    <3>9. \A k \in 1 .. len : k = k1 \/ (k \in 1 .. len /\ new[k] = list[k])
      BY <3>2, <3>6
    <3>. QED
      BY ONLY <2>2, <3>1, <3>7, <3>8, <3>9
  <2>. QED
    BY <2>1, <2>2
<1>14. of2 \in [1 .. m -> 1 .. Len(new)]
  <2>1. ASSUME NEW j \in 1 .. m PROVE of2[j] \in 1 .. Len(new)
    <3>1. CASE j = m
      BY <3>1, <1>12, <1>13
    <3>2. CASE j \in 1 .. n
      <4>1. of2[j] \in 1 .. len
        BY <3>2, <1>3, <1>12
      <4>2. Len(new) = len \/ Len(new) = len + 1
        BY <1>13
      <4>. QED
        BY <4>1, <4>2, <1>3
    <3>. QED
      BY <3>1, <3>2, <1>2
  <2>. QED
    BY <1>11, <2>1
<1>15. ASSUME NEW i \in 1 .. m, NEW j \in 1 .. m PROVE of2[i] = of2[j] <=> Alike(i, j)
  <2>0. m \in 1 .. m
    BY <1>2
  <2> HIDE DEF Alike
  <2>1. CASE i \in 1 .. n /\ j \in 1 .. n
    BY <2>1, <1>3, <1>12
  <2>2. CASE i = m /\ j \in 1 .. n
    BY <2>0, <2>2, <1>4, <1>10, <1>12
  <2>3. CASE i \in 1 .. n /\ j = m
    BY <2>0, <2>3, <1>4, <1>10, <1>12
  <2>4. CASE i = m /\ j = m
    BY <2>4, <1>4
  <2>. QED
    BY <2>1, <2>2, <2>3, <2>4, <1>2
<1>16. ASSUME NEW k \in 1 .. Len(new)
       PROVE  \E i \in 1 .. m : Heads(k, i, new[k], old, m, of2, group)
  <2>1. CASE k # k1
    <3>1. k \in 1 .. len /\ new[k] = list[k]
      BY <1>13, <2>1
    <3>2. PICK i \in 1 .. n : Heads(k, i, list[k], old, n, of, group)
      BY <1>3, <3>1
    <3>3. {j \in 1 .. m : of2[j] = k} = {j \in 1 .. n : of[j] = k}
      BY <1>2, <1>12, <2>1
    <3>4. i \in 1 .. m /\ of2[i] = k
      BY <1>2, <1>12, <3>2 DEF Heads
    <3>5. \A j \in 1 .. i - 1 : of2[j] < k
      <4>1. \A j \in 1 .. i - 1 : j \in 1 .. n
        OBVIOUS
      <4>. QED
        BY <4>1, <1>12, <3>2 DEF Heads
    <3>6. \A j \in 1 .. m : of2[j] = k => i <= j
      BY <1>2, <1>12, <2>1, <3>2 DEF Heads
    <3>7. SumOf(new[k], i, old, {j \in 1 .. m : of2[j] = k}, group)
      BY <3>1, <3>2, <3>3 DEF Heads
    <3>. QED
      BY <3>4, <3>5, <3>6, <3>7 DEF Heads
  <2>2. CASE k = k1 /\ k0 = 0
    <3>1. k = len + 1 /\ new[k] = old[m] /\ of2[m] = k
      BY <1>2, <1>9, <1>12, <1>13, <2>2
    <3>2. \A j \in 1 .. n : of2[j] < k
      BY <1>3, <1>12, <3>1
    <3>3. {j \in 1 .. m : of2[j] = k} = {m}
      <4>1. \A j \in 1 .. n : of2[j] # k
        BY SMTT(30), <1>3, <1>12, <3>1
      <4>2. m \in 1 .. m
        BY <1>2
      <4>. QED
        BY <1>2, <3>1, <4>1, <4>2
    <3>4. SumOf(old[m], m, old, {m}, group)
      <4>1. old \in Seq(ToSet(old))
        BY DEF Comparable
      <4>. QED
        BY <1>2, <4>1, SumOfOne
    <3>5. \A j \in 1 .. m : of2[j] = k => m <= j
      BY <3>3, <1>2
    <3>6. \A j \in 1 .. m - 1 : of2[j] < k
      BY <3>2, <1>1
    <3>7. m \in 1 .. m
      BY <1>2
    <3>. QED
      BY <3>1, <3>3, <3>4, <3>5, <3>6, <3>7 DEF Heads
  <2>3. CASE k = k1 /\ k0 # 0
    <3>1. k = k0 /\ k \in 1 .. len /\ new[k] = VerticalResultSum(list[k], old[m], group) /\ of2[m] = k
      BY <1>1, <1>2, <1>8, <1>9, <1>12, <1>13, <2>3
    <3>2. PICK i \in 1 .. n : Heads(k, i, list[k], old, n, of, group)
      BY <1>3, <3>1
    <3>3. {j \in 1 .. m : of2[j] = k} = {j \in 1 .. n : of[j] = k} \cup {m}
      <4>1. m \in 1 .. m
        BY <1>2
      <4>. QED
        BY <4>1, <1>2, <1>12, <3>1
    <3>4. SumOf(new[k], i, old, {j \in 1 .. n : of[j] = k} \cup {m}, group)
      <4>1. PICK members : members = {j \in 1 .. n : of[j] = k}
        OBVIOUS
      <4>2. m \notin members /\ i \in 1 .. Len(old) /\ SumOf(list[k], i, old, members, group)
        BY <1>2, <3>2, <4>1 DEF Heads
      <4>3. SumOf(VerticalResultSum(list[k], old[m], group), i, old, members \cup {m}, group)
        BY <1>2, <4>2, SumOfMore
      <4>. QED
        BY <3>1, <4>1, <4>3
    <3>5. i \in 1 .. m /\ of2[i] = k
      BY <1>2, <1>12, <3>2 DEF Heads
    <3>6. \A j \in 1 .. i - 1 : of2[j] < k
      <4>1. \A j \in 1 .. i - 1 : j \in 1 .. n
        OBVIOUS
      <4>. QED
        BY <4>1, <1>12, <3>2 DEF Heads
    <3>7. \A j \in 1 .. m : of2[j] = k => i <= j
      <4>1. i <= m
        BY <1>1
      <4>. QED
        BY <4>1, <1>2, <1>12, <3>2 DEF Heads
    <3>. QED
      BY <3>3, <3>4, <3>5, <3>6, <3>7 DEF Heads
  <2>. QED
    BY <2>1, <2>2, <2>3
<1>17. Grouped(new, old, m, of2, group)
  BY ONLY <1>13, <1>14, <1>15, <1>16 DEF Grouped, Alike
<1>. QED
  BY <1>1, <1>9, <1>17

(* The sums of a list of rows.                                             *)
LEMMA SumResultGroups ==
  ASSUME NEW list, NEW group, Comparable(list, group)
  PROVE  SumsOfGroups(SumResult(list, group), list, group)
<1>1. list \in Seq(ToSet(list)) /\ Len(list) \in Nat
  BY DEF Comparable
<1>2. PICK f : /\ SumResult(list, group) = f[Len(list)]
               /\ f[0] = <<>>
               /\ \A n \in 1 .. Len(list) : f[n] = Merge(f[n - 1], list[n], group)
  BY <1>1, SumLoop
<1> DEFINE T == {n \in Nat : n <= Len(list) => \E of : Grouped(f[n], list, n, of, group)}
<1>3. 0 \in T
  <2>1. PICK of : of = [k \in 1 .. 0 |-> k]
    OBVIOUS
  <2>2. Grouped(<<>>, list, 0, of, group)
    BY <2>1 DEF Grouped
  <2>. QED
    BY <1>2, <2>2
<1>4. ASSUME NEW n \in Nat, n \in T PROVE n + 1 \in T
  <2> SUFFICES ASSUME n + 1 <= Len(list) PROVE \E of : Grouped(f[n + 1], list, n + 1, of, group)
    OBVIOUS
  <2>1. n + 1 \in 1 .. Len(list) /\ (n + 1) - 1 = n /\ n <= Len(list)
    BY <1>1
  <2>2. PICK of : Grouped(f[n], list, n, of, group)
    BY <1>4, <2>1
  <2>3. f[n + 1] = Merge(f[n], list[n + 1], group)
    BY <1>2, <2>1
  <2>. QED
    BY <2>1, <2>2, <2>3, MergeGroups
<1>5. \A n \in Nat : n \in T
  <2> HIDE DEF T
  <2>. QED
    BY <1>3, <1>4, Climb
<1>6. PICK of, new : new = SumResult(list, group) /\ Grouped(new, list, Len(list), of, group)
  BY <1>1, <1>2, <1>5
<1>7. DOMAIN new = 1 .. Len(new) /\ DOMAIN list = 1 .. Len(list)
  BY <1>1, <1>6 DEF Grouped
<1> DEFINE Members(k) == {i \in DOMAIN list : of[i] = k}
<1>8. /\ of \in [DOMAIN list -> DOMAIN new]
      /\ \A i, j \in DOMAIN list : of[i] = of[j] <=> SameIn(list[i], list[j], group)
  BY <1>6, <1>7 DEF Grouped
<1>9. ASSUME NEW k \in DOMAIN new
      PROVE  \E i \in Members(k) :
               /\ \A j \in Members(k) : i <= j
               /\ \A j \in 1 .. i - 1 : of[j] < k
               /\ SumOf(new[k], i, list, Members(k), group)
  <2>1. PICK i \in 1 .. Len(list) : Heads(k, i, new[k], list, Len(list), of, group)
    BY <1>6, <1>7 DEF Grouped
  <2>. QED
    BY <2>1, <1>7 DEF Heads
<1>10. SumsOfGroups(new, list, group)
  <2>1. ASSUME NEW k \in DOMAIN new
        PROVE  \E i \in Members(k) :
             /\ \A j \in Members(k) : i <= j
             /\ \A j \in 1 .. i - 1 : of[j] < k
             /\ \A c \in ToSet(group) : new[k][c] = list[i][c]
             /\ \A c \in DOMAIN list[i] \ ToSet(group) :
                  /\ IsColumn(list, c, "LONG") =>
                       IsValue(new[k][c], "LONG") /\ new[k][c].v[1] = Total(list, c, Members(k))
                  /\ IsColumn(list, c, "BOOL") =>
                       (Truth(new[k][c]) <=> \E j \in Members(k) : Truth(list[j][c]))
                  /\ IsColumn(list, c, "STRING") => new[k][c] = list[i][c]
    <3>1. PICK i \in Members(k) :
               /\ \A j \in Members(k) : i <= j
               /\ \A j \in 1 .. i - 1 : of[j] < k
               /\ SumOf(new[k], i, list, Members(k), group)
      BY <1>9
    <3>. QED
      BY <3>1 DEF SumOf
  <2>. QED
    BY <1>8, <2>1 DEF SumsOfGroups
<1>. QED
  BY <1>6, <1>10

-----------------------------------------------------------------------------
(* The rule that runs                                                      *)

RuleTypes == {"CONDITION", "TABLE", "FLOW"}

(* The places at which the interpreter waits for the value of an expression. *)
Waits == {"column", "store", "condition", "cellvalue", "if", "case", "count"}

(* An expression is computed only where its value is waited for: while it  *)
(* is computed, nothing else of the rule runs.                             *)
RunIInv ==
  /\ rule.type \in RuleTypes
  /\ Running => pc \in Waits

(* A step begins or leaves alone the computation of an expression; one     *)
(* that it begins is waited for.                                           *)
Orderly == rule' = rule /\ (expResult' = expResult \/ pc' \in Waits)

LEMMA GoToIsOrderly ==
  ASSUME NEW state, NEW n, GoTo(state, n)
  PROVE  expResult' = expResult
BY DEF GoTo, exprVars

LEMMA ComputeWaits ==
  ASSUME NEW list, NEW state \in Waits, Compute(list, state)
  PROVE  pc' \in Waits
BY DEF Compute

LEMMA FailIsOrderly == Fail => Orderly
BY DEF Fail, Orderly, exprVars

LEMMA AfterIsOrderly ==
  ASSUME rule.type \in RuleTypes, NEW brk, NEW new, After(brk, new)
  PROVE  expResult' = expResult
<1>1. CASE rule.type = "CONDITION"
  <2>1. AfterLine(brk, new)
    BY <1>1 DEF After
  <2>. QED
    BY <2>1, GoToIsOrderly DEF AfterLine
<1>2. CASE rule.type = "TABLE"
  <2>1. AfterRow(brk, new)
    BY <1>2 DEF After
  <2>. QED
    BY <2>1, GoToIsOrderly DEF AfterRow
<1>3. CASE rule.type = "FLOW"
  <2>1. AfterNode(brk, new)
    BY <1>3 DEF After
  <2>. QED
    BY <2>1, GoToIsOrderly DEF AfterNode
<1>. QED
  BY <1>1, <1>2, <1>3 DEF RuleTypes

LEMMA BuildIsOrderly ==
  ASSUME rule.type \in RuleTypes, NEW stmt, BuildResult(stmt)
  PROVE  Orderly
<1>1. rule' = rule
  BY DEF BuildResult
<1>2. \/ \E brk : After(brk, <<>>)
      \/ \E state, n : GoTo(state, n)
      \/ \E list : Compute(list, "store")
      \/ \E list : Compute(list, "column")
  BY DEF BuildResult
<1>3. "store" \in Waits /\ "column" \in Waits
  BY DEF Waits
<1>. QED
  BY <1>1, <1>2, <1>3, AfterIsOrderly, GoToIsOrderly, ComputeWaits DEF Orderly

LEMMA TakeIsOrderly ==
  ASSUME rule.type \in RuleTypes, NEW gbn, NEW result, TakeResult(gbn, result)
  PROVE  Orderly
BY AfterIsOrderly, BuildIsOrderly DEF TakeResult, Orderly

LEMMA ValuesAreOrderly ==
  ASSUME rule.type \in RuleTypes, ColumnValue \/ StoreValue
  PROVE  Orderly
<1>1. CASE ColumnValue
  <2>1. \/ Fail
        \/ rule' = rule /\ \E brk, new : After(brk, new)
        \/ rule' = rule /\ \E list : Compute(list, "column")
    BY <1>1 DEF ColumnValue
  <2>2. "column" \in Waits
    BY DEF Waits
  <2>. QED
    BY <2>1, <2>2, FailIsOrderly, AfterIsOrderly, ComputeWaits DEF Orderly
<1>2. CASE StoreValue
  <2>1. \/ Fail
        \/ rule' = rule /\ \E brk, new : After(brk, new)
    BY <1>2 DEF StoreValue
  <2>. QED
    BY <2>1, FailIsOrderly, AfterIsOrderly DEF Orderly
<1>. QED
  BY <1>1, <1>2

LEMMA LinesAreOrderly ==
  ASSUME rule.type \in RuleTypes, Line \/ ConditionValue
  PROVE  Orderly
<1>1. CASE Line
  <2>1. \/ rule' = rule /\ \E state, n : GoTo(state, n)
        \/ rule' = rule /\ \E list : Compute(list, "condition")
        \/ \E gbn, result : TakeResult(gbn, result)
    BY <1>1 DEF Line
  <2>2. "condition" \in Waits
    BY DEF Waits
  <2>. QED
    BY <2>1, <2>2, GoToIsOrderly, ComputeWaits, TakeIsOrderly DEF Orderly
<1>2. CASE ConditionValue
  <2>1. \/ Fail
        \/ rule' = rule /\ \E state, n : GoTo(state, n)
        \/ \E gbn, result : TakeResult(gbn, result)
    BY <1>2 DEF ConditionValue
  <2>. QED
    BY <2>1, FailIsOrderly, GoToIsOrderly, TakeIsOrderly DEF Orderly
<1>. QED
  BY <1>1, <1>2

LEMMA TablesAreOrderly ==
  ASSUME rule.type \in RuleTypes,
         SimpleResult \/ SortedRow \/ NextRow \/ Cell \/ CellValue \/ MatchingRow
  PROVE  Orderly
<1>1. CASE SimpleResult
  BY <1>1, GoToIsOrderly DEF SimpleResult, Orderly
<1>2. CASE SortedRow
  BY <1>2, GoToIsOrderly DEF SortedRow, Orderly
<1>3. CASE NextRow
  BY <1>3, GoToIsOrderly DEF NextRow, Orderly
<1>4. ASSUME NEW match, CellDone(match) PROVE Orderly
  BY <1>4, GoToIsOrderly DEF CellDone, Orderly
<1>5. CASE Cell
  <2>1. \/ Fail
        \/ rule' = rule /\ \E state, n : GoTo(state, n)
        \/ rule' = rule /\ \E list : Compute(list, "cellvalue")
        \/ \E match : CellDone(match)
    BY <1>5 DEF Cell
  <2>2. "cellvalue" \in Waits
    BY DEF Waits
  <2>. QED
    BY <2>1, <2>2, <1>4, FailIsOrderly, GoToIsOrderly, ComputeWaits DEF Orderly
<1>6. CASE CellValue
  <2>1. Fail \/ \E match : CellDone(match)
    BY <1>6 DEF CellValue
  <2>. QED
    BY <2>1, <1>4, FailIsOrderly
<1>7. CASE MatchingRow
  <2>1. \/ rule' = rule /\ \E state, n : GoTo(state, n)
        \/ \E gbn, result : TakeResult(gbn, result)
    BY <1>7 DEF MatchingRow
  <2>. QED
    BY <2>1, GoToIsOrderly, TakeIsOrderly DEF Orderly
<1>. QED
  BY <1>1, <1>2, <1>3, <1>5, <1>6, <1>7

LEMMA FlowsAreOrderly ==
  ASSUME rule.type \in RuleTypes,
         \/ StartNode \/ EndNode \/ ExecNode \/ ReturnNode \/ ChoiceNode \/ ChoiceValue
         \/ LoopNode \/ LoopCount
  PROVE  Orderly
<1>1. CASE StartNode
  BY <1>1, GoToIsOrderly DEF StartNode, Orderly
<1>2. CASE EndNode
  BY <1>2, GoToIsOrderly DEF EndNode, Orderly
<1>3. CASE ExecNode
  BY <1>3, BuildIsOrderly DEF ExecNode
<1>4. CASE ReturnNode
  BY <1>4, TakeIsOrderly DEF ReturnNode
<1>5. CASE ChoiceNode
  <2>1. "if" \in Waits /\ "case" \in Waits
    BY DEF Waits
  <2>. QED
    BY <1>5, <2>1, ComputeWaits DEF ChoiceNode, Orderly
<1>6. CASE ChoiceValue
  <2>1. Fail \/ (rule' = rule /\ \E state, n : GoTo(state, n))
    BY <1>6 DEF ChoiceValue
  <2>. QED
    BY <2>1, FailIsOrderly, GoToIsOrderly DEF Orderly
<1>7. ASSUME NEW i, NEW count, Pass(i, count) PROVE Orderly
  BY <1>7, GoToIsOrderly DEF Pass, Orderly
<1>8. CASE LoopNode
  <2>1. \/ rule' = rule /\ \E list : Compute(list, "count")
        \/ Fail
        \/ \E i, count : Pass(i, count)
    BY <1>8 DEF LoopNode
  <2>2. "count" \in Waits
    BY DEF Waits
  <2>. QED
    BY <2>1, <2>2, <1>7, FailIsOrderly, ComputeWaits DEF Orderly
<1>9. CASE LoopCount
  <2>1. Fail \/ \E i, count : Pass(i, count)
    BY <1>9 DEF LoopCount
  <2>. QED
    BY <2>1, <1>7, FailIsOrderly
<1>. QED
  BY <1>1, <1>2, <1>3, <1>4, <1>5, <1>6, <1>8, <1>9

LEMMA TailIsOrderly == Aggregate \/ Sort \/ DefaultResult => Orderly
BY DEF Aggregate, Sort, DefaultResult, Orderly, exprVars

(* Where each step is taken.                                               *)
LEMMA WhereStepsAre ==
  /\ Evaluate => Running /\ UNCHANGED runVars
  /\ ColumnValue \/ StoreValue \/ Interpret =>
       pc \in {"next", "row", "cell"} \/ (pc \in Waits /\ ~Running)
  /\ Aggregate => pc = "aggregate"
  /\ Sort => pc = "sort"
  /\ DefaultResult => pc = "default"
<1>1. Evaluate => Running /\ UNCHANGED runVars
  BY DEF Evaluate, ExprNext, PushOperand, Function, LeftParenthesis, RightParenthesis,
         CompareOperand, Operator, EndOfTokens
<1>2. ColumnValue \/ StoreValue => pc \in Waits /\ ~Running
  BY DEF ColumnValue, StoreValue, Got, Waits
<1>3. Interpret => pc \in {"next", "row", "cell"} \/ (pc \in Waits /\ ~Running)
  BY DEF Interpret, Line, ConditionValue, SimpleResult, SortedRow, NextRow, Cell, CellValue,
         MatchingRow, Node, StartNode, EndNode, ExecNode, ReturnNode, ChoiceNode, ChoiceValue,
         LoopNode, LoopCount, Got, Waits
<1>4. /\ Aggregate => pc = "aggregate"
      /\ Sort => pc = "sort"
      /\ DefaultResult => pc = "default"
  BY DEF Aggregate, Sort, DefaultResult
<1>. QED
  BY <1>1, <1>2, <1>3, <1>4

LEMMA RunIInvInductive ==
  ASSUME RunIInv, [RunNext]_vars
  PROVE  RunIInv'
<1>1. CASE UNCHANGED vars
  BY <1>1 DEF RunIInv, Running, vars, exprVars, runVars, Pending
<1>2. CASE Evaluate
  BY <1>2, WhereStepsAre DEF RunIInv, runVars
<1>3. CASE RunNext /\ ~Evaluate
  <2>1. Orderly
    BY <1>3, ValuesAreOrderly, LinesAreOrderly, TablesAreOrderly, FlowsAreOrderly, TailIsOrderly
       DEF RunNext, Interpret, RunIInv
  <2>2. ~Running
    BY <1>3, WhereStepsAre DEF RunNext, RunIInv, Waits
  <2>. QED
    BY <2>1, <2>2 DEF Orderly, RunIInv, Running, Pending
<1>. QED
  BY <1>1, <1>2, <1>3

(* While an expression is computed nothing else of the rule runs.          *)
THEOREM RunIInvHolds ==
  ASSUME NEW CONSTANT r, r.type \in RuleTypes
  PROVE  RunSpec(r) => []RunIInv
<1>1. RunInit(r) => RunIInv
  BY DEF RunInit, RunIInv, Running, Pending, None
<1>2. RunIInv /\ [RunNext]_vars => RunIInv'
  BY RunIInvInductive
<1>. QED
  BY <1>1, <1>2, PTL DEF RunSpec

(* For every rule, the values it computes and the rows they become: what   *)
(* CMRRunner::Sorting leaves is the rows in order, those that do not       *)
(* differ in the order they came in.                                       *)
THEOREM RowsAreSorted ==
  ASSUME NEW CONSTANT r, r.type \in RuleTypes
  PROVE  RunSpec(r) => SortIsStable
<1>1. RunIInv /\ [RunNext]_vars =>
        [pc = "sort" /\ rule.aggr.nSort # <<>> /\ Comparable(rows, rule.aggr.nSort)
           => InOrder(rows', rows, rule.aggr.nSort, rule.aggr.cOrder)]_vars
  <2> SUFFICES ASSUME RunIInv, RunNext, pc = "sort", rule.aggr.nSort # <<>>,
                      Comparable(rows, rule.aggr.nSort)
               PROVE  InOrder(rows', rows, rule.aggr.nSort, rule.aggr.cOrder)
    OBVIOUS
  <2>1. Sort
    BY WhereStepsAre DEF RunNext, RunIInv, Waits
  <2>2. rows' = Sorting(rows, rule.aggr)
    BY <2>1 DEF Sort
  <2>. QED
    BY <2>2, SortingOrders
<1>. QED
  BY <1>1, RunIInvHolds, PTL DEF RunSpec, SortIsStable

(* For every rule: SUM leaves one row for each group with the totals of    *)
(* its columns, DISTINCT the first row for each value, MIN and MAX the     *)
(* first of the least or greatest rows (CMRRunner::EtcFunction).           *)
THEOREM RowsAreAggregated ==
  ASSUME NEW CONSTANT r, r.type \in RuleTypes
  PROVE  RunSpec(r) => AggregateAnswers
<1> DEFINE Answers == LET a == rule.aggr
                          cols == MinMaxColumns(rows, a)
                      IN  /\ a.Option = 1 /\ Comparable(rows, a.group) => SumsOfGroups(rows', rows, a.group)
                          /\ a.Option = 2 /\ Legible(rows) => FirstsOf(rows', rows)
                          /\ a.Option \in {3, 4} /\ Comparable(rows, cols) =>
                               FirstExtreme(rows', rows, cols, a.Option)
<1>1. RunIInv /\ [RunNext]_vars => [pc = "aggregate" /\ Len(rows) > 1 => Answers]_vars
  <2> SUFFICES ASSUME RunIInv, RunNext, pc = "aggregate", Len(rows) > 1 PROVE Answers
    OBVIOUS
  <2>1. Aggregate
    BY WhereStepsAre DEF RunNext, RunIInv, Waits
  <2>2. rows' = EtcFunction(rows, rule.aggr)
    BY <2>1 DEF Aggregate
  <2>3. ASSUME rule.aggr.Option = 1, Comparable(rows, rule.aggr.group)
        PROVE  SumsOfGroups(rows', rows, rule.aggr.group)
    <3>1. Len(rows) \in Nat
      BY <2>3 DEF Comparable
    <3>2. rows' = SumResult(rows, rule.aggr.group)
      BY <2>2, <2>3, <3>1 DEF EtcFunction
    <3>. QED
      BY <2>3, <3>2, SumResultGroups
  <2>4. ASSUME rule.aggr.Option = 2, Legible(rows) PROVE FirstsOf(rows', rows)
    <3>1. Len(rows) \in Nat
      BY <2>4 DEF Legible
    <3>2. rows' = DistinctResult(rows)
      BY <2>2, <2>4, <3>1 DEF EtcFunction
    <3>. QED
      BY <2>4, <3>2, DistinctKeepsFirsts
  <2>5. ASSUME rule.aggr.Option \in {3, 4}, Comparable(rows, MinMaxColumns(rows, rule.aggr))
        PROVE  FirstExtreme(rows', rows, MinMaxColumns(rows, rule.aggr), rule.aggr.Option)
    <3>1. Len(rows) \in Nat \ {0}
      BY <2>5 DEF Comparable
    <3>2. rows' = MinMaxResult(rows, rule.aggr)
      BY <2>2, <2>5, <3>1 DEF EtcFunction
    <3>. QED
      BY <2>5, <3>1, <3>2, MinMaxFinds
  <2>. QED
    BY <2>3, <2>4, <2>5
<1>. QED
  BY <1>1, RunIInvHolds, PTL DEF RunSpec, AggregateAnswers

-----------------------------------------------------------------------------
(* Rows that are put together                                              *)

Chained(s) ==
  CHOOSE f : f = [i \in 1 .. Len(s) |-> IF i = 1 THEN s[i] ELSE f[i - 1] \o s[i]]

(* The first n sequences of s, put together.                               *)
Upto(s, n) == IF n = 0 THEN <<>> ELSE Chained(s)[n]

LEMMA ChainExists ==
  ASSUME NEW s, Len(s) \in Nat
  PROVE  \A n \in 1 .. Len(s) : Chained(s)[n] = IF n = 1 THEN s[n] ELSE Chained(s)[n - 1] \o s[n]
<1> DEFINE V(v, n) == IF n = 1 THEN s[n] ELSE v \o s[n]
           Eq(f) == f = [n \in 1 .. Len(s) |-> V(f[n - 1], n)]
<1>1. \E f : Eq(f)
  <2>1. PICK f : IsLoop(f, "chain", s, 0, 1, Len(s))
    <3>1. "chain" \in Loops /\ Start("chain") = 1
      BY DEF Loops, Start
    <3>. QED
      BY <3>1, LoopExists
  <2>2. \A n \in 1 .. Len(s) : Taken("chain", s, 0, f[n - 1], n) = V(f[n - 1], n)
    BY DEF Taken
  <2>3. Eq(f)
    <3> HIDE DEF V
    <3>. QED
      BY <2>1, <2>2 DEF IsLoop
  <2>. QED
    BY <2>3
<1>2. PICK f : f = CHOOSE h : Eq(h)
  OBVIOUS
<1>3. Chained(s) = f
  BY <1>2 DEF Chained
<1>4. Eq(f)
  <2> HIDE DEF Eq
  <2>. QED
    BY <1>1, <1>2
<1>5. \A n \in 1 .. Len(s) : f[n] = IF n = 1 THEN s[n] ELSE f[n - 1] \o s[n]
  BY <1>4
<1>. QED
  BY <1>3, <1>5

LEMMA ChainGrows ==
  ASSUME NEW S, NEW s \in Seq(Seq(S))
  PROVE  /\ FlattenSeq(s) = Upto(s, Len(s))
         /\ \A n \in 0 .. Len(s) : Upto(s, n) \in Seq(S)
         /\ \A n \in 1 .. Len(s) : Upto(s, n) = Upto(s, n - 1) \o s[n]
<1>1. Len(s) \in Nat /\ \A n \in 1 .. Len(s) : s[n] \in Seq(S)
  OBVIOUS
<1>2. \A n \in 1 .. Len(s) : Chained(s)[n] = IF n = 1 THEN s[n] ELSE Chained(s)[n - 1] \o s[n]
  BY <1>1, ChainExists
<1>3. ASSUME NEW n \in 1 .. Len(s) PROVE Upto(s, n) = Upto(s, n - 1) \o s[n]
  <2>1. CASE n = 1
    <3>1. Upto(s, n) = s[n] /\ Upto(s, n - 1) = <<>>
      BY <1>2, <2>1 DEF Upto
    <3>2. PICK t \in Seq(S) : t = s[n]
      BY <1>1
    <3>3. <<>> \o t = t
      OBVIOUS
    <3>. QED
      BY <3>1, <3>2, <3>3
  <2>2. CASE n # 1
    <3>1. n # 0 /\ n - 1 # 0
      BY <1>1, <2>2
    <3>. QED
      BY <1>2, <2>2, <3>1 DEF Upto
  <2>. QED
    BY <2>1, <2>2
<1>4. \A n \in 0 .. Len(s) : Upto(s, n) \in Seq(S)
  <2> DEFINE T == {n \in Nat : n > Len(s) \/ Upto(s, n) \in Seq(S)}
  <2>1. 0 \in T
    BY DEF Upto
  <2>2. ASSUME NEW n \in Nat, n \in T PROVE n + 1 \in T
    <3>1. CASE n + 1 > Len(s)
      BY <3>1
    <3>2. CASE n + 1 <= Len(s)
      <4>1. n + 1 \in 1 .. Len(s) /\ (n + 1) - 1 = n /\ Upto(s, n) \in Seq(S)
        BY <1>1, <2>2, <3>2
      <4>2. Upto(s, n + 1) = Upto(s, n) \o s[n + 1] /\ s[n + 1] \in Seq(S)
        BY <1>1, <1>3, <4>1
      <4>3. ASSUME NEW a \in Seq(S), NEW b \in Seq(S) PROVE a \o b \in Seq(S)
        OBVIOUS
      <4>4. Upto(s, n + 1) \in Seq(S)
        BY <4>1, <4>2, <4>3
      <4>. QED
        BY <4>4
    <3>. QED
      BY <1>1, <3>1, <3>2
  <2> HIDE DEF T
  <2>3. \A n \in Nat : n \in T
    BY <2>1, <2>2, Climb
  <2> USE DEF T
  <2>. QED
    BY <1>1, <2>3
<1>5. FlattenSeq(s) = Upto(s, Len(s))
  <2>1. CASE Len(s) = 0
    BY <2>1 DEF FlattenSeq, Upto
  <2>2. CASE Len(s) # 0
    BY <2>2 DEF FlattenSeq, Upto, Chained
  <2>. QED
    BY <2>1, <2>2
<1>. QED
  BY <1>3, <1>4, <1>5

(* Empty sequences add nothing.                                            *)
LEMMA ChainRests ==
  ASSUME NEW S, NEW s \in Seq(Seq(S)), NEW m \in 0 .. Len(s), NEW n \in m .. Len(s),
         \A i \in m + 1 .. n : s[i] = <<>>
  PROVE  Upto(s, n) = Upto(s, m)
<1> DEFINE T == {k \in Nat : m + k > n \/ Upto(s, m + k) = Upto(s, m)}
<1>0. Len(s) \in Nat /\ m \in Nat /\ n \in Nat
  OBVIOUS
<1>1. 0 \in T
  BY <1>0
<1>2. ASSUME NEW k \in Nat, k \in T PROVE k + 1 \in T
  <2>1. CASE m + k + 1 > n
    BY <2>1
  <2>2. CASE m + k + 1 <= n
    <3>1. m + k + 1 \in 1 .. Len(s) /\ m + k + 1 \in m + 1 .. n /\ (m + k + 1) - 1 = m + k
      BY <1>0, <2>2
    <3>2. Upto(s, m + k + 1) = Upto(s, m + k) \o s[m + k + 1] /\ s[m + k + 1] = <<>>
      BY <3>1, ChainGrows
    <3>3. Upto(s, m + k) = Upto(s, m)
      BY <1>0, <1>2, <2>2
    <3>6. PICK t \in Seq(S) : t = Upto(s, m)
      BY ChainGrows
    <3>7. t \o <<>> = t
      OBVIOUS
    <3>4. Upto(s, m + k + 1) = Upto(s, m)
      BY <3>2, <3>3, <3>6, <3>7
    <3>5. m + k + 1 = m + (k + 1)
      BY <1>0
    <3>. QED
      BY <3>4, <3>5
  <2>. QED
    BY <1>0, <2>1, <2>2
<1> HIDE DEF T
<1>3. \A k \in Nat : k \in T
  BY <1>1, <1>2, Climb
<1>4. PICK k \in Nat : m + k = n
  <2>1. n - m \in Nat /\ m + (n - m) = n
    BY <1>0
  <2>. QED
    BY <2>1
<1>5. k \in T
  BY <1>3
<1> USE DEF T
<1>. QED
  BY <1>0, <1>4, <1>5

LEMMA ChainOfOne ==
  ASSUME NEW S, NEW s \in Seq(Seq(S)), NEW n \in 1 .. Len(s),
         \A i \in 1 .. Len(s) : i # n => s[i] = <<>>
  PROVE  FlattenSeq(s) = s[n]
<1>1. /\ Len(s) \in Nat /\ Len(s) \in n .. Len(s) /\ n \in 0 .. Len(s)
      /\ 0 \in 0 .. Len(s) /\ n - 1 \in 0 .. Len(s)
      /\ \A i \in n + 1 .. Len(s) : i \in 1 .. Len(s) /\ i # n
      /\ \A i \in 0 + 1 .. n - 1 : i \in 1 .. Len(s) /\ i # n
  OBVIOUS
<1>2. Upto(s, Len(s)) = Upto(s, n)
  BY <1>1, ChainRests
<1>3. Upto(s, n - 1) = Upto(s, 0)
  BY <1>1, ChainRests
<1>4. PICK t \in Seq(S) : t = s[n]
  OBVIOUS
<1>5. <<>> \o t = t
  OBVIOUS
<1>6. Upto(s, n) = <<>> \o s[n]
  BY <1>3, ChainGrows DEF Upto
<1>7. FlattenSeq(s) = Upto(s, Len(s))
  BY ChainGrows
<1>. QED
  BY <1>2, <1>4, <1>5, <1>6, <1>7

LEMMA ChainOfNone ==
  ASSUME NEW S, NEW s \in Seq(Seq(S)), \A i \in 1 .. Len(s) : s[i] = <<>>
  PROVE  FlattenSeq(s) = <<>>
<1>1. /\ Len(s) \in Nat /\ Len(s) \in 0 .. Len(s) /\ 0 \in 0 .. Len(s)
      /\ \A i \in 0 + 1 .. Len(s) : i \in 1 .. Len(s)
  OBVIOUS
<1>2. Upto(s, Len(s)) = Upto(s, 0)
  BY <1>1, ChainRests
<1>3. FlattenSeq(s) = Upto(s, Len(s))
  BY ChainGrows
<1>. QED
  BY <1>2, <1>3 DEF Upto

-----------------------------------------------------------------------------
(* The search in a sorted table                                            *)

(* The orders fall, and at most one of them is 0.                          *)
Falls(c, n) ==
  /\ \A i \in 1 .. n : c[i] \in Int
  /\ \A i, j \in 1 .. n : i < j /\ c[j] >= 0 => c[i] > 0

(* After some turns the window w holds the row, and has shrunk or is it.   *)
Narrowed(w, c, n, turn) ==
  /\ w.first \in 1 .. n + 1 /\ w.last \in 0 .. n
  /\ \A i \in 1 .. n : c[i] = 0 => w.first <= i /\ i <= w.last
  /\ \/ w.first > w.last
     \/ w.first = w.last /\ c[w.first] = 0
     \/ w.last - w.first < n - turn

LEMMA Middle ==
  ASSUME NEW a \in Nat, NEW b \in Nat, a <= b
  PROVE  (a + b) \div 2 \in a .. b
OBVIOUS

LEMMA HalvedIsNarrower ==
  ASSUME NEW n \in Nat, NEW c, Falls(c, n), NEW turn \in 0 .. n - 1, NEW w,
         Narrowed(w, c, n, turn)
  PROVE  Narrowed(Halved(c, w), c, n, turn + 1)
<1>1. w.first \in 1 .. n + 1 /\ w.last \in 0 .. n /\ n \in Nat /\ turn \in Nat
  BY DEF Narrowed
<1>2. CASE w.first > w.last
  <2>1. Halved(c, w) = w
    BY <1>1, <1>2 DEF Halved
  <2>2. Narrowed(w, c, n, turn + 1)
    BY <1>2 DEF Narrowed
  <2>. QED
    BY <2>1, <2>2
<1>3. CASE w.first <= w.last
  <2>1. PICK mid : mid = (w.first + w.last) \div 2
    OBVIOUS
  <2>2. mid \in w.first .. w.last
    BY <1>1, <1>3, <2>1, Middle
  <2>3. mid \in 1 .. n /\ c[mid] \in Int
    BY <1>1, <2>2 DEF Falls
  <2>4. PICK v : v = Halved(c, w)
    OBVIOUS
  <2>5. CASE c[mid] = 0
    <3>1. v.first = mid /\ v.last = mid
      BY <1>1, <1>3, <2>1, <2>4, <2>5 DEF Halved
    <3>2. ASSUME NEW i \in 1 .. n, c[i] = 0 PROVE i = mid
      BY <2>3, <2>5, <3>2 DEF Falls
    <3>3. \A i \in 1 .. n : c[i] = 0 => v.first <= i /\ i <= v.last
      BY <2>3, <3>1, <3>2
    <3>. QED
      BY <1>1, <2>3, <2>4, <2>5, <3>1, <3>3 DEF Narrowed
  <2>6. CASE c[mid] < 0
    <3>1. v.first = w.first /\ v.last = mid - 1
      BY <1>1, <1>3, <2>1, <2>3, <2>4, <2>6 DEF Halved
    <3>2. ASSUME NEW i \in 1 .. n, c[i] = 0 PROVE w.first <= i /\ i <= mid - 1
      <4>1. ~(mid < i) /\ i # mid
        BY <2>3, <2>6, <3>2 DEF Falls
      <4>. QED
        BY <2>3, <3>2, <4>1 DEF Narrowed
    <3>3. w.last - w.first < n - turn
      <4>1. ~(w.first = w.last /\ c[w.first] = 0)
        BY <1>1, <2>2, <2>6
      <4>. QED
        BY <1>1, <1>3, <4>1 DEF Narrowed
    <3>4. (mid - 1) - w.first < n - (turn + 1) /\ mid - 1 \in 0 .. n
      BY <1>1, <2>2, <2>3, <3>3
    <3>. QED
      BY <1>1, <2>4, <3>1, <3>2, <3>4 DEF Narrowed
  <2>7. CASE c[mid] > 0
    <3>1. v.first = mid + 1 /\ v.last = w.last
      BY <1>1, <1>3, <2>1, <2>3, <2>4, <2>7 DEF Halved
    <3>2. ASSUME NEW i \in 1 .. n, c[i] = 0 PROVE mid + 1 <= i /\ i <= w.last
      <4>1. ~(i < mid) /\ i # mid
        <5>1. ASSUME i < mid PROVE FALSE
          BY <2>3, <2>7, <3>2, <5>1 DEF Falls
        <5>. QED
          BY <2>7, <3>2, <5>1
      <4>. QED
        BY <2>3, <3>2, <4>1 DEF Narrowed
    <3>3. w.last - w.first < n - turn
      <4>1. ~(w.first = w.last /\ c[w.first] = 0)
        BY <1>1, <2>2, <2>7
      <4>. QED
        BY <1>1, <1>3, <4>1 DEF Narrowed
    <3>4. w.last - (mid + 1) < n - (turn + 1) /\ mid + 1 \in 1 .. n + 1
      BY <1>1, <2>2, <2>3, <3>3
    <3>. QED
      BY <1>1, <2>4, <3>1, <3>2, <3>4 DEF Narrowed
  <2>. QED
    BY <2>3, <2>5, <2>6, <2>7
<1>. QED
  BY <1>1, <1>2, <1>3

(* g are the windows of the search that finds f.                           *)
IsSearch(g, c, n, f) ==
  /\ g[0] = [first |-> 1, last |-> n]
  /\ \A turn \in 1 .. n : g[turn] = Halved(c, g[turn - 1])
  /\ f = IF g[n].first > g[n].last THEN 0 ELSE g[n].first

LEMMA SearchExists ==
  ASSUME NEW x, NEW tcols, NEW trows, NEW n \in Nat, n = Len(trows),
         NEW c, c = [i \in 1 .. n |-> RowOrder(x, tcols, trows[i])]
  PROVE  \E g : IsSearch(g, c, n, MatchingRowOfSorted(x, tcols, trows))
<1> DEFINE V(v, k) == IF k = 0 THEN [first |-> 1, last |-> n] ELSE Halved(c, v)
           Eq(f) == f = [k \in 0 .. n |-> V(f[k - 1], k)]
<1>1. \E f : Eq(f)
  <2>1. PICK f : IsLoop(f, "search", c, n, 0, n)
    <3>1. "search" \in Loops /\ Start("search") = 0
      BY DEF Loops, Start
    <3>. QED
      BY <3>1, LoopExists
  <2>2. \A k \in 0 .. n : Taken("search", c, n, f[k - 1], k) = V(f[k - 1], k)
    BY DEF Taken
  <2>3. Eq(f)
    <3> HIDE DEF V
    <3>. QED
      BY <2>1, <2>2 DEF IsLoop
  <2>. QED
    BY <2>3
<1>2. PICK f : f = CHOOSE h : Eq(h)
  OBVIOUS
<1>3. MatchingRowOfSorted(x, tcols, trows) = IF f[n].first > f[n].last THEN 0 ELSE f[n].first
  BY <1>2 DEF MatchingRowOfSorted
<1>4. Eq(f)
  <2> HIDE DEF Eq
  <2>. QED
    BY <1>1, <1>2
<1>5. f[0] = [first |-> 1, last |-> n]
  BY <1>4
<1>6. ASSUME NEW turn \in 1 .. n PROVE f[turn] = Halved(c, f[turn - 1])
  <2>1. f[turn] = V(f[turn - 1], turn)
    <3> HIDE DEF V
    <3>1. turn \in 0 .. n
      OBVIOUS
    <3>. QED
      BY <1>4, <3>1
  <2>2. turn # 0
    OBVIOUS
  <2>. QED
    BY <2>1, <2>2
<1>. QED
  BY <1>3, <1>5, <1>6 DEF IsSearch

(* The search finds the row that is neither before nor after the values,   *)
(* if there is one.                                                        *)
LEMMA SearchFinds ==
  ASSUME NEW x, NEW tcols, NEW trows, NEW n \in Nat, n = Len(trows),
         NEW c, c = [i \in 1 .. n |-> RowOrder(x, tcols, trows[i])], Falls(c, n),
         NEW f, f = MatchingRowOfSorted(x, tcols, trows)
  PROVE  /\ f = 0 => \A i \in 1 .. n : c[i] # 0
         /\ f # 0 => f \in 1 .. n /\ \A i \in 1 .. n : c[i] = 0 <=> i = f
<1>1. PICK g : IsSearch(g, c, n, f)
  BY SearchExists
<1> DEFINE T == {turn \in Nat : turn > n \/ Narrowed(g[turn], c, n, turn)}
<1>2. 0 \in T
  BY <1>1 DEF Narrowed, IsSearch
<1>3. ASSUME NEW turn \in Nat, turn \in T PROVE turn + 1 \in T
  <2>1. CASE turn + 1 > n
    BY <2>1
  <2>2. CASE turn + 1 <= n
    <3>1. turn + 1 \in 1 .. n /\ turn \in 0 .. n - 1 /\ (turn + 1) - 1 = turn
      BY <2>2
    <3>2. Narrowed(g[turn], c, n, turn)
      BY <1>3, <2>2
    <3>3. g[turn + 1] = Halved(c, g[turn])
      BY <1>1, <3>1 DEF IsSearch
    <3>4. Narrowed(g[turn + 1], c, n, turn + 1)
      BY <3>1, <3>2, <3>3, HalvedIsNarrower
    <3>. QED
      BY <3>4
  <2>. QED
    BY <2>1, <2>2
<1> HIDE DEF T
<1>4. n \in T
  BY <1>2, <1>3, Climb
<1> USE DEF T
<1>5. PICK w : w = g[n]
  OBVIOUS
<1>6. Narrowed(w, c, n, n)
  BY <1>4, <1>5
<1> HIDE DEF T
<1>7. CASE w.first > w.last
  <2>1. f = 0
    BY <1>1, <1>5, <1>7 DEF IsSearch
  <2>2. \A i \in 1 .. n : c[i] # 0
    BY <1>6, <1>7 DEF Narrowed
  <2>. QED
    BY <2>1, <2>2
<1>8. CASE ~(w.first > w.last)
  <2>1. w.first = w.last /\ c[w.first] = 0 /\ w.first \in 1 .. n
    BY <1>6, <1>8 DEF Narrowed
  <2>2. f = w.first
    BY <1>1, <1>5, <1>8 DEF IsSearch
  <2>3. \A i \in 1 .. n : c[i] = 0 => i = f
    BY <1>6, <2>1, <2>2 DEF Narrowed
  <2>. QED
    BY <2>1, <2>2, <2>3
<1>. QED
  BY <1>7, <1>8

-----------------------------------------------------------------------------
(* Cells                                                                   *)

CellTypes == Numeric \cup Textual

LEMMA NumberOfText ==
  ASSUME NEW text \in Seq(Int)
  PROVE  Number(text) \in Int
<1>1. CASE text = <<>>
  BY <1>1 DEF Number
<1>2. CASE text # <<>>
  <2>1. text[1] \in Int
    BY <1>2
  <2>. QED
    BY <2>1 DEF Number
<1>. QED
  BY <1>1, <1>2

LEMMA WholeNumber ==
  ASSUME NEW n \in Int
  PROVE  Double(n, 1) = [t |-> "DOUBLE", v |-> <<n, 1>>]
<1> DEFINE Divides(k) == /\ 1 % k = 0
                         /\ Abs(n) % k = 0
                         /\ \A j \in 1 .. Abs(1) : 1 % j = 0 /\ Abs(n) % j = 0 => j <= k
           g == CHOOSE k \in 1 .. Abs(1) : Divides(k)
<1>1. Abs(1) = 1 /\ Abs(n) \in Nat /\ (n < 0 => Abs(n) = -n)
  BY DEF Abs
<1>2. Divides(1) /\ 1 \in 1 .. Abs(1)
  BY <1>1
<1>3. g \in 1 .. Abs(1)
  <2> HIDE DEF Divides
  <2>. QED
    BY <1>2
<1>4. g = 1
  BY <1>1, <1>3
<1>5. Double(n, 1) = [t |-> "DOUBLE",
                      v |-> <<1 * (IF n < 0 THEN -(Abs(n) \div g) ELSE n \div g), Abs(1) \div g>>]
  BY DEF Double
<1> HIDE DEF g
<1>6. /\ 1 * (IF n < 0 THEN -(Abs(n) \div g) ELSE n \div g) = n
      /\ Abs(1) \div g = 1
  BY <1>1, <1>4
<1>. QED
  BY <1>5, <1>6

(* A text is compared as the value it stands for.                          *)
LEMMA CompareReads ==
  ASSUME NEW type \in CellTypes, NEW x, IsValue(x, type), NEW text \in Seq(Int),
         NEW y, y = ReadAs(text, x)
  PROVE  /\ IsValue(y, type)
         /\ CompareValue(x, text) = CellCmp(x, y)
         /\ CompareValue(x, text) \in Int
<1>1. x.t = type /\ Number(text) \in Int
  BY NumberOfText DEF IsValue
<1>2. CASE type = "LONG"
  <2>1. y = [t |-> "LONG", v |-> <<Number(text)>>]
    BY <1>1, <1>2 DEF ReadAs, Long
  <2>2. y.t = "LONG" /\ y.v[1] = Number(text)
    BY <2>1
  <2>3. CompareValue(x, text) = NumCmp(x.v[1], y.v[1])
    BY <1>1, <1>2, <2>2 DEF CompareValue
  <2>4. CellCmp(x, y) = NumCmp(x.v[1], y.v[1])
    BY <1>1, <1>2, <2>2 DEF CellCmp, Compare, OneIs
  <2>5. NumCmp(x.v[1], y.v[1]) \in Int
    BY DEF NumCmp
  <2>. QED
    BY <1>1, <1>2, <2>2, <2>3, <2>4, <2>5 DEF IsValue
<1>3. CASE type = "DOUBLE"
  <2>1. y = Double(Number(text), 1)
    BY <1>1, <1>3 DEF ReadAs
  <2>2. y.t = "DOUBLE" /\ y.v[1] = Number(text) /\ y.v[2] = 1
    BY <1>1, <2>1, WholeNumber
  <2>3. CompareValue(x, text) = Compare(x, y)
    BY <1>1, <1>3, <2>1 DEF CompareValue
  <2>4. CellCmp(x, y) = Compare(x, y)
    BY <1>1, <1>3 DEF CellCmp
  <2>5. Compare(x, y) \in Int
    BY <1>1, <1>3, <2>2 DEF Compare, OneIs, NumCmp
  <2>. QED
    BY <1>1, <1>3, <2>2, <2>3, <2>4, <2>5 DEF IsValue
<1>4. CASE type \in {"STRING", "LSTRING"}
  <2>1. y = [t |-> type, v |-> text]
    BY <1>1, <1>4 DEF ReadAs
  <2>2. y.t = type /\ y.v = text
    BY <2>1
  <2>3. CompareValue(x, text) = StrCmp(x.v, y.v)
    BY <1>1, <1>4, <2>2 DEF CompareValue
  <2>4. CellCmp(x, y) = StrCmp(x.v, y.v)
    BY <1>1, <1>4 DEF CellCmp
  <2>5. StrCmp(x.v, y.v) \in {-1, 0, 1}
    <3>1. x.v \in Seq(Int)
      BY <1>4 DEF IsValue
    <3>. QED
      BY <2>2, <3>1, TextOrder
  <2>. QED
    BY <1>4, <2>2, <2>3, <2>4, <2>5 DEF IsValue
<1>. QED
  BY <1>2, <1>3, <1>4 DEF CellTypes, Numeric, Textual

LEMMA CompareMeans ==
  ASSUME NEW type \in CellTypes, NEW x, IsValue(x, type), NEW text \in Seq(Int)
  PROVE  /\ CompareValue(x, text) \in Int
         /\ CompareValue(x, text) < 0 <=> Below(x, ReadAs(text, x))
         /\ CompareValue(x, text) > 0 <=> Below(ReadAs(text, x), x)
         /\ CompareValue(x, text) = 0 <=> Same(x, ReadAs(text, x))
<1>1. PICK y : y = ReadAs(text, x)
  OBVIOUS
<1>2. type \in Types
  BY DEF CellTypes, Numeric, Textual, Types
<1>3. IsValue(y, type) /\ CompareValue(x, text) = CellCmp(x, y) /\ CompareValue(x, text) \in Int
  BY <1>1, CompareReads
<1>4. /\ CellCmp(x, y) < 0 <=> Below(x, y)
      /\ CellCmp(x, y) > 0 <=> Below(y, x)
      /\ CellCmp(x, y) # 0 <=> ~Same(x, y)
  BY <1>2, <1>3, ValueOrder
<1>. QED
  BY <1>1, <1>3, <1>4

(* The order of a value and a cell that is no operator.                    *)
LEMMA OrderOfConstant ==
  ASSUME NEW x, NEW column, NEW cell, column.pType # "RANGE",
         NEW type \in CellTypes, IsValue(x, type), cell.vMin \in Seq(Int)
  PROVE  /\ cell.vMin = <<>> => CellOrder(x, column, cell) = 0
         /\ cell.vMin # <<>> =>
              /\ CellOrder(x, column, cell) \in Int
              /\ CellOrder(x, column, cell) < 0 <=> Below(x, ReadAs(cell.vMin, x))
              /\ CellOrder(x, column, cell) > 0 <=> Below(ReadAs(cell.vMin, x), x)
              /\ CellOrder(x, column, cell) = 0 <=> Same(x, ReadAs(cell.vMin, x))
<1>1. CASE cell.vMin = <<>>
  BY <1>1 DEF CellOrder
<1>2. CASE cell.vMin # <<>>
  <2>1. CellOrder(x, column, cell) = CompareValue(x, cell.vMin)
    BY <1>2 DEF CellOrder
  <2>. QED
    BY <1>2, <2>1, CompareMeans
<1>. QED
  BY <1>1, <1>2

(* Before the range and after it.                                          *)
Before(x, column, cell) ==
  /\ cell.vMin # <<>>
  /\ IF column.range = 1 THEN ~Below(ReadAs(cell.vMin, x), x) ELSE Below(x, ReadAs(cell.vMin, x))

Behind(x, column, cell) ==
  /\ cell.vMax # <<>>
  /\ IF column.range = 2 THEN ~Below(x, ReadAs(cell.vMax, x)) ELSE Below(ReadAs(cell.vMax, x), x)

LEMMA OrderOfRange ==
  ASSUME NEW x, NEW column, NEW cell, column.pType = "RANGE",
         NEW type \in CellTypes, IsValue(x, type), cell.vMin \in Seq(Int), cell.vMax \in Seq(Int)
  PROVE  CellOrder(x, column, cell) =
           IF Before(x, column, cell) THEN -1 ELSE IF Behind(x, column, cell) THEN 1 ELSE 0
<1>1. PICK min : min = CompareValue(x, cell.vMin)
  OBVIOUS
<1>2. PICK max : max = CompareValue(x, cell.vMax)
  OBVIOUS
<1>3. /\ min \in Int
      /\ min < 0 <=> Below(x, ReadAs(cell.vMin, x))
      /\ min > 0 <=> Below(ReadAs(cell.vMin, x), x)
  BY <1>1, CompareMeans
<1>4. /\ max \in Int
      /\ max < 0 <=> Below(x, ReadAs(cell.vMax, x))
      /\ max > 0 <=> Below(ReadAs(cell.vMax, x), x)
  BY <1>2, CompareMeans
<1>5. cell.vMin # <<>> /\ (min < 0 \/ (min = 0 /\ column.range = 1)) <=> Before(x, column, cell)
  BY <1>3 DEF Before
<1>6. cell.vMax # <<>> /\ (max > 0 \/ (max = 0 /\ column.range = 2)) <=> Behind(x, column, cell)
  BY <1>4 DEF Behind
<1>7. CASE Before(x, column, cell)
  <2>1. CellOrder(x, column, cell) = -1
    BY <1>1, <1>5, <1>7 DEF CellOrder
  <2>. QED
    BY <1>7, <2>1
<1>8. CASE ~Before(x, column, cell) /\ Behind(x, column, cell)
  <2>1. CellOrder(x, column, cell) = 1
    <3>1. ~(cell.vMin # <<>> /\ (min < 0 \/ (min = 0 /\ column.range = 1)))
      BY <1>5, <1>8
    <3>2. cell.vMax # <<>> /\ (max > 0 \/ (max = 0 /\ column.range = 2))
      BY <1>6, <1>8
    <3>. QED
      BY SMTT(30), <1>1, <1>2, <3>1, <3>2 DEF CellOrder
  <2>. QED
    BY <1>8, <2>1
<1>9. CASE ~Before(x, column, cell) /\ ~Behind(x, column, cell)
  <2>1. CellOrder(x, column, cell) = 0
    BY <1>1, <1>2, <1>5, <1>6, <1>9 DEF CellOrder
  <2>. QED
    BY <1>9, <2>1
<1>. QED
  BY <1>7, <1>8, <1>9

LEMMA TypeOfCell ==
  ASSUME NEW x, NEW column, NEW cell, IsCell(x, column, cell), column.gbn, column.pType # "COND"
  PROVE  \E type \in CellTypes : IsValue(x, type)
BY DEF IsCell, CellTypes

LEMMA OrderAdmits ==
  ASSUME NEW x, NEW column, NEW cell, IsCell(x, column, cell), column.gbn,
         column.pType # "OPTR", column.pType = "COND" => cell.cond = <<>>
  PROVE  CellOrder(x, column, cell) = 0 <=> Admits(x, column, cell)
<1>1. CASE column.pType = "COND"
  <2>1. CellOrder(x, column, cell) = 0
    BY <1>1 DEF CellOrder, IsCell
  <2>2. Admits(x, column, cell)
    BY <1>1 DEF Admits
  <2>. QED
    BY <2>1, <2>2
<1>2. CASE column.pType # "COND"
  <2>1. PICK type \in CellTypes : IsValue(x, type)
    BY <1>2, TypeOfCell
  <2>2. cell.vMin \in Seq(Int) /\ cell.vMax \in Seq(Int)
    BY <1>2 DEF IsCell
  <2>3. CASE column.pType = "RANGE"
    <3>1. CellOrder(x, column, cell) = 0 <=> ~Before(x, column, cell) /\ ~Behind(x, column, cell)
      BY <2>1, <2>2, <2>3, OrderOfRange
    <3>2. Admits(x, column, cell) <=> ~Before(x, column, cell) /\ ~Behind(x, column, cell)
      BY <2>3 DEF Admits, Before, Behind
    <3>. QED
      BY <3>1, <3>2
  <2>4. CASE column.pType \in {"CONST", "RONLY"}
    <3>1. Admits(x, column, cell) <=> cell.vMin = <<>> \/ Same(x, ReadAs(cell.vMin, x))
      BY <2>4 DEF Admits
    <3>2. CellOrder(x, column, cell) = 0 <=> cell.vMin = <<>> \/ Same(x, ReadAs(cell.vMin, x))
      BY <2>1, <2>2, <2>4, OrderOfConstant
    <3>. QED
      BY <3>1, <3>2
  <2>. QED
    BY <1>2, <2>3, <2>4 DEF IsCell
<1>. QED
  BY <1>1, <1>2

(* Nothing, zero and the word null.                                        *)
LEMMA NoDataIsEmpty ==
  ASSUME NEW type \in {"LONG", "STRING", "LSTRING"}, NEW x, IsValue(x, type),
         type = "LONG" => CmpVal(x) # NULLTEXT
  PROVE  NoData(x) <=> Empty(x)
<1>1. x.t = type
  BY DEF IsValue
<1>2. CASE type = "LONG"
  <2>1. x.v[1] \in Int /\ CmpVal(x) = <<1000 + x.v[1]>>
    BY <1>1, <1>2 DEF IsValue, CmpVal, FixedText, Text
  <2>2. Text(Long(0)) = <<1000>>
    BY DEF Text, Long
  <2>3. FixedText(Double(0, 1)) = <<4000, 4001>>
    BY WholeNumber DEF FixedText
  <2>4. Empty(x) <=> x.v[1] = 0
    BY <1>1, <1>2 DEF Empty, Numeric
  <2>5. PICK n \in Int : n = x.v[1]
    BY <2>1
  <2>6. <<1000 + n>> # <<>> /\ <<1000 + n>> # <<4000, 4001>>
    OBVIOUS
  <2>7. <<1000 + n>> = <<1000>> <=> n = 0
    <3>1. <<1000 + n>>[1] = 1000 + n /\ <<1000>>[1] = 1000
      OBVIOUS
    <3>. QED
      BY <3>1
  <2>8. NoData(x) <=> CmpVal(x) = <<1000>>
    BY <1>2, <2>1, <2>2, <2>3, <2>5, <2>6 DEF NoData
  <2>. QED
    BY <2>1, <2>4, <2>5, <2>7, <2>8
<1>3. CASE type \in {"STRING", "LSTRING"}
  <2>1. CmpVal(x) = x.v
    BY <1>1, <1>3 DEF CmpVal, FixedText, Text
  <2>. QED
    BY <1>1, <1>3, <2>1 DEF NoData, Empty, Numeric
<1>. QED
  BY <1>2, <1>3

Written(text, x) == FixedText(ReadAs(text, x)) = text

(* A text that is written as the value it stands for is the value's own    *)
(* text only where it stands for the same.                                 *)
LEMMA ReadAlike ==
  ASSUME NEW type \in {"LONG", "STRING", "LSTRING"}, NEW x, IsValue(x, type),
         NEW text \in Seq(Int), Written(text, x)
  PROVE  CmpVal(x) = text <=> Same(x, ReadAs(text, x))
<1>1. x.t = type
  BY DEF IsValue
<1>2. type \in CellTypes
  BY DEF CellTypes, Numeric, Textual
<1>3. CASE type = "LONG"
  <2>1. PICK n \in Int : n = Number(text)
    BY NumberOfText
  <2>2. ReadAs(text, x) = [t |-> "LONG", v |-> <<n>>]
    BY <1>1, <1>3, <2>1 DEF ReadAs, Long
  <2>3. text = <<1000 + n>>
    BY <2>2 DEF Written, FixedText, Text
  <2>4. PICK m \in Int : m = x.v[1]
    BY <1>3 DEF IsValue
  <2>5. CmpVal(x) = <<1000 + m>>
    BY <1>1, <1>3, <2>4 DEF CmpVal, FixedText, Text
  <2>6. CompareValue(x, text) = NumCmp(m, n)
    BY <1>1, <1>3, <2>1, <2>4 DEF CompareValue
  <2>7. CompareValue(x, text) = 0 <=> m = n
    BY <2>6, NumberOrder
  <2>8. <<1000 + m>> = <<1000 + n>> <=> m = n
    <3>1. <<1000 + m>>[1] = 1000 + m /\ <<1000 + n>>[1] = 1000 + n
      OBVIOUS
    <3>. QED
      BY <3>1
  <2>9. CompareValue(x, text) = 0 <=> Same(x, ReadAs(text, x))
    BY <1>2, CompareMeans
  <2>. QED
    BY ONLY <2>3, <2>5, <2>7, <2>8, <2>9
<1>4. CASE type \in {"STRING", "LSTRING"}
  <2>1. CmpVal(x) = x.v /\ x.v \in Seq(Int)
    BY <1>1, <1>4 DEF CmpVal, FixedText, Text, IsValue
  <2>2. CompareValue(x, text) = StrCmp(x.v, text)
    BY <1>1, <1>4 DEF CompareValue
  <2>3. CompareValue(x, text) = 0 <=> x.v = text
    BY <2>1, <2>2, TextOrder
  <2>. QED
    BY <1>2, <2>1, <2>3, CompareMeans
<1>. QED
  BY <1>3, <1>4

(* Where a value lies of the i-th text.                                    *)
LEMMA OperandMeans ==
  ASSUME NEW x, NEW cell, Texts(x, cell), NEW type \in CellTypes, IsValue(x, type),
         NEW i \in 1 .. Len(cell.sVal)
  PROVE  /\ CompareValue(x, cell.sVal[i]) \in Int
         /\ CompareValue(x, cell.sVal[i]) < 0 <=> Below(x, ReadAs(cell.sVal[i], x))
         /\ CompareValue(x, cell.sVal[i]) > 0 <=> Below(ReadAs(cell.sVal[i], x), x)
         /\ CompareValue(x, cell.sVal[i]) = 0 <=> Same(x, ReadAs(cell.sVal[i], x))
<1>1. cell.sVal[i] \in Seq(Int)
  BY DEF Texts, ToSet
<1>. QED
  BY <1>1, CompareMeans

LEMMA ListMeans ==
  ASSUME NEW x, NEW cell, Texts(x, cell), NEW type \in CellTypes, IsValue(x, type),
         cell.optr \in {9, 10}
  PROVE  CalcOperatorRule(x, cell) <=> Picks(x, cell.optr, cell.sVal)
<1> DEFINE same(text) == IF x.t = "DOUBLE" THEN CompareValue(x, text) = 0 ELSE CmpVal(x) = text
<1>1. x.t = type
  BY DEF IsValue
<1>2. ASSUME NEW i \in DOMAIN cell.sVal
      PROVE  same(cell.sVal[i]) <=> Same(x, ReadAs(cell.sVal[i], x))
  <2>1. i \in 1 .. Len(cell.sVal) /\ cell.sVal[i] \in ToSet(cell.sVal) /\ cell.sVal[i] \in Seq(Int)
    BY SMTT(30) DEF Texts, ToSet
  <2>2. CASE type = "DOUBLE"
    BY <1>1, <2>1, <2>2, OperandMeans
  <2>3. CASE type # "DOUBLE"
    <3>1. Written(cell.sVal[i], x)
      BY <1>1, <2>1, <2>3 DEF Texts, Written
    <3>2. type \in {"LONG", "STRING", "LSTRING"}
      BY <2>3 DEF CellTypes, Numeric, Textual
    <3>. QED
      BY <1>1, <2>1, <2>3, <3>1, <3>2, ReadAlike
  <2>. QED
    BY <2>2, <2>3
<1>3. (\E i \in DOMAIN cell.sVal : same(cell.sVal[i])) <=> OneOf(x, cell.sVal)
  <2> HIDE DEF same
  <2>. QED
    BY <1>2 DEF OneOf
<1>4. CASE cell.optr = 9
  <2>1. CalcOperatorRule(x, cell) <=> \E i \in DOMAIN cell.sVal : same(cell.sVal[i])
    BY <1>4 DEF CalcOperatorRule
  <2>2. Picks(x, cell.optr, cell.sVal) <=> OneOf(x, cell.sVal)
    BY <1>4 DEF Picks
  <2>. QED
    BY <1>3, <2>1, <2>2
<1>5. CASE cell.optr = 10
  <2>1. CalcOperatorRule(x, cell) <=> ~\E i \in DOMAIN cell.sVal : same(cell.sVal[i])
    BY <1>5 DEF CalcOperatorRule
  <2>2. Picks(x, cell.optr, cell.sVal) <=> ~OneOf(x, cell.sVal)
    BY <1>5 DEF Picks
  <2>. QED
    BY <1>3, <2>1, <2>2
<1>. QED
  BY <1>4, <1>5

LEMMA OperatorPicks ==
  ASSUME NEW x, NEW column, NEW cell, IsCell(x, column, cell), column.gbn,
         column.pType = "OPTR", cell.optr # 0
  PROVE  CalcOperatorRule(x, cell) <=> Picks(x, cell.optr, cell.sVal)
<1>1. PICK type \in CellTypes : IsValue(x, type)
  BY TypeOfCell
<1>2. /\ cell.optr \in (1 .. 10) \cup (12 .. 15)
      /\ Texts(x, cell) /\ Len(cell.sVal) \in Nat
      /\ cell.optr \in {14, 15} => x.t # "DOUBLE" /\ (x.t = "LONG" => CmpVal(x) # NULLTEXT)
  BY DEF IsCell, Texts
<1>3. CASE cell.optr \in 1 .. 6
  <2>1. 1 \in 1 .. Len(cell.sVal)
    BY <1>2, <1>3 DEF Texts
  <2>2. PICK v : v = CompareValue(x, cell.sVal[1])
    OBVIOUS
  <2>3. PICK lo : lo = ReadAs(cell.sVal[1], x)
    OBVIOUS
  <2>4. v \in Int /\ (v < 0 <=> Below(x, lo)) /\ (v > 0 <=> Below(lo, x)) /\ (v = 0 <=> Same(x, lo))
    BY <1>1, <1>2, <2>1, <2>2, <2>3, OperandMeans
  <2>5. CASE cell.optr = 1
    BY <2>2, <2>3, <2>4, <2>5 DEF CalcOperatorRule, Picks
  <2>6. CASE cell.optr = 2
    BY <2>2, <2>3, <2>4, <2>6 DEF CalcOperatorRule, Picks
  <2>7. CASE cell.optr = 3
    BY <2>2, <2>3, <2>4, <2>7 DEF CalcOperatorRule, Picks
  <2>8. CASE cell.optr = 4
    BY <2>2, <2>3, <2>4, <2>8 DEF CalcOperatorRule, Picks
  <2>9. CASE cell.optr = 5
    BY <2>2, <2>3, <2>4, <2>9 DEF CalcOperatorRule, Picks
  <2>10. CASE cell.optr = 6
    BY <2>2, <2>3, <2>4, <2>10 DEF CalcOperatorRule, Picks
  <2>. QED
    BY <1>3, <2>5, <2>6, <2>7, <2>8, <2>9, <2>10
<1>4. CASE cell.optr \in {7, 8, 12, 13}
  <2>1. 1 \in 1 .. Len(cell.sVal) /\ 2 \in 1 .. Len(cell.sVal)
    BY <1>2, <1>4 DEF Texts
  <2>2. PICK v : v = CompareValue(x, cell.sVal[1])
    OBVIOUS
  <2>3. PICK lo : lo = ReadAs(cell.sVal[1], x)
    OBVIOUS
  <2>4. PICK w : w = CompareValue(x, cell.sVal[2])
    OBVIOUS
  <2>5. PICK hi : hi = ReadAs(cell.sVal[2], x)
    OBVIOUS
  <2>6. v \in Int /\ (v < 0 <=> Below(x, lo)) /\ (v > 0 <=> Below(lo, x)) /\ (v = 0 <=> Same(x, lo))
    BY <1>1, <1>2, <2>1, <2>2, <2>3, OperandMeans
  <2>7. w \in Int /\ (w < 0 <=> Below(x, hi)) /\ (w > 0 <=> Below(hi, x)) /\ (w = 0 <=> Same(x, hi))
    BY <1>1, <1>2, <2>1, <2>4, <2>5, OperandMeans
  <2>8. CASE cell.optr = 7
    BY <2>2, <2>3, <2>4, <2>5, <2>6, <2>7, <2>8 DEF CalcOperatorRule, Picks
  <2>9. CASE cell.optr = 8
    BY <2>2, <2>3, <2>4, <2>5, <2>6, <2>7, <2>9 DEF CalcOperatorRule, Picks
  <2>10. CASE cell.optr = 12
    BY <2>2, <2>3, <2>4, <2>5, <2>6, <2>7, <2>10 DEF CalcOperatorRule, Picks
  <2>11. CASE cell.optr = 13
    BY <2>2, <2>3, <2>4, <2>5, <2>6, <2>7, <2>11 DEF CalcOperatorRule, Picks
  <2>. QED
    BY <1>4, <2>8, <2>9, <2>10, <2>11
<1>5. CASE cell.optr \in {9, 10}
  BY <1>1, <1>2, <1>5, ListMeans
<1>6. CASE cell.optr \in {14, 15}
  <2>1. x.t = type
    BY <1>1 DEF IsValue
  <2>2. type \in {"LONG", "STRING", "LSTRING"}
    BY <1>2, <1>6, <2>1 DEF CellTypes, Numeric, Textual
  <2>3. NoData(x) <=> Empty(x)
    BY <1>1, <1>2, <1>6, <2>1, <2>2, NoDataIsEmpty
  <2>4. CASE cell.optr = 14
    BY <2>3, <2>4 DEF CalcOperatorRule, Picks
  <2>5. CASE cell.optr = 15
    BY <2>3, <2>5 DEF CalcOperatorRule, Picks
  <2>. QED
    BY <1>6, <2>4, <2>5
<1>. QED
  BY <1>2, <1>3, <1>4, <1>5, <1>6

(* A cell matches the values it admits, and its test raises nothing.       *)
LEMMA CellAdmits ==
  ASSUME NEW x, NEW column, NEW cell, IsCell(x, column, cell),
         column.gbn /\ column.pType = "COND" => cell.cond = <<>>
  PROVE  /\ CellMatches(x, column, cell) <=> Admits(x, column, cell)
         /\ ~CellRaises(x, column, cell)
<1>1. CASE ~column.gbn
  BY <1>1 DEF CellMatches, Admits, CellRaises
<1>2. CASE column.gbn /\ column.pType # "OPTR"
  <2>1. CellMatches(x, column, cell) <=> CellOrder(x, column, cell) = 0
    BY <1>2 DEF CellMatches
  <2>. QED
    BY <1>2, <2>1, OrderAdmits DEF CellRaises
<1>3. CASE column.gbn /\ column.pType = "OPTR"
  <2>1. cell.optr \in (0 .. 10) \cup (12 .. 15)
    BY <1>3 DEF IsCell
  <2>2. ~CellRaises(x, column, cell)
    BY <2>1 DEF CellRaises
  <2>3. CellMatches(x, column, cell) <=> cell.optr = 0 \/ CalcOperatorRule(x, cell)
    BY <1>3 DEF CellMatches
  <2>4. Admits(x, column, cell) <=> Picks(x, cell.optr, cell.sVal)
    BY <1>3 DEF Admits
  <2>5. CASE cell.optr = 0
    BY <2>2, <2>3, <2>4, <2>5 DEF Picks
  <2>6. CASE cell.optr # 0
    BY <1>3, <2>2, <2>3, <2>4, <2>6, OperatorPicks
  <2>. QED
    BY <2>5, <2>6
<1>. QED
  BY <1>1, <1>2, <1>3

LEMMA ReadIsValue ==
  ASSUME NEW type \in CellTypes, NEW x, IsValue(x, type), NEW text \in Seq(Int)
  PROVE  IsValue(ReadAs(text, x), type)
BY CompareReads

(* Of values of one type, at most one of two is below the other, and a     *)
(* third one lies on the same side of one of them.                         *)
LEMMA CellValues ==
  ASSUME NEW type \in CellTypes, NEW x, NEW y, NEW z,
         IsValue(x, type), IsValue(y, type), IsValue(z, type)
  PROVE  /\ ~(Below(x, y) /\ Below(y, x))
         /\ Below(x, z) => Below(x, y) \/ Below(y, z)
<1>1. type \in Types
  BY DEF CellTypes, Numeric, Textual, Types
<1>. QED
  BY <1>1, ValueOrder, ValueBetween

(* A value that is not after a cell is before every cell above it.         *)
LEMMA CellsAscend ==
  ASSUME NEW x, NEW column, NEW a, NEW b, column.gbn,
         column.pType \in {"CONST", "RONLY", "RANGE"},
         IsCell(x, column, a), IsCell(x, column, b),
         column.pType = "RANGE" /\ a.vMin # <<>> /\ a.vMax # <<>> =>
           ~Below(ReadAs(a.vMax, x), ReadAs(a.vMin, x)),
         CellBelow(x, column, a, b), CellOrder(x, column, a) <= 0
  PROVE  CellOrder(x, column, b) < 0
<1>1. PICK type \in CellTypes : IsValue(x, type)
  BY TypeOfCell
<1>2. /\ a.vMin \in Seq(Int) /\ a.vMax \in Seq(Int)
      /\ b.vMin \in Seq(Int) /\ b.vMax \in Seq(Int)
  BY DEF IsCell
<1>3. PICK amin, amax, bmin : /\ amin = ReadAs(a.vMin, x)
                              /\ amax = ReadAs(a.vMax, x)
                              /\ bmin = ReadAs(b.vMin, x)
  OBVIOUS
<1>4. IsValue(amin, type) /\ IsValue(amax, type) /\ IsValue(bmin, type)
  BY <1>1, <1>2, <1>3, ReadIsValue
<1>5. CASE column.pType # "RANGE"
  <2>1. Below(amin, bmin) /\ a.vMin # <<>> /\ b.vMin # <<>>
    BY <1>3, <1>5 DEF CellBelow
  <2>2. ~Below(amin, x)
    <3>1. /\ CellOrder(x, column, a) \in Int
          /\ CellOrder(x, column, a) > 0 <=> Below(amin, x)
      BY <1>1, <1>2, <1>3, <1>5, <2>1, OrderOfConstant
    <3>. QED
      BY <3>1
  <2>3. Below(x, bmin)
    BY <1>1, <1>4, <2>1, <2>2, CellValues
  <2>. QED
    BY <1>1, <1>2, <1>3, <1>5, <2>1, <2>3, OrderOfConstant
<1>6. CASE column.pType = "RANGE"
  <2>1. a.vMax # <<>> /\ b.vMin # <<>>
    BY <1>6 DEF CellBelow
  <2>2. Before(x, column, a) \/ ~Behind(x, column, a)
    <3>1. CellOrder(x, column, a) =
            IF Before(x, column, a) THEN -1 ELSE IF Behind(x, column, a) THEN 1 ELSE 0
      BY <1>1, <1>2, <1>6, OrderOfRange
    <3>. QED
      BY <3>1
  <2>3. a.vMin # <<>> => ~Below(amax, amin)
    BY <1>3, <1>6, <2>1
  <2>4. ASSUME column.range = 0 PROVE Before(x, column, b)
    <3>1. Below(amax, bmin)
      BY <1>3, <1>6, <2>4 DEF CellBelow
    <3>2. ~Below(amax, x)
      <4>1. CASE Before(x, column, a)
        <5>1. Below(x, amin) /\ ~Below(amax, amin)
          BY <1>3, <2>3, <2>4, <4>1 DEF Before
        <5>. QED
          BY <1>1, <1>4, <5>1, CellValues
      <4>2. CASE ~Behind(x, column, a)
        BY <1>3, <2>1, <2>4, <4>2 DEF Behind
      <4>. QED
        BY <2>2, <4>1, <4>2
    <3>3. Below(x, bmin)
      BY <1>1, <1>4, <3>1, <3>2, CellValues
    <3>. QED
      BY <1>3, <2>1, <2>4, <3>3 DEF Before
  <2>5. ASSUME column.range = 1 PROVE Before(x, column, b)
    <3>1. ~Below(bmin, amax)
      BY <1>3, <1>6, <2>5 DEF CellBelow
    <3>2. ~Below(amax, x)
      <4>1. CASE Before(x, column, a)
        <5>1. ~Below(amin, x) /\ ~Below(amax, amin)
          BY <1>3, <2>3, <2>5, <4>1 DEF Before
        <5>. QED
          BY <1>1, <1>4, <5>1, CellValues
      <4>2. CASE ~Behind(x, column, a)
        BY <1>3, <2>1, <2>5, <4>2 DEF Behind
      <4>. QED
        BY <2>2, <4>1, <4>2
    <3>3. ~Below(bmin, x)
      BY <1>1, <1>4, <3>1, <3>2, CellValues
    <3>. QED
      BY <1>3, <2>1, <2>5, <3>3 DEF Before
  <2>6. ASSUME column.range = 2 PROVE Before(x, column, b)
    <3>1. ~Below(bmin, amax)
      BY <1>3, <1>6, <2>6 DEF CellBelow
    <3>2. Below(x, amax)
      <4>1. CASE Before(x, column, a)
        <5>1. Below(x, amin) /\ ~Below(amax, amin)
          BY <1>3, <2>3, <2>6, <4>1 DEF Before
        <5>. QED
          BY <1>1, <1>4, <5>1, CellValues
      <4>2. CASE ~Behind(x, column, a)
        BY <1>3, <2>1, <2>6, <4>2 DEF Behind
      <4>. QED
        BY <2>2, <4>1, <4>2
    <3>3. Below(x, bmin)
      BY <1>1, <1>4, <3>1, <3>2, CellValues
    <3>. QED
      BY <1>3, <2>1, <2>6, <3>3 DEF Before
  <2>7. Before(x, column, b)
    BY <1>6, <2>4, <2>5, <2>6 DEF IsCell
  <2>. QED
    BY <1>1, <1>2, <1>6, <2>7, OrderOfRange
<1>. QED
  BY <1>5, <1>6

(* The order of a row is that of its first cell that does not admit.       *)
LEMMA FirstOrder ==
  ASSUME NEW x, NEW tcols, NEW row, NEW m \in Nat, DOMAIN tcols = 1 .. m,
         NEW o, o = [k \in DOMAIN tcols |->
                       IF tcols[k].gbn THEN CellOrder(x[k], tcols[k], row.cells[k]) ELSE 0]
  PROVE  \/ RowOrder(x, tcols, row) = 0 /\ \A k \in 1 .. m : o[k] = 0
         \/ \E k \in 1 .. m : /\ o[k] # 0 /\ RowOrder(x, tcols, row) = o[k]
                             /\ \A l \in 1 .. k - 1 : o[l] = 0
<1> DEFINE I == {k \in 1 .. Len(o) : o[k] # 0}
<1>1. Len(o) = m /\ DOMAIN o = 1 .. m
  OBVIOUS
<1>2. PICK i : i = IF I # {} THEN Min(I) ELSE 0
  OBVIOUS
<1>3. RowOrder(x, tcols, row) = IF i = 0 THEN 0 ELSE o[i]
  BY <1>2 DEF RowOrder, SelectInSeq
<1>4. I = {k \in 1 .. m : o[k] # 0} /\ I \subseteq Nat
  BY <1>1
<1> HIDE DEF I
<1>5. CASE I = {}
  BY <1>2, <1>3, <1>4, <1>5
<1>6. CASE I # {}
  <2>1. i \in I /\ \A j \in I : i <= j
    BY <1>2, <1>4, <1>6, MinIsLeast
  <2>2. i \in 1 .. m /\ o[i] # 0 /\ i # 0
    BY <1>4, <2>1
  <2>3. \A l \in 1 .. i - 1 : o[l] = 0
    BY <1>4, <2>1, <2>2
  <2>. QED
    BY <1>3, <2>2, <2>3
<1>. QED
  BY <1>5, <1>6

-----------------------------------------------------------------------------
(* The order of the rows of a sorted table                                 *)

(* Where the k-th value lies of the cell of the n-th row.                  *)
OrderAt(r, n, k) ==
  IF r.tcols[k].gbn THEN CellOrder(r.value[k], r.tcols[k], r.trows[n].cells[k]) ELSE 0

LEMMA TableShape ==
  ASSUME NEW r, IsTable(r)
  PROVE  /\ Len(r.tcols) \in Nat /\ DOMAIN r.tcols = 1 .. Len(r.tcols)
         /\ Len(r.trows) \in Nat /\ DOMAIN r.trows = 1 .. Len(r.trows)
         /\ \A n \in DOMAIN r.trows, k \in DOMAIN r.tcols :
              IsCell(r.value[k], r.tcols[k], r.trows[n].cells[k])
BY DEF IsTable

LEMMA OrdersAdmit ==
  ASSUME NEW r, IsTable(r), RowsAscend(r), NEW n \in DOMAIN r.trows, NEW k \in DOMAIN r.tcols
  PROVE  /\ OrderAt(r, n, k) \in Int
         /\ OrderAt(r, n, k) = 0 <=> Admits(r.value[k], r.tcols[k], r.trows[n].cells[k])
<1> DEFINE x == r.value[k]
           column == r.tcols[k]
           cell == r.trows[n].cells[k]
<1>1. IsCell(x, column, cell)
  BY TableShape
<1>2. CASE ~column.gbn
  <2>1. OrderAt(r, n, k) = 0
    BY <1>2 DEF OrderAt
  <2>2. Admits(x, column, cell)
    <3> HIDE DEF x, column, cell
    <3>. QED
      BY <1>2 DEF Admits
  <2>. QED
    BY <2>1, <2>2
<1>3. CASE column.gbn
  <2>1. column.pType \in {"CONST", "RONLY", "RANGE"}
    BY <1>3 DEF RowsAscend
  <2>2. OrderAt(r, n, k) = CellOrder(x, column, cell)
    BY <1>3 DEF OrderAt
  <2> HIDE DEF x, column, cell
  <2>3. CellOrder(x, column, cell) = 0 <=> Admits(x, column, cell)
    BY <1>1, <1>3, <2>1, OrderAdmits
  <2>4. PICK type \in CellTypes : IsValue(x, type)
    BY <1>1, <1>3, <2>1, TypeOfCell
  <2>5. cell.vMin \in Seq(Int) /\ cell.vMax \in Seq(Int)
    BY <1>1, <1>3, <2>1 DEF IsCell
  <2>6. CellOrder(x, column, cell) \in Int
    <3>1. CASE column.pType = "RANGE"
      BY <2>4, <2>5, <3>1, OrderOfRange
    <3>2. CASE column.pType # "RANGE"
      BY <2>4, <2>5, <3>2, OrderOfConstant
    <3>. QED
      BY <3>1, <3>2
  <2>. QED
    BY <2>2, <2>3, <2>6 DEF x, column, cell
<1>. QED
  BY <1>2, <1>3

(* c is the first of the orders of the n-th row that is not 0.             *)
FirstOff(c, r, n) ==
  \/ c = 0 /\ \A k \in DOMAIN r.tcols : OrderAt(r, n, k) = 0
  \/ \E k \in DOMAIN r.tcols : /\ OrderAt(r, n, k) # 0 /\ c = OrderAt(r, n, k)
                               /\ \A l \in 1 .. k - 1 : OrderAt(r, n, l) = 0

LEMMA OrderOfRow ==
  ASSUME NEW r, IsTable(r), NEW n \in DOMAIN r.trows
  PROVE  FirstOff(RowOrder(r.value, r.tcols, r.trows[n]), r, n)
<1> DEFINE c == RowOrder(r.value, r.tcols, r.trows[n])
<1>1. PICK m \in Nat : m = Len(r.tcols) /\ DOMAIN r.tcols = 1 .. m
  BY TableShape
<1>2. PICK o : o = [k \in DOMAIN r.tcols |->
                     IF r.tcols[k].gbn THEN CellOrder(r.value[k], r.tcols[k], r.trows[n].cells[k]) ELSE 0]
  OBVIOUS
<1>3. \A k \in 1 .. m : o[k] = OrderAt(r, n, k)
  BY <1>1, <1>2 DEF OrderAt
<1>4. \/ c = 0 /\ \A k \in 1 .. m : o[k] = 0
      \/ \E k \in 1 .. m : /\ o[k] # 0 /\ c = o[k]
                           /\ \A l \in 1 .. k - 1 : o[l] = 0
  <2>1. PICK x, tcols, row : x = r.value /\ tcols = r.tcols /\ row = r.trows[n]
    OBVIOUS
  <2>2. DOMAIN tcols = 1 .. m /\ c = RowOrder(x, tcols, row)
    BY <1>1, <2>1
  <2>3. o = [k \in DOMAIN tcols |->
              IF tcols[k].gbn THEN CellOrder(x[k], tcols[k], row.cells[k]) ELSE 0]
    BY ONLY <1>2, <2>1
  <2>. QED
    BY SMTT(30), <2>2, <2>3, FirstOrder
<1>5. ASSUME NEW k \in 1 .. m, NEW l \in 1 .. k - 1 PROVE l \in 1 .. m
  OBVIOUS
<1> HIDE DEF c
<1>6. FirstOff(c, r, n)
  BY <1>1, <1>3, <1>4, <1>5 DEF FirstOff
<1>. QED
  BY <1>6 DEF c

LEMMA RowOrderAdmits ==
  ASSUME NEW r, IsTable(r), RowsAscend(r), NEW n \in DOMAIN r.trows
  PROVE  /\ RowOrder(r.value, r.tcols, r.trows[n]) \in Int
         /\ RowOrder(r.value, r.tcols, r.trows[n]) = 0 <=> RowAdmits(r, r.trows[n])
<1>1. PICK c : c = RowOrder(r.value, r.tcols, r.trows[n])
  OBVIOUS
<1>2. \A k \in DOMAIN r.tcols :
        /\ OrderAt(r, n, k) \in Int
        /\ OrderAt(r, n, k) = 0 <=> Admits(r.value[k], r.tcols[k], r.trows[n].cells[k])
  BY OrdersAdmit
<1>3. RowAdmits(r, r.trows[n]) <=> \A k \in DOMAIN r.tcols : OrderAt(r, n, k) = 0
  BY <1>2 DEF RowAdmits
<1>. QED
  BY <1>1, <1>2, <1>3, OrderOfRow DEF FirstOff

(* Of two rows of a sorted table, values that are not before the second    *)
(* one are after the first.                                                *)
LEMMA RowsFall ==
  ASSUME NEW r, IsTable(r), RowsAscend(r), NEW n \in Nat, n = Len(r.trows),
         NEW c, c = [i \in 1 .. n |-> RowOrder(r.value, r.tcols, r.trows[i])]
  PROVE  Falls(c, n)
<1>1. \A i \in 1 .. n : c[i] \in Int
  BY TableShape, RowOrderAdmits
<1>2. ASSUME NEW i \in 1 .. n, NEW j \in 1 .. n, i < j, c[j] >= 0 PROVE c[i] > 0
  <2>1. i \in DOMAIN r.trows /\ j \in DOMAIN r.trows /\ DOMAIN r.tcols = 1 .. Len(r.tcols) /\ Len(r.tcols) \in Nat
    BY TableShape
  <2>2. PICK k \in DOMAIN r.tcols :
          /\ CellBelow(r.value[k], r.tcols[k], r.trows[i].cells[k], r.trows[j].cells[k])
          /\ \A l \in 1 .. k - 1 : r.trows[i].cells[l] = r.trows[j].cells[l]
    BY <1>2, <2>1 DEF RowsAscend
  <2>3. \A l \in 1 .. k - 1 : l \in DOMAIN r.tcols /\ OrderAt(r, i, l) = OrderAt(r, j, l)
    BY <2>1, <2>2 DEF OrderAt
  <2>4. PICK a, b : a = OrderAt(r, i, k) /\ b = OrderAt(r, j, k)
    OBVIOUS
  <2>5. a \in Int /\ b \in Int
    BY <2>1, <2>4, OrdersAdmit
  <2>6. a <= 0 => b < 0
    <3> SUFFICES ASSUME a <= 0 PROVE b < 0
      OBVIOUS
    <3>1. r.tcols[k].gbn
      BY <2>2 DEF CellBelow
    <3>2. /\ r.tcols[k].pType \in {"CONST", "RONLY", "RANGE"}
          /\ r.tcols[k].pType = "RANGE" /\ r.trows[i].cells[k].vMin # <<>>
               /\ r.trows[i].cells[k].vMax # <<>> =>
               ~Below(ReadAs(r.trows[i].cells[k].vMax, r.value[k]),
                      ReadAs(r.trows[i].cells[k].vMin, r.value[k]))
      BY <2>1, <3>1 DEF RowsAscend
    <3>3. /\ IsCell(r.value[k], r.tcols[k], r.trows[i].cells[k])
          /\ IsCell(r.value[k], r.tcols[k], r.trows[j].cells[k])
      BY <2>1, TableShape
    <3>4. /\ a = CellOrder(r.value[k], r.tcols[k], r.trows[i].cells[k])
          /\ b = CellOrder(r.value[k], r.tcols[k], r.trows[j].cells[k])
      BY <2>4, <3>1 DEF OrderAt
    <3>. QED
      BY <2>2, <3>1, <3>2, <3>3, <3>4, CellsAscend
  <2>11. /\ c[i] = RowOrder(r.value, r.tcols, r.trows[i])
         /\ c[j] = RowOrder(r.value, r.tcols, r.trows[j])
    OBVIOUS
  <2>7. FirstOff(c[i], r, i) /\ FirstOff(c[j], r, j)
    BY <2>1, <2>11, OrderOfRow
  <2>9. CASE c[j] = 0 /\ \A h \in DOMAIN r.tcols : OrderAt(r, j, h) = 0
    <3>1. b = 0 /\ a > 0
      BY <2>4, <2>5, <2>6, <2>9
    <3>2. \A l \in 1 .. k - 1 : OrderAt(r, i, l) = 0
      BY <2>3, <2>9
    <3>. QED
      BY <2>1, <2>4, <2>7, <3>1, <3>2 DEF FirstOff
  <2>10. CASE \E h \in DOMAIN r.tcols : /\ OrderAt(r, j, h) # 0 /\ c[j] = OrderAt(r, j, h)
                                        /\ \A l \in 1 .. h - 1 : OrderAt(r, j, l) = 0
    <3>1. PICK h \in DOMAIN r.tcols : /\ OrderAt(r, j, h) # 0 /\ c[j] = OrderAt(r, j, h)
                                      /\ \A l \in 1 .. h - 1 : OrderAt(r, j, l) = 0
      BY <2>10
    <3>2. h \in Nat /\ k \in Nat /\ c[j] \in Int /\ c[j] > 0
      <4>1. c[j] \in Int /\ c[j] # 0 /\ c[j] >= 0
        BY <1>1, <1>2, <3>1
      <4>2. h \in 1 .. Len(r.tcols) /\ k \in 1 .. Len(r.tcols)
        BY <2>1
      <4>. QED
        BY <2>1, <4>1, <4>2
    <3>3. CASE h < k
      <4>1. h \in 1 .. k - 1 /\ OrderAt(r, i, h) = c[j]
        BY <2>1, <2>3, <3>1, <3>2, <3>3
      <4>2. \A l \in 1 .. h - 1 : OrderAt(r, i, l) = 0
        BY <2>3, <3>1, <3>2, <3>3
      <4>3. h \in DOMAIN r.tcols /\ OrderAt(r, i, h) # 0
        BY <3>1, <3>2, <4>1
      <4>4. PICK g \in DOMAIN r.tcols : /\ OrderAt(r, i, g) # 0 /\ c[i] = OrderAt(r, i, g)
                                        /\ \A l \in 1 .. g - 1 : OrderAt(r, i, l) = 0
        BY <2>7, <4>3 DEF FirstOff
      <4>5. g \in Nat /\ g >= 1 /\ h >= 1
        BY <2>1
      <4>6. ~(g < h)
        <5>1. g < h => g \in 1 .. h - 1
          BY <3>2, <4>5
        <5>. QED
          BY <4>2, <4>4, <5>1
      <4>7. ~(h < g)
        <5>1. h < g => h \in 1 .. g - 1
          BY <3>2, <4>5
        <5>. QED
          BY <4>3, <4>4, <5>1
      <4>8. g = h
        BY <3>2, <4>5, <4>6, <4>7
      <4>. QED
        BY <3>2, <4>1, <4>4, <4>8
    <3>4. CASE h >= k
      <4>1. \A l \in 1 .. k - 1 : OrderAt(r, i, l) = 0
        BY <2>3, <3>1, <3>2, <3>4
      <4>2. b >= 0
        <5>1. CASE h = k
          <6>1. b = c[j]
            BY ONLY <2>4, <3>1, <5>1
          <6>. QED
            BY <3>2, <6>1
        <5>2. CASE h > k
          <6>1. k \in 1 .. h - 1
            BY <2>1, <3>2, <5>2
          <6>. QED
            BY <2>4, <3>1, <6>1
        <5>. QED
          BY <3>2, <3>4, <5>1, <5>2
      <4>3. a > 0
        BY <2>5, <2>6, <4>2
      <4>4. PICK g \in DOMAIN r.tcols : /\ OrderAt(r, i, g) # 0 /\ c[i] = OrderAt(r, i, g)
                                        /\ \A l \in 1 .. g - 1 : OrderAt(r, i, l) = 0
        BY <2>4, <2>5, <2>7, <4>3 DEF FirstOff
      <4>5. g \in Nat /\ ~(g < k) /\ ~(k < g)
        <5>1. g \in Nat /\ g >= 1 /\ k >= 1
          BY <2>1
        <5>2. ~(g < k)
          <6>1. g < k => g \in 1 .. k - 1
            BY <3>2, <5>1
          <6>. QED
            BY <4>1, <4>4, <6>1
        <5>3. ~(k < g)
          <6>1. k < g => k \in 1 .. g - 1
            BY <3>2, <5>1
          <6>2. OrderAt(r, i, k) # 0
            BY <2>4, <2>5, <4>3
          <6>. QED
            BY <4>4, <6>1, <6>2
        <5>. QED
          BY <5>1, <5>2, <5>3
      <4>6. g = k
        BY <3>2, <4>5
      <4>. QED
        BY <2>4, <4>3, <4>4, <4>6
    <3>. QED
      BY <3>2, <3>3, <3>4
  <2>. QED
    BY <2>7, <2>9, <2>10 DEF FirstOff
<1>. QED
  BY <1>1, <1>2 DEF Falls

-----------------------------------------------------------------------------
(* The rows of a table                                                     *)

(* The results are constants, and so is what is asked of a column with     *)
(* conditions: nothing.                                                    *)
Tabulated(r) ==
  \A n \in DOMAIN r.trows :
    /\ r.trows[n].resGbn # 0 \/ r.trows[n].result = <<>>
    /\ \A k \in DOMAIN r.tcols :
         r.tcols[k].gbn /\ r.tcols[k].pType = "COND" => r.trows[n].cells[k].cond = <<>>

Picked(r) == [n \in DOMAIN r.trows |-> IF n \in RowsTaken(r) THEN RowResult(r.trows[n]) ELSE <<>>]

LEMMA TakenRow ==
  ASSUME NEW r, Tabulated(r), NEW n \in DOMAIN r.trows
  PROVE  /\ n \in RowsTaken(r) => Picked(r)[n] = r.trows[n].result
         /\ n \notin RowsTaken(r) => Picked(r)[n] = <<>>
<1>1. ASSUME n \in RowsTaken(r) PROVE Picked(r)[n] = r.trows[n].result
  <2>1. r.trows[n].result # <<>>
    BY <1>1 DEF RowsTaken, Admitted
  <2>2. r.trows[n].resGbn # 0
    BY <2>1 DEF Tabulated
  <2>3. Picked(r)[n] = RowResult(r.trows[n])
    BY <1>1 DEF Picked
  <2>. QED
    BY <2>2, <2>3 DEF RowResult
<1>2. n \notin RowsTaken(r) => Picked(r)[n] = <<>>
  BY DEF Picked
<1>. QED
  BY <1>1, <1>2

LEMMA PickedRows ==
  ASSUME NEW r, IsTable(r), Tabulated(r)
  PROVE  /\ \E S : Picked(r) \in Seq(Seq(S))
         /\ Len(Picked(r)) = Len(r.trows)
         /\ TableRows(r) = FlattenSeq(Picked(r))
<1>1. PICK n \in Nat : n = Len(r.trows) /\ DOMAIN r.trows = 1 .. n
  BY TableShape
<1>2. PICK S : S = UNION {ToSet(r.trows[i].result) : i \in 1 .. n}
  OBVIOUS
<1>3. ASSUME NEW i \in 1 .. n PROVE Picked(r)[i] \in Seq(S)
  <2>1. PICK res : res = r.trows[i].result
    OBVIOUS
  <2>2. res \in Seq(ToSet(res))
    BY <1>1, <2>1 DEF IsTable
  <2>3. ToSet(res) \subseteq S
    BY <1>2, <2>1
  <2>4. res \in Seq(S)
    <3>1. PICK T : T = ToSet(res)
      OBVIOUS
    <3>2. res \in Seq(T) /\ T \subseteq S
      BY <2>2, <2>3, <3>1
    <3>. QED
      BY <3>2
  <2>5. <<>> \in Seq(S)
    OBVIOUS
  <2>. QED
    BY <1>1, <2>1, <2>4, <2>5, TakenRow
<1>4. PICK q : q = Picked(r)
  OBVIOUS
<1>5. q = [i \in 1 .. n |-> q[i]] /\ \A i \in 1 .. n : q[i] \in Seq(S)
  <2>1. q = [i \in 1 .. n |-> IF i \in RowsTaken(r) THEN RowResult(r.trows[i]) ELSE <<>>]
    BY <1>1, <1>4 DEF Picked
  <2>. QED
    BY <1>3, <1>4, <2>1
<1>6. q \in Seq(Seq(S)) /\ Len(q) = n
  BY <1>5
<1>7. TableRows(r) = FlattenSeq(Picked(r))
  BY DEF TableRows, Picked
<1>. QED
  BY <1>1, <1>4, <1>6, <1>7

(* The rows of the first n lines.                                          *)
RowsUpto(r, n) == Upto(Picked(r), n)

LEMMA RowsGrow ==
  ASSUME NEW r, IsTable(r), Tabulated(r), NEW n \in DOMAIN r.trows
  PROVE  /\ n \in Nat /\ n - 1 \in Nat /\ n <= Len(r.trows)
         /\ n \notin Admitted(r) => RowsUpto(r, n) = RowsUpto(r, n - 1)
         /\ n \in RowsTaken(r) => RowsUpto(r, n) = RowsUpto(r, n - 1) \o r.trows[n].result
         /\ n \in RowsTaken(r) /\ r.breakFlag => TableRows(r) = RowsUpto(r, n)
<1>1. PICK m \in Nat : m = Len(r.trows) /\ DOMAIN r.trows = 1 .. m
  BY TableShape
<1>2. PICK S, q : q \in Seq(Seq(S)) /\ q = Picked(r) /\ Len(q) = m
  BY <1>1, PickedRows
<1>3. /\ n \in 1 .. m /\ n \in 0 .. m /\ n - 1 \in 0 .. m /\ n \in n - 1 .. m /\ m \in n .. m
      /\ \A i \in (n - 1) + 1 .. n : i = n
      /\ \A i \in n + 1 .. m : i \in 1 .. m /\ i > n
  BY <1>1
<1>4. ASSUME n \notin Admitted(r) PROVE Upto(q, n) = Upto(q, n - 1)
  <2>1. q[n] = <<>>
    BY <1>2, <1>4, TakenRow DEF RowsTaken
  <2>2. \A i \in (n - 1) + 1 .. n : q[i] = <<>>
    BY <1>3, <2>1
  <2>. QED
    BY <1>2, <1>3, <2>2, ChainRests
<1>5. ASSUME n \in RowsTaken(r) PROVE Upto(q, n) = Upto(q, n - 1) \o r.trows[n].result
  <2>1. q[n] = r.trows[n].result
    BY <1>2, <1>5, TakenRow
  <2>2. \A i \in 1 .. Len(q) : Upto(q, i) = Upto(q, i - 1) \o q[i]
    BY <1>2, ChainGrows
  <2>3. Upto(q, n) = Upto(q, n - 1) \o q[n]
    BY <1>2, <1>3, <2>2
  <2>. QED
    BY <2>1, <2>3
<1>6. ASSUME n \in RowsTaken(r), r.breakFlag PROVE TableRows(r) = Upto(q, n)
  <2>1. ASSUME NEW i \in n + 1 .. m PROVE q[i] = <<>>
    <3>1. i \in 1 .. m /\ i > n
      BY <1>3
    <3>2. i \notin RowsTaken(r)
      <4>1. n \in Admitted(r)
        BY <1>6 DEF RowsTaken
      <4>2. ~(i <= n)
        BY <1>1, <3>1
      <4>. QED
        BY <1>6, <4>1, <4>2 DEF RowsTaken
    <3>. QED
      BY <1>1, <1>2, <3>1, <3>2, TakenRow
  <2>2. Upto(q, m) = Upto(q, n)
    BY <1>2, <1>3, <2>1, ChainRests
  <2>3. FlattenSeq(q) = Upto(q, m)
    BY <1>2, ChainGrows
  <2>. QED
    BY <1>2, <2>2, <2>3, PickedRows
<1>7. \A k : RowsUpto(r, k) = Upto(q, k)
  BY <1>2 DEF RowsUpto
<1>8. n \in Nat /\ n - 1 \in Nat /\ n <= Len(r.trows)
  BY <1>1
<1>. QED
  BY <1>4, <1>5, <1>6, <1>7, <1>8

LEMMA AllRows ==
  ASSUME NEW r, IsTable(r), Tabulated(r)
  PROVE  /\ RowsUpto(r, 0) = <<>>
         /\ TableRows(r) = RowsUpto(r, Len(r.trows))
<1>1. PICK S, q : q \in Seq(Seq(S)) /\ q = Picked(r) /\ Len(q) = Len(r.trows)
  BY PickedRows
<1>2. FlattenSeq(q) = Upto(q, Len(q))
  BY <1>1, ChainGrows
<1>3. TableRows(r) = FlattenSeq(q)
  BY <1>1, PickedRows
<1>. QED
  BY <1>1, <1>2, <1>3 DEF RowsUpto, Upto

(* What the search of a sorted table finds.                                *)
Finds(r) == MatchingRowOfSorted(r.value, r.tcols, r.trows)

LEMMA SortedRows ==
  ASSUME NEW r, IsTable(r), Tabulated(r), RowsAscend(r)
  PROVE  /\ Finds(r) # 0 => Finds(r) \in DOMAIN r.trows
         /\ Finds(r) = 0 => TableRows(r) = <<>>
         /\ Finds(r) # 0 => TableRows(r) = r.trows[Finds(r)].result
<1>1. PICK m \in Nat : m = Len(r.trows) /\ DOMAIN r.trows = 1 .. m
  BY TableShape
<1>2. PICK S, q : q \in Seq(Seq(S)) /\ q = Picked(r) /\ Len(q) = m /\ TableRows(r) = FlattenSeq(q)
  BY <1>1, PickedRows
<1>3. PICK c : c = [i \in 1 .. m |-> RowOrder(r.value, r.tcols, r.trows[i])]
  OBVIOUS
<1>4. Falls(c, m)
  BY <1>1, <1>3, RowsFall
<1>5. PICK f : f = Finds(r)
  OBVIOUS
<1>6. /\ f = 0 => \A i \in 1 .. m : c[i] # 0
      /\ f # 0 => f \in 1 .. m /\ \A i \in 1 .. m : c[i] = 0 <=> i = f
  <2>1. PICK x, tcols, trows : x = r.value /\ tcols = r.tcols /\ trows = r.trows
    OBVIOUS
  <2>2. m = Len(trows) /\ c = [i \in 1 .. m |-> RowOrder(x, tcols, trows[i])]
    BY <1>1, <1>3, <2>1
  <2>3. f = MatchingRowOfSorted(x, tcols, trows)
    BY <1>5, <2>1 DEF Finds
  <2>. QED
    BY <1>4, <2>2, <2>3, SearchFinds
<1>7. ASSUME NEW i \in 1 .. m PROVE c[i] = 0 <=> RowAdmits(r, r.trows[i])
  BY <1>1, <1>3, RowOrderAdmits
<1>8. ASSUME NEW i \in 1 .. m, c[i] # 0 PROVE q[i] = <<>>
  <2>1. i \notin RowsTaken(r)
    BY <1>7, <1>8 DEF RowsTaken, Admitted
  <2>. QED
    BY <1>1, <1>2, <2>1, TakenRow
<1>9. CASE f = 0
  <2>1. \A i \in 1 .. m : q[i] = <<>>
    BY <1>6, <1>8, <1>9
  <2>. QED
    BY <1>2, <1>5, <1>9, <2>1, ChainOfNone
<1>10. CASE f # 0
  <2>1. f \in 1 .. m /\ \A i \in 1 .. m : i # f => c[i] # 0
    BY <1>6, <1>10
  <2>2. \A i \in 1 .. m : i # f => q[i] = <<>>
    BY <1>8, <2>1
  <2>3. TableRows(r) = q[f]
    BY <1>2, <2>1, <2>2, ChainOfOne
  <2>4. q[f] = r.trows[f].result
    <3>1. CASE r.trows[f].result = <<>>
      <4>1. f \notin RowsTaken(r)
        BY <3>1 DEF RowsTaken, Admitted
      <4>. QED
        BY <1>1, <1>2, <2>1, <3>1, <4>1, TakenRow
    <3>2. CASE r.trows[f].result # <<>>
      <4>1. f \in Admitted(r)
        BY <1>1, <1>6, <1>7, <2>1, <3>2 DEF Admitted
      <4>2. \A i \in Admitted(r) : i = f
        BY <1>1, <1>7, <2>1 DEF Admitted
      <4>3. f <= f
        BY <1>1, <2>1
      <4>4. f \in RowsTaken(r)
        BY <4>1, <4>2, <4>3 DEF RowsTaken
      <4>. QED
        BY <1>1, <1>2, <2>1, <4>4, TakenRow
    <3>. QED
      BY <3>1, <3>2
  <2>. QED
    BY <1>1, <1>5, <1>10, <2>1, <2>3, <2>4
<1>. QED
  BY <1>9, <1>10

(* The rows that SimpleResult returns.                                     *)
LEMMA SimpleRows ==
  ASSUME NEW r, IsTable(r), Tabulated(r),
         Len(r.tcols) = 1, ~r.breakFlag, r.tcols[1].pType = "CONST"
  PROVE  TableRows(r) = FlattenSeq([i \in DOMAIN r.trows |->
                            IF SimpleMatches(r.value[1], r.trows[i]) THEN r.trows[i].result ELSE <<>>])
<1>1. DOMAIN r.tcols = 1 .. 1
  BY TableShape
<1>2. ASSUME NEW i \in DOMAIN r.trows
      PROVE  Picked(r)[i] = IF SimpleMatches(r.value[1], r.trows[i]) THEN r.trows[i].result ELSE <<>>
  <2>1. PICK x, column, cell : x = r.value[1] /\ column = r.tcols[1] /\ cell = r.trows[i].cells[1]
    OBVIOUS
  <2>2. column.gbn /\ cell.vMin # <<>> /\ column.pType = "CONST"
    BY <2>1 DEF IsTable
  <2>3. IsCell(x, column, cell)
    BY <1>1, <2>1 DEF IsTable
  <2>4. CellOrder(x, column, cell) = 0 <=> Admits(x, column, cell)
    BY <2>2, <2>3, OrderAdmits
  <2>5. CellOrder(x, column, cell) = CompareValue(x, cell.vMin)
    BY <2>2 DEF CellOrder
  <2>6. SimpleMatches(r.value[1], r.trows[i]) <=> Admits(x, column, cell)
    BY <2>1, <2>4, <2>5 DEF SimpleMatches
  <2>7. RowAdmits(r, r.trows[i]) <=> Admits(x, column, cell)
    <3>1. \A k \in DOMAIN r.tcols : k = 1
      BY <1>1
    <3>2. 1 \in DOMAIN r.tcols
      BY <1>1
    <3>. QED
      BY <2>1, <3>1, <3>2 DEF RowAdmits
  <2>8. i \in RowsTaken(r) <=> RowAdmits(r, r.trows[i]) /\ r.trows[i].result # <<>>
    BY DEF RowsTaken, Admitted
  <2>. QED
    BY <2>6, <2>7, <2>8, TakenRow
<1>3. PICK q : q = Picked(r)
  OBVIOUS
<1>4. q = [i \in DOMAIN r.trows |-> q[i]]
  BY <1>3 DEF Picked
<1>5. q = [i \in DOMAIN r.trows |->
             IF SimpleMatches(r.value[1], r.trows[i]) THEN r.trows[i].result ELSE <<>>]
  BY <1>2, <1>3, <1>4
<1>. QED
  BY <1>3, <1>5, PickedRows

-----------------------------------------------------------------------------
(* The three searches                                                      *)

(* Row by row: the rows so far are those of the lines before this one, and *)
(* with breakFlag none of those was taken; of this line the cells so far   *)
(* admit the values.                                                       *)
RowByRow(r) ==
  /\ node \in Nat \ {0}
  /\ node <= Len(r.trows) + 1
  /\ rows = RowsUpto(r, node - 1)
  /\ r.breakFlag => \A n \in Admitted(r) : node <= n
  /\ pc \in {"cell", "row"} => node <= Len(r.trows)
  /\ pc = "cell" =>
       /\ col \in Nat \ {0}
       /\ \A k \in DOMAIN r.tcols : k < col => Admits(r.value[k], r.tcols[k], r.trows[node].cells[k])
  /\ pc = "row" => RowAdmits(r, r.trows[node])

(* By halves: the row at hand is the one found. Without breakFlag the      *)
(* search starts again after a result.                                     *)
ByHalves(r) ==
  /\ pc # "cell"
  /\ pc = "row" => node = Finds(r) /\ Finds(r) # 0
  /\ rows # <<>> => ~r.breakFlag /\ Finds(r) # 0 /\ r.trows[Finds(r)].result # <<>>

IsSimple(r) == Len(r.tcols) = 1 /\ ~r.breakFlag /\ r.tcols[1].pType = "CONST"
IsBisected(r) == r.sorted /\ r.tcols # <<>>

(* Nothing is computed, and when the search ends the rows are those of the *)
(* table.                                                                  *)
TableIInv(r) ==
  /\ rule = r
  /\ pc \notin Waits
  /\ pc \in {"next", "cell", "row"} =>
       /\ IsSimple(r) => pc = "next"
       /\ ~IsSimple(r) /\ IsBisected(r) => ByHalves(r)
       /\ ~IsSimple(r) /\ ~IsBisected(r) => RowByRow(r)
  /\ pc = "aggregate" => rows = TableRows(r)

LEMMA SimpleStep ==
  ASSUME NEW r, IsTable(r), Tabulated(r), TableIInv(r), SimpleResult
  PROVE  TableIInv(r)'
<1>1. rule = r /\ rule' = r /\ pc' = "aggregate"
  BY DEF SimpleResult, GoTo, TableIInv
<1>2. Len(r.tcols) = 1 /\ ~r.breakFlag /\ r.tcols[1].pType = "CONST"
  BY <1>1 DEF SimpleResult, Simple
<1>3. rows' = FlattenSeq([i \in DOMAIN r.trows |->
                IF SimpleMatches(r.value[1], r.trows[i]) THEN r.trows[i].result ELSE <<>>])
  BY <1>1 DEF SimpleResult
<1>4. rows' = TableRows(r)
  BY <1>2, <1>3, SimpleRows
<1>. QED
  BY <1>1, <1>4 DEF TableIInv, Waits

LEMMA SortedStep ==
  ASSUME NEW r, IsTable(r), Tabulated(r), TableIInv(r), SortedRow
  PROVE  TableIInv(r)'
<1>1. rule = r /\ rule' = r /\ rows' = rows /\ pc = "next"
  BY DEF SortedRow, TableIInv
<1>2. ~IsSimple(r) /\ IsBisected(r)
  BY <1>1 DEF SortedRow, Simple, Bisected, IsSimple, IsBisected
<1>3. ByHalves(r)
  BY <1>1, <1>2 DEF TableIInv
<1>4. IF Finds(r) = 0 THEN GoTo("aggregate", node) ELSE GoTo("row", Finds(r))
  BY <1>1 DEF SortedRow, Finds
<1>5. RowsAscend(r)
  BY <1>2 DEF IsTable, IsBisected
<1>6. CASE Finds(r) = 0
  <2>1. pc' = "aggregate"
    BY <1>4, <1>6 DEF GoTo
  <2>2. rows = <<>>
    BY <1>3, <1>6 DEF ByHalves
  <2>3. TableRows(r) = <<>>
    BY <1>5, <1>6, SortedRows
  <2>. QED
    BY <1>1, <2>1, <2>2, <2>3 DEF TableIInv, Waits
<1>7. CASE Finds(r) # 0
  <2>1. pc' = "row" /\ node' = Finds(r)
    BY <1>4, <1>7 DEF GoTo
  <2>2. ByHalves(r)'
    BY <1>1, <1>3, <1>7, <2>1 DEF ByHalves
  <2>. QED
    BY <1>1, <1>2, <2>1, <2>2 DEF TableIInv, Waits
<1>. QED
  BY <1>6, <1>7

LEMMA NextStep ==
  ASSUME NEW r, IsTable(r), Tabulated(r), TableIInv(r), NextRow
  PROVE  TableIInv(r)'
<1>1. rule = r /\ rule' = r /\ rows' = rows /\ pc = "next" /\ col' = 1
  BY DEF NextRow, TableIInv
<1>2. ~IsSimple(r) /\ ~IsBisected(r)
  BY <1>1 DEF NextRow, Simple, Bisected, IsSimple, IsBisected
<1>3. RowByRow(r)
  BY <1>1, <1>2 DEF TableIInv
<1>4. IF node > Len(r.trows) THEN GoTo("aggregate", node) ELSE GoTo("cell", node)
  BY <1>1 DEF NextRow
<1>5. Len(r.trows) \in Nat /\ DOMAIN r.tcols = 1 .. Len(r.tcols)
  BY TableShape
<1>6. CASE node > Len(r.trows)
  <2>1. pc' = "aggregate"
    BY <1>4, <1>6 DEF GoTo
  <2>2. node - 1 = Len(r.trows)
    BY <1>3, <1>5, <1>6 DEF RowByRow
  <2>3. rows = TableRows(r)
    BY <1>3, <2>2, AllRows DEF RowByRow
  <2>. QED
    BY <1>1, <2>1, <2>3 DEF TableIInv, Waits
<1>7. CASE ~(node > Len(r.trows))
  <2>1. pc' = "cell" /\ node' = node
    BY <1>4, <1>7 DEF GoTo
  <2>2. node \in Nat /\ node <= Len(r.trows)
    BY <1>3, <1>5, <1>7 DEF RowByRow
  <2>3. \A k \in DOMAIN r.tcols : ~(k < 1)
    BY <1>5
  <2>4. RowByRow(r)'
    BY <1>1, <1>3, <2>1, <2>2, <2>3 DEF RowByRow
  <2>. QED
    BY <1>1, <1>2, <2>1, <2>4 DEF TableIInv, Waits
<1>. QED
  BY <1>6, <1>7

(* The line at hand is passed over.                                        *)
LEMMA LinePassed ==
  ASSUME NEW r, IsTable(r), Tabulated(r), ~IsSimple(r), ~IsBisected(r), RowByRow(r),
         node <= Len(r.trows), node \notin Admitted(r),
         rule' = r, rows' = rows, pc' = "next", node' = node + 1
  PROVE  TableIInv(r)'
<1>1. PICK n \in Nat \ {0} : n = node
  BY DEF RowByRow
<1>2. Len(r.trows) \in Nat /\ n \in DOMAIN r.trows
  BY <1>1, TableShape
<1>3. RowsUpto(r, n) = RowsUpto(r, n - 1)
  BY <1>1, <1>2, RowsGrow
<1>4. node' \in Nat \ {0} /\ node' <= Len(r.trows) + 1 /\ node' - 1 = n
  BY <1>1, <1>2
<1>5. rows' = RowsUpto(r, node' - 1)
  BY <1>1, <1>3, <1>4 DEF RowByRow
<1>6. ASSUME r.breakFlag, NEW i \in Admitted(r) PROVE node' <= i
  <2>1. i \in DOMAIN r.trows /\ node <= i /\ i # node
    BY <1>6 DEF RowByRow, Admitted
  <2>2. i \in Nat
    BY <2>1, TableShape
  <2>. QED
    BY <1>1, <2>1, <2>2
<1>7. RowByRow(r)'
  BY <1>4, <1>5, <1>6 DEF RowByRow
<1>. QED
  BY <1>7 DEF TableIInv, Waits

LEMMA CellStep ==
  ASSUME NEW r, IsTable(r), Tabulated(r), TableIInv(r), Cell
  PROVE  TableIInv(r)'
<1>1. rule = r /\ pc = "cell"
  BY DEF Cell, TableIInv
<1>2. ~IsSimple(r) /\ ~IsBisected(r) /\ RowByRow(r)
  BY <1>1 DEF TableIInv, ByHalves
<1>3. PICK n \in Nat \ {0}, c \in Nat \ {0} : n = node /\ c = col
  BY <1>1, <1>2 DEF RowByRow
<1>4. /\ Len(r.trows) \in Nat /\ n \in DOMAIN r.trows
      /\ Len(r.tcols) \in Nat /\ DOMAIN r.tcols = 1 .. Len(r.tcols)
  BY <1>1, <1>2, <1>3, TableShape DEF RowByRow
<1>5. CASE c > Len(r.tcols)
  <2>1. pc' = "row" /\ node' = n /\ rule' = r /\ rows' = rows
    BY <1>1, <1>3, <1>4, <1>5 DEF Cell, GoTo
  <2>2. \A k \in DOMAIN r.tcols : k < c
    BY <1>4, <1>5
  <2>3. RowAdmits(r, r.trows[n])
    BY <1>1, <1>2, <1>3, <2>2 DEF RowByRow, RowAdmits
  <2>4. RowByRow(r)'
    BY <1>1, <1>2, <1>3, <2>1, <2>3 DEF RowByRow
  <2>. QED
    BY <1>2, <2>1, <2>4 DEF TableIInv, Waits
<1>6. CASE c <= Len(r.tcols)
  <2>1. c \in DOMAIN r.tcols
    BY <1>3, <1>4, <1>6
  <2>2. PICK x, column, cell : x = r.value[c] /\ column = r.tcols[c] /\ cell = r.trows[n].cells[c]
    OBVIOUS
  <2>3. IsCell(x, column, cell)
    BY <1>4, <2>1, <2>2 DEF IsTable
  <2>4. column.gbn /\ column.pType = "COND" => cell.cond = <<>>
    BY <1>4, <2>1, <2>2 DEF Tabulated
  <2>5. (CellMatches(x, column, cell) <=> Admits(x, column, cell)) /\ ~CellRaises(x, column, cell)
    BY <2>3, <2>4, CellAdmits
  <2>6. CellDone(CellMatches(x, column, cell))
    BY <1>1, <1>3, <1>4, <1>6, <2>2, <2>4, <2>5 DEF Cell
  <2>7. rule' = r /\ rows' = rows
    BY <1>1, <2>6 DEF CellDone
  <2>8. CASE Admits(x, column, cell)
    <3>1. pc' = "cell" /\ node' = node /\ col' = col + 1
      BY <2>5, <2>6, <2>8 DEF CellDone, GoTo
    <3>2. col' \in Nat \ {0} /\ \A k \in DOMAIN r.tcols : k < col' => k < c \/ k = c
      BY <1>3, <1>4, <3>1
    <3>3. \A k \in DOMAIN r.tcols : k < col' => Admits(r.value[k], r.tcols[k], r.trows[n].cells[k])
      BY <1>1, <1>2, <1>3, <2>2, <2>8, <3>2 DEF RowByRow
    <3>4. RowByRow(r)'
      BY <1>1, <1>2, <1>3, <2>7, <3>1, <3>2, <3>3 DEF RowByRow
    <3>. QED
      BY <1>2, <2>7, <3>1, <3>4 DEF TableIInv, Waits
  <2>9. CASE ~Admits(x, column, cell)
    <3>1. pc' = "next" /\ node' = node + 1
      BY <2>5, <2>6, <2>9 DEF CellDone, GoTo
    <3>2. ~RowAdmits(r, r.trows[n])
      BY <2>1, <2>2, <2>9 DEF RowAdmits
    <3>3. node \notin Admitted(r)
      BY <1>3, <3>2 DEF Admitted
    <3>4. node <= Len(r.trows)
      BY <1>1, <1>2 DEF RowByRow
    <3>. QED
      BY <1>2, <2>7, <3>1, <3>3, <3>4, LinePassed
  <2>. QED
    BY <2>8, <2>9
<1>. QED
  BY <1>3, <1>4, <1>5, <1>6

(* A row that was found by halves.                                         *)
LEMMA FoundStep ==
  ASSUME NEW r, IsTable(r), Tabulated(r), TableIInv(r), MatchingRow, ~IsSimple(r), IsBisected(r)
  PROVE  TableIInv(r)'
<1>1. rule = r /\ pc = "row" /\ r.type = "TABLE"
  BY DEF MatchingRow, TableIInv, IsTable
<1>2. PICK f : f = Finds(r) /\ f = node /\ f # 0
  BY <1>1 DEF TableIInv, ByHalves
<1>3. RowsAscend(r)
  BY DEF IsTable, IsBisected
<1>4. f \in DOMAIN r.trows /\ TableRows(r) = r.trows[f].result
  BY <1>2, <1>3, SortedRows
<1>5. PICK result : result = r.trows[f].result
  OBVIOUS
<1>6. CASE result = <<>>
  <2>1. pc' = "aggregate" /\ rule' = r /\ rows' = rows
    BY <1>1, <1>2, <1>5, <1>6 DEF MatchingRow, GoTo, IsBisected
  <2>2. rows = <<>>
    BY <1>1, <1>2, <1>5, <1>6 DEF TableIInv, ByHalves
  <2>. QED
    BY <1>4, <1>5, <1>6, <2>1, <2>2 DEF TableIInv, Waits
<1>7. CASE result # <<>>
  <2>1. r.trows[f].resGbn # 0
    BY <1>4, <1>5, <1>7 DEF Tabulated
  <2>2. After(0, result) /\ rule' = r
    BY <1>1, <1>2, <1>5, <1>7, <2>1 DEF MatchingRow, TakeResult
  <2>3. /\ rows' = rows \o result
        /\ IF r.breakFlag THEN GoTo("aggregate", node) ELSE GoTo("next", node + 1)
    BY <1>1, <2>2 DEF After, AfterRow
  <2>4. CASE r.breakFlag
    <3>1. pc' = "aggregate"
      BY <2>3, <2>4 DEF GoTo
    <3>2. rows = <<>>
      BY <1>1, <2>4 DEF TableIInv, ByHalves
    <3>3. result \in Seq(ToSet(result))
      BY <1>4, <1>5 DEF IsTable
    <3>4. <<>> \o result = result
      BY <3>3
    <3>. QED
      BY <1>4, <1>5, <2>2, <2>3, <3>1, <3>2, <3>4 DEF TableIInv, Waits
  <2>5. CASE ~r.breakFlag
    <3>1. pc' = "next"
      BY <2>3, <2>5 DEF GoTo
    <3>2. ByHalves(r)'
      BY <1>2, <1>5, <1>7, <2>5, <3>1 DEF ByHalves
    <3>. QED
      BY <2>2, <3>1, <3>2 DEF TableIInv, Waits
  <2>. QED
    BY <2>4, <2>5
<1>. QED
  BY <1>6, <1>7

(* A row that was reached row by row.                                      *)
LEMMA ReachedStep ==
  ASSUME NEW r, IsTable(r), Tabulated(r), TableIInv(r), MatchingRow, ~IsSimple(r), ~IsBisected(r)
  PROVE  TableIInv(r)'
<1>1. rule = r /\ pc = "row" /\ r.type = "TABLE"
  BY DEF MatchingRow, TableIInv, IsTable
<1>2. RowByRow(r) /\ node <= Len(r.trows)
  BY <1>1 DEF TableIInv, RowByRow
<1>3. PICK n \in Nat \ {0} : n = node
  BY <1>2 DEF RowByRow
<1>4. n \in DOMAIN r.trows /\ RowAdmits(r, r.trows[n])
  BY <1>1, <1>2, <1>3, TableShape DEF RowByRow
<1>5. PICK result : result = r.trows[n].result
  OBVIOUS
<1>6. CASE result = <<>>
  <2>1. ~r.sorted
    BY <1>4, <1>5, <1>6 DEF IsTable, IsBisected
  <2>2. pc' = "next" /\ node' = node + 1 /\ rule' = r /\ rows' = rows
    BY <1>1, <1>3, <1>5, <1>6, <2>1 DEF MatchingRow, GoTo
  <2>3. node \notin Admitted(r)
    BY <1>3, <1>5, <1>6 DEF Admitted
  <2>. QED
    BY <1>2, <2>2, <2>3, LinePassed
<1>7. CASE result # <<>>
  <2>1. r.trows[n].resGbn # 0
    BY <1>4, <1>5, <1>7 DEF Tabulated
  <2>2. After(0, result) /\ rule' = r
    BY <1>1, <1>3, <1>5, <1>7, <2>1 DEF MatchingRow, TakeResult
  <2>3. /\ rows' = rows \o result
        /\ IF r.breakFlag THEN GoTo("aggregate", node) ELSE GoTo("next", node + 1)
    BY <1>1, <2>2 DEF After, AfterRow
  <2>4. n \in RowsTaken(r)
    BY <1>2, <1>3, <1>4, <1>5, <1>7 DEF RowsTaken, Admitted, RowByRow
  <2>5. rows' = RowsUpto(r, n)
    <3>1. rows = RowsUpto(r, n - 1)
      BY <1>2, <1>3 DEF RowByRow
    <3>. QED
      BY <1>4, <1>5, <2>3, <2>4, <3>1, RowsGrow
  <2>6. CASE r.breakFlag
    <3>1. pc' = "aggregate"
      BY <2>3, <2>6 DEF GoTo
    <3>2. TableRows(r) = RowsUpto(r, n)
      BY <1>4, <2>4, <2>6, RowsGrow
    <3>. QED
      BY <2>2, <2>5, <3>1, <3>2 DEF TableIInv, Waits
  <2>7. CASE ~r.breakFlag
    <3>1. pc' = "next" /\ node' = n + 1
      BY <1>3, <2>3, <2>7 DEF GoTo
    <3>2. node' \in Nat \ {0} /\ node' <= Len(r.trows) + 1 /\ node' - 1 = n
      BY <1>2, <1>3, <3>1, TableShape
    <3>3. RowByRow(r)'
      BY <2>5, <2>7, <3>1, <3>2 DEF RowByRow
    <3>. QED
      BY <2>2, <3>1, <3>3 DEF TableIInv, Waits
  <2>. QED
    BY <2>6, <2>7
<1>. QED
  BY <1>6, <1>7

LEMMA TableIInvInductive ==
  ASSUME NEW r, IsTable(r), Tabulated(r), RunIInv, TableIInv(r), [RunNext]_vars
  PROVE  TableIInv(r)'
<1>1. CASE UNCHANGED vars
  BY <1>1 DEF TableIInv, RowByRow, ByHalves, vars, runVars
<1>2. CASE RunNext
  <2>1. rule = r /\ r.type = "TABLE" /\ pc \notin Waits /\ ~Running
    BY DEF TableIInv, IsTable, RunIInv
  <2>2. CASE Aggregate \/ Sort \/ DefaultResult
    <3>1. rule' = rule /\ pc' \in {"sort", "default", "done"}
      BY <2>2 DEF Aggregate, Sort, DefaultResult
    <3>. QED
      BY <2>1, <3>1 DEF TableIInv, Waits
  <2>3. CASE SimpleResult
    BY <2>3, SimpleStep
  <2>4. CASE SortedRow
    BY <2>4, SortedStep
  <2>5. CASE NextRow
    BY <2>5, NextStep
  <2>6. CASE Cell
    BY <2>6, CellStep
  <2>7. CASE MatchingRow
    <3>1. ~IsSimple(r)
      BY <2>7 DEF MatchingRow, TableIInv
    <3>. QED
      BY <2>7, <3>1, FoundStep, ReachedStep
  <2>8. ~(Evaluate \/ ColumnValue \/ StoreValue \/ ConditionValue \/ CellValue
            \/ ChoiceValue \/ LoopCount)
    <3>1. ~Evaluate
      BY <2>1, WhereStepsAre
    <3>2. ~ColumnValue /\ ~StoreValue /\ ~ConditionValue /\ ~CellValue /\ ~ChoiceValue /\ ~LoopCount
      BY <2>1 DEF ColumnValue, StoreValue, ConditionValue, CellValue, ChoiceValue, LoopCount,
                  Got, Waits
    <3>. QED
      BY <3>1, <3>2
  <2>9. ~(Line \/ StartNode \/ EndNode \/ ExecNode \/ ReturnNode \/ ChoiceNode \/ LoopNode)
    BY <2>1 DEF Line, StartNode, EndNode, ExecNode, ReturnNode, ChoiceNode, LoopNode, Node
  <2>. QED
    BY <1>2, <2>2, <2>3, <2>4, <2>5, <2>6, <2>7, <2>8, <2>9 DEF RunNext, Interpret
<1>. QED
  BY <1>1, <1>2

(* For every table whose results are constants and which computes no       *)
(* condition, whatever its values, columns, cells and operators: the rows  *)
(* it returns are those that admit the values, in order, or the first of   *)
(* them with breakFlag, by each of the three searches (CMRTInterpreter).   *)
THEOREM TablesAnswer ==
  ASSUME NEW CONSTANT r, r.type = "TABLE", IsTable(r) => Tabulated(r)
  PROVE  RunSpec(r) => []TableAnswers
<1>1. r.type \in RuleTypes
  BY DEF RuleTypes
<1>2. RunSpec(r) => []RunIInv
  BY <1>1, RunIInvHolds
<1>3. CASE IsTable(r)
  <2>1. RunInit(r) => TableIInv(r)
    <3> SUFFICES ASSUME RunInit(r) PROVE TableIInv(r)
      OBVIOUS
    <3>1. rule = r /\ pc = "next" /\ node = 1 /\ rows = <<>>
      BY DEF RunInit
    <3>2. ByHalves(r)
      BY <3>1 DEF ByHalves
    <3>3. RowByRow(r)
      <4>1. Len(r.trows) \in Nat /\ DOMAIN r.trows = 1 .. Len(r.trows)
        BY <1>3, TableShape
      <4>2. rows = RowsUpto(r, node - 1)
        <5>1. node - 1 = 0
          BY <3>1
        <5>. QED
          BY <1>3, <3>1, <5>1, AllRows
      <4>3. \A n \in Admitted(r) : node <= n
        BY <3>1, <4>1 DEF Admitted
      <4>. QED
        BY <3>1, <4>1, <4>2, <4>3 DEF RowByRow
    <3>. QED
      BY <3>1, <3>2, <3>3 DEF TableIInv, Waits
  <2>2. RunIInv /\ TableIInv(r) /\ [RunNext]_vars => TableIInv(r)'
    BY <1>3, TableIInvInductive
  <2>3. TableIInv(r) => TableAnswers
    BY DEF TableIInv, TableAnswers
  <2>. QED
    BY <1>2, <2>1, <2>2, <2>3, PTL DEF RunSpec
<1>4. CASE ~IsTable(r)
  <2>1. RunInit(r) => rule = r
    BY DEF RunInit
  <2>2. RunIInv /\ rule = r /\ [RunNext]_vars => (rule = r)'
    <3> SUFFICES ASSUME RunIInv, rule = r, [RunNext]_vars PROVE rule' = r
      OBVIOUS
    <3>1. CASE UNCHANGED vars \/ Evaluate
      BY <3>1, WhereStepsAre DEF vars, runVars
    <3>2. CASE RunNext /\ ~Evaluate
      BY <3>2, ValuesAreOrderly, LinesAreOrderly, TablesAreOrderly, FlowsAreOrderly, TailIsOrderly
         DEF RunNext, Interpret, RunIInv, Orderly
    <3>. QED
      BY <3>1, <3>2
  <2>3. rule = r => TableAnswers
    BY <1>4 DEF TableAnswers
  <2>. QED
    BY <1>2, <2>1, <2>2, <2>3, PTL DEF RunSpec
<1>. QED
  BY <1>3, <1>4
=============================================================================
