---------------------------- MODULE ListCompare -----------------------------
(***************************************************************************)
(* Comparisons with a list: IN, NIN, SUBSET, ARREQUAL and MATCH            *)
(* (CMRArrayFn, Runner/MRARRFN.cpp, as CMRExpression::Calc_Compare uses    *)
(* it).                                                                    *)
(*                                                                         *)
(* A list is [type, vals]. What stands after the operator is a rule or an  *)
(* item, or a list of constants; of ARREQUAL a constant may also be a      *)
(* choice of several, [t |-> "CHOICE", v |-> constants].                   *)
(***************************************************************************)
EXTENDS Operands

\* AddRuleList and AddItemList: a rule or an item with no row picked out stands
\* for the whole column.
WholeList(x) == [type |-> ColumnType(x), vals |-> Listed(x)]

\* What the operand on top stands for; AddValue for a single value.
SourceList(x) ==
  IF x.t \in {"RULE", "GLOBAL"} /\ x.v[2] = 0
    THEN WholeList(x)
    ELSE [type |-> Fetched(x).t, vals |-> <<Fetched(x)>>]

\* One value against one list element. The case of BOOL has no break and ends
\* in the default: two BOOLs are never the same. Blanks at the end are cut.
compareValues(x, y) ==
  CASE x.t = "STRING"           -> Trim(x.v) = Trim(y.v)
    [] x.t \in {"DOUBLE", "LONG"} -> x.v = y.v
    [] OTHER                    -> FALSE

\* Two lists of one type each.
isInclude(a, b) ==
  a.type = b.type /\ \E x \in ToSet(a.vals), y \in ToSet(b.vals) : compareValues(x, y)

isSubset(a, b) ==
  a.type = b.type /\ \A x \in ToSet(a.vals) : \E y \in ToSet(b.vals) : compareValues(x, y)

isEqualToEach(a, b) ==
  /\ a.type = b.type
  /\ Len(a.vals) = Len(b.vals)
  /\ \A i \in DOMAIN a.vals : compareValues(a.vals[i], b.vals[i])

-----------------------------------------------------------------------------
\* A pattern with wildcards, % or * for any text and _ or ? for any
\* character, against a text that is not empty. A run of wildcards with a % in
\* it counts as one %. The text between wildcards is searched from the left, the
\* last one to its last occurrence.
ANY == 900
ONE == 901

Occurrences(s, w, from) ==
  {i \in from .. Len(s) - Len(w) + 1 : SubSeq(s, i, i + Len(w) - 1) = w}

matchValues(s, pat) ==
  LET Wild(c) == c \in {ANY, ONE}
      NotWild(j) == SelectInSubSeq(pat, j, Len(pat), LAMBDA c : ~Wild(c))
      WildFrom(j) == SelectInSubSeq(pat, j, Len(pat), Wild)
      AtEnd(j) == j > Len(pat) \/ pat[j] = ANY
      m[i \in 1 .. Len(s) + 1, j \in 1 .. Len(pat) + 1] ==
        IF i > Len(s) THEN AtEnd(j)
        ELSE IF j > Len(pat) THEN FALSE
        ELSE CASE pat[j] = ONE -> m[i + 1, j + 1]
               [] ~Wild(pat[j]) -> s[i] = pat[j] /\ m[i + 1, j + 1]
               [] OTHER ->
                    LET b == NotWild(j)
                        e == IF WildFrom(b) = 0 THEN Len(pat) + 1 ELSE WildFrom(b)
                        w == SubSeq(pat, b, e - 1)
                        found == Occurrences(s, w, i)
                        first == CHOOSE k \in found : \A l \in found : k <= l
                        last == CHOOSE k \in found : \A l \in found : k >= l
                    IN  IF b = 0 THEN TRUE
                        ELSE IF found = {} THEN FALSE
                        ELSE IF e > Len(pat) THEN last + Len(w) > Len(s)
                        ELSE m[first + Len(w), e]
  IN  s # <<>> /\ m[1, 1]

isMatch(a, b) ==
  a.type = b.type /\ \E x \in ToSet(a.vals), y \in ToSet(b.vals) : matchValues(x.v, y.v)

-----------------------------------------------------------------------------
\* The pairs of a value and a constant are tried one after the other until two
\* meet; a pair that clashes before is an error.
TryPairs(a, list, Meet(_, _), Clash(_, _)) ==
  LET Pairs == (1 .. Len(a.vals)) \X (1 .. Len(list))
      Before(p, q) == p[1] < q[1] \/ (p[1] = q[1] /\ p[2] < q[2])
      Meets(p) == Meet(a.vals[p[1]], list[p[2]])
  IN  IF \E p \in Pairs : /\ Clash(a.vals[p[1]], list[p[2]])
                          /\ \A q \in Pairs : Before(q, p) => ~Meets(q)
        THEN Error
        ELSE Bool(\E p \in Pairs : Meets(p))

\* A LONG is made DOUBLE for a DOUBLE.
Widened(x, y) ==
  IF x.t = "DOUBLE" /\ y.t = "LONG" THEN [t |-> "DOUBLE", v |-> Fraction(y)] ELSE y

\* A STRING is read as a number for a number.
ListValue(x, y) ==
  CASE x.t = "DOUBLE" /\ y.t = "STRING" -> Double(Number(y.v), 1)
    [] x.t = "LONG" /\ y.t = "STRING"   -> Long(Number(y.v))
    [] OTHER -> Widened(x, y)

isIncludeList(a, list) ==
  TryPairs(a, list, LAMBDA x, y : compareValues(x, ListValue(x, y)),
                    LAMBDA x, y : y.t # "STRING" /\ Widened(x, y).t # x.t)

isMatchList(a, list) ==
  TryPairs(a, list, LAMBDA x, y : matchValues(x.v, y.v),
                    LAMBDA x, y : Widened(x, y).t # x.t)

\* An empty list is no subset of constants. A clash counts if no constant before
\* it is the same and all values before have been found.
isSubsetList(a, list) ==
  LET n == Len(a.vals)
      Found(i) == SelectInSeq(list, LAMBDA y : compareValues(a.vals[i], y))
      Clash(i) == SelectInSeq(list, LAMBDA y : y.t # a.type)
      Clashes(i) == Clash(i) # 0 /\ (Found(i) = 0 \/ Clash(i) < Found(i))
  IN  IF \E i \in 1 .. n : Clashes(i) /\ \A k \in 1 .. i - 1 : Found(k) # 0
        THEN Error
        ELSE Bool(n > 0 /\ \A i \in 1 .. n : Found(i) # 0)

Alternatives(y) == IF y.t = "CHOICE" THEN y.v ELSE <<y>>

\* Position by position; a constant that is no text or number (getListValue) is
\* an error where it is reached.
isEqualToList(a, list) ==
  LET n == Least(Len(a.vals), Len(list))
      Found(i) == SelectInSeq(Alternatives(list[i]), LAMBDA y : compareValues(a.vals[i], y))
      Odd(i) == SelectInSeq(Alternatives(list[i]), LAMBDA y : y.t \notin {"STRING", "DOUBLE", "LONG"})
      Clashes(i) == Odd(i) # 0 /\ (Found(i) = 0 \/ Odd(i) < Found(i))
  IN  IF \E i \in 1 .. n : Clashes(i) /\ \A k \in 1 .. i - 1 : Found(k) # 0
        THEN Error
        ELSE Bool(Len(a.vals) = Len(list) /\ \A i \in 1 .. n : Found(i) # 0)

-----------------------------------------------------------------------------
ListOperators == {"IN", "NIN", "SUBSET", "ARREQUAL", "MATCH"}

AgainstList(k, a, b) ==
  CASE k = "IN"       -> Bool(isInclude(a, b))
    [] k = "NIN"      -> Bool(~isInclude(a, b))
    [] k = "SUBSET"   -> Bool(isSubset(a, b))
    [] k = "ARREQUAL" -> Bool(isEqualToEach(a, b))
    [] k = "MATCH"    -> Bool(isMatch(a, b))

AgainstConstants(k, a, list) ==
  CASE k = "IN"       -> isIncludeList(a, list)
    [] k = "NIN"      -> IF isIncludeList(a, list) = Error THEN Error
                         ELSE CALC_NOT(isIncludeList(a, list))
    [] k = "SUBSET"   -> isSubsetList(a, list)
    [] k = "ARREQUAL" -> isEqualToList(a, list)
    [] k = "MATCH"    -> isMatchList(a, list)

\* The value x against what stands after the operator; MATCH is for texts.
Compared(k, x, args) ==
  LET a == SourceList(x)
  IN  IF a.type = "ERROR" THEN Error
      ELSE IF args[1].t \in {"RULE", "GLOBAL"} THEN AgainstList(k, a, WholeList(args[1]))
      ELSE AgainstConstants(k, a, args)
=============================================================================
