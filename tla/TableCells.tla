----------------------------- MODULE TableCells -----------------------------
(***************************************************************************)
(* How a table rule compares its values with the cells of a row, and how   *)
(* it finds a row of a sorted table (CMRTInterpreter,                      *)
(* Runner/MRTRINTR.cpp).                                                   *)
(*                                                                         *)
(* A column is [gbn |-> FALSE where no row of the column has a value,      *)
(* pType, range |-> 0 both ends, 1 without the minimum, 2 without the      *)
(* maximum]. A cell is [vMin |-> text, vMax |-> text, optr |-> operator,   *)
(* sVal |-> texts, cond |-> token list]; an empty text, no operator (0)    *)
(* and an empty token list stand for anything.                             *)
(***************************************************************************)
EXTENDS RuleRows

\* A text is compared as text with a text, as a number with a number; a BOOL is
\* the same as everything.
CompareValue(x, text) ==
  CASE x.t \in {"STRING", "LSTRING"} -> StrCmp(x.v, text)
    [] x.t = "DOUBLE" -> Compare(x, Double(Number(text), 1))
    [] x.t = "LONG"   -> NumCmp(x.v[1], Number(text))
    [] OTHER          -> 0

\* LIKE compares as MATCH does.
Calc_Match(s, pat) == matchValues(s, pat)

\* cmpVal: the value as text; a BOOL has none.
CmpVal(x) == IF x.t = "BOOL" THEN <<>> ELSE FixedText(x)

\* Nothing, zero or the word null.
NULLTEXT == <<902>>
NoData(x) == CmpVal(x) \in {<<>>, Text(Long(0)), FixedText(Double(0, 1)), NULLTEXT}

\* CalcOperatorRule for all operators but the one that calls a rule (16); of
\* several patterns after NOT LIKE one that does not match is enough. 12 and 13,
\* the ranges without their minimum, ask for a comparison that is exactly 1,
\* which strcmp need not return: here they have numbers.
CalcOperatorRule(x, cell) ==
  LET v1 == CompareValue(x, cell.sVal[1])
      v2 == CompareValue(x, cell.sVal[2])
      same(text) == IF x.t = "DOUBLE" THEN CompareValue(x, text) = 0 ELSE CmpVal(x) = text
      in == \E i \in DOMAIN cell.sVal : same(cell.sVal[i])
  IN  CASE cell.optr = 1 -> v1 = 0     [] cell.optr = 2 -> v1 # 0
        [] cell.optr = 3 -> v1 < 0     [] cell.optr = 4 -> v1 <= 0
        [] cell.optr = 5 -> v1 > 0     [] cell.optr = 6 -> v1 >= 0
        [] cell.optr = 7 -> v1 >= 0 /\ v2 <= 0
        [] cell.optr = 8 -> v1 >= 0 /\ v2 < 0
        [] cell.optr = 9 -> in         [] cell.optr = 10 -> ~in
        [] cell.optr = 11 -> \E i \in DOMAIN cell.sVal : Calc_Match(x.v, cell.sVal[i])
        [] cell.optr = 17 -> \E i \in DOMAIN cell.sVal : ~Calc_Match(x.v, cell.sVal[i])
        [] cell.optr = 12 -> v1 > 0 /\ v2 <= 0
        [] cell.optr = 13 -> v1 > 0 /\ v2 < 0
        [] cell.optr = 14 -> ~NoData(x)
        [] cell.optr = 15 -> NoData(x)

\* Where the value lies of the cell: before it, in it, or after it.
CellOrder(x, column, cell) ==
  LET min == CompareValue(x, cell.vMin)
      max == CompareValue(x, cell.vMax)
      before == cell.vMin # <<>> /\ (min < 0 \/ (min = 0 /\ column.range = 1))
      behind == cell.vMax # <<>> /\ (max > 0 \/ (max = 0 /\ column.range = 2))
  IN  CASE column.pType = "RANGE" -> IF before THEN -1 ELSE IF behind THEN 1 ELSE 0
        [] column.pType # "RANGE" -> IF cell.vMin # <<>> THEN min ELSE 0

\* Slip: a value below the cell is in it.
CellMatches_Below(x, column, cell) ==
  CASE ~column.gbn -> TRUE
    [] column.gbn /\ column.pType = "OPTR" -> cell.optr = 0 \/ CalcOperatorRule(x, cell)
    [] OTHER -> CellOrder(x, column, cell) <= 0

\* The test of one cell in getMatchingIdxFromSequencial; a condition is computed
\* by its own expression.
CellMatches(x, column, cell) ==
  CASE ~column.gbn -> TRUE
    [] column.gbn /\ column.pType = "OPTR" -> cell.optr = 0 \/ CalcOperatorRule(x, cell)
    [] OTHER -> CellOrder(x, column, cell) = 0

\* LIKE and NOT LIKE take texts only.
CellRaises(x, column, cell) ==
  column.gbn /\ column.pType = "OPTR" /\ cell.optr \in {11, 17} /\ x.t # "STRING"

\* The same for the columns of a row, the first where it is not in the cell.
RowOrder(x, tcols, row) ==
  LET order == [k \in DOMAIN tcols |->
                  IF tcols[k].gbn THEN CellOrder(x[k], tcols[k], row.cells[k]) ELSE 0]
      First(i) == IF i = 0 THEN 0 ELSE order[i]
  IN  First(SelectInSeq(order, LAMBDA c : c # 0))

\* One turn of the search: what it leaves of the rows w.first .. w.last, whose
\* order is c; a row that is found is left alone.
Halved(c, w) ==
  LET mid == (w.first + w.last) \div 2
  IN  CASE w.first > w.last -> w
        [] w.first <= w.last /\ c[mid] = 0 -> [first |-> mid, last |-> mid]
        [] w.first <= w.last /\ c[mid] < 0 -> [first |-> w.first, last |-> mid - 1]
        [] w.first <= w.last /\ c[mid] > 0 -> [first |-> mid + 1, last |-> w.last]

\* getMatchingIdxFromSorted: the row, or 0; of n rows none is left after n turns.
MatchingRowOfSorted(x, tcols, trows) ==
  LET n == Len(trows)
      c == [i \in 1 .. n |-> RowOrder(x, tcols, trows[i])]
      left[turn \in 0 .. n] ==
        IF turn = 0 THEN [first |-> 1, last |-> n] ELSE Halved(c, left[turn - 1])
  IN  IF left[n].first > left[n].last THEN 0 ELSE left[n].first

\* SimpleResult: the rows of a table of one constant column. The test for an
\* empty cell there tests an address, which is never null: an empty cell is
\* compared like any other.
SimpleMatches(x, row) == CompareValue(x, row.cells[1].vMin) = 0
=============================================================================
