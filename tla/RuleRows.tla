------------------------------ MODULE RuleRows ------------------------------
(***************************************************************************)
(* The rows a rule returns: how the values of a result's columns become    *)
(* rows (CMRCInterpreter::BuildResult, Runner/MRCRINTR.cpp) and what the   *)
(* rule's aggregation and sort order make of them (Runner/MRRUNNER.cpp).   *)
(*                                                                         *)
(* A row is a sequence of values, one for each type of retType. An         *)
(* aggregation is [Option |-> 0 none, 1 SUM, 2 DISTINCT, 3 MIN, 4 MAX,     *)
(* group |-> columns, nSort |-> columns, cOrder |-> "A" or "D" for each].  *)
(***************************************************************************)
EXTENDS Expression

\* convertValueToReturnType: a text is no number, and a rule without rows, which
\* is still a pointer, is nothing but TRUE.
ToReturnType(x, type) ==
  CASE x.t = type -> x
    [] type = "DOUBLE" -> IF x.t \in {"LONG", "BOOL"} THEN Double(x.v[1], 1) ELSE Initial(type)
    [] type = "LONG" -> CASE x.t = "DOUBLE" -> Long(Truncate(x))
                          [] x.t = "BOOL"   -> Long(x.v[1])
                          [] OTHER          -> Initial(type)
    [] type \in {"STRING", "LSTRING"} ->
         [t |-> type,
          v |-> CASE x.t \in {"STRING", "LSTRING"} ->
                       SubSeq(x.v, 1, Least(Len(x.v), STR_VALUE_SIZE))
                  [] x.t \in {"LONG", "DOUBLE", "BOOL"} -> FixedText(x)
                  [] OTHER -> <<>>]
    [] type = "BOOL" -> Bool(AnyBit(x))

\* A whole row of another rule, converted from the column at on.
RowToReturnType(row, types, at) ==
  [i \in 1 .. Len(row) |-> ToReturnType(row[i], types[at + i - 1])]

-----------------------------------------------------------------------------
\* A rule's result that is one column's expression: all rows of another rule, or
\* one column of all of them. The number of columns must agree.
getOtherRuleResult(x, types) ==
  LET r == RuleResults[x.v[1]]
      col == x.v[3]
  IN  IF col = 0 /\ Len(types) # Len(r.types) THEN <<<<Error>>>>
      ELSE [i \in DOMAIN r.rows |->
              IF col = 0 THEN RowToReturnType(r.rows[i], types, 1)
                         ELSE <<ToReturnType(r.rows[i][col], types[1])>>]

\* The columns that hold another rule with no or several rows, none picked out.
Manifold(vals) ==
  {i \in DOMAIN vals : /\ vals[i].t = "RULE"
                       /\ vals[i].v[2] = 0
                       /\ Len(RuleResults[vals[i].v[1]].rows) # 1}

\* AddRuleValue, or GetRuleValue, finds no row for the column.
NoSuchRow(x) ==
  /\ x.t = "RULE"
  /\ IF x.v[3] = 0 THEN OrFirst(x.v[2]) > Len(RuleResults[x.v[1]].rows)
                   ELSE GetRuleValue(x) = Error

\* What one column puts into the single row: a value, or all columns of another
\* rule's row (AddRuleValue; the row is never negative here, where the code
\* would write initial values to the start of the row it builds).
ColumnValues(x, types, at) ==
  IF x.t = "RULE" /\ x.v[3] = 0
    THEN RowToReturnType(RuleResults[x.v[1]].rows[OrFirst(x.v[2])], types, at)
    ELSE <<ToReturnType(Fetched(x), types[at])>>

SingleRow(vals, types) ==
  FoldLeft(LAMBDA row, x : row \o ColumnValues(x, types, Len(row) + 1), <<>>, vals)

\* ConstantPlusOtherRuleResult: the single row once for each row of the other
\* rule, of all its columns or of one. The code takes one from col for every
\* row, so the second row is read one column further left; col = 0 is the case
\* without it.
ConstantPlusOtherRuleResult(vals, types, row, k) ==
  LET x == vals[k]
      r == RuleResults[x.v[1]]
      width == IF x.v[3] = 0 THEN Len(r.types) ELSE 1
      Spread(cnt) ==
        [i \in DOMAIN r.rows |->
           SubSeq(row, 1, cnt)
             \o (IF x.v[3] = 0 THEN RowToReturnType(r.rows[i], types, cnt + 1)
                               ELSE <<r.rows[i][x.v[3] - (i - 1)]>>)
             \o SubSeq(row, cnt + width + 1, Len(types))]
  IN  Spread(Len(SingleRow(SubSeq(vals, 1, k - 1), types)))

\* A column that, standing alone, is not made a single row: an item, or another
\* rule with no row picked out.
IsList(x) == x.t = "GLOBAL" \/ (x.t = "RULE" /\ x.v[2] = 0)

\* BuildResult, after the values of the columns are there and each has a row.
RowsOf(vals, types) ==
  LET row == SingleRow(vals, types)
      one == CHOOSE k \in Manifold(vals) : TRUE
  IN  CASE Len(vals) = 1 /\ vals[1].t = "GLOBAL" -> getAllItemValues(vals[1], types[1])
        [] Len(vals) = 1 /\ vals[1].t = "RULE" /\ IsList(vals[1]) ->
             getOtherRuleResult(vals[1], types)
        [] OTHER -> IF Cardinality(Manifold(vals)) = 1
                      THEN ConstantPlusOtherRuleResult(vals, types, row, one)
                      ELSE <<row>>

-----------------------------------------------------------------------------
\* Column by column as the code compares rows, blanks included.
CellCmp(x, y) ==
  IF x.t \in {"STRING", "LSTRING"} THEN StrCmp(x.v, y.v) ELSE Compare(x, y)

\* The position in cols, 0 if there is none.
FirstDifference(row1, row2, cols) ==
  SelectInSeq(cols, LAMBDA c : CellCmp(row1[c], row2[c]) # 0)

\* 2 for less, 1 for greater, 0 for the same.
resultCompare(new, old, cols) ==
  LET i == FirstDifference(new, old, cols)
  IN  CASE i = 0 -> 0
        [] i # 0 -> IF CellCmp(new[cols[i]], old[cols[i]]) < 0 THEN 2 ELSE 1

\* Slip: a row that is the same comes later too.
sortCompare_Same(row, new, aggr) ==
  LET i == FirstDifference(row, new, aggr.nSort)
      c == CellCmp(row[aggr.nSort[i]], new[aggr.nSort[i]])
  IN  i = 0 \/ (IF aggr.cOrder[i] = "D" THEN c < 0 ELSE c > 0)

\* The new row goes before this row of the list.
sortCompare(row, new, aggr) ==
  LET i == FirstDifference(row, new, aggr.nSort)
      c == CellCmp(row[aggr.nSort[i]], new[aggr.nSort[i]])
  IN  i # 0 /\ (IF aggr.cOrder[i] = "D" THEN c < 0 ELSE c > 0)

\* Insertion before the first row that comes later.
Insert(list, row, aggr) ==
  LET i == SelectInSeq(list, LAMBDA r : sortCompare(r, row, aggr))
  IN  IF i = 0 THEN Append(list, row) ELSE InsertAt(list, i, row)

Sorting(rows, aggr) ==
  LET sorted[n \in 0 .. Len(rows)] ==
        IF n = 0 THEN <<>> ELSE Insert(sorted[n - 1], rows[n], aggr)
  IN  sorted[Len(rows)]

\* The columns outside the group are added up; texts stay those of the first row.
VerticalResultSum(row, new, group) ==
  [i \in DOMAIN row |->
     CASE i \in ToSet(group) -> row[i]
       [] i \notin ToSet(group) /\ row[i].t \in {"LONG", "DOUBLE"} -> CALC_PLUS(row[i], new[i])
       [] i \notin ToSet(group) /\ row[i].t = "BOOL" -> CALC_OR(row[i], new[i])
       [] OTHER -> row[i]]

\* Slip: the sum is a row of its own.
Merge_Added(list, row, group) ==
  LET i == SelectInSeq(list, LAMBDA r : resultCompare(row, r, group) = 0)
  IN  IF i = 0 THEN Append(list, row)
      ELSE Append(list, VerticalResultSum(list[i], row, group))

\* Each row is added to the first one of its group; with no group to all.
Merge(list, row, group) ==
  LET i == SelectInSeq(list, LAMBDA r : resultCompare(row, r, group) = 0)
  IN  IF i = 0 THEN Append(list, row)
      ELSE [list EXCEPT ![i] = VerticalResultSum(@, row, group)]

SumResult(rows, group) ==
  LET merged[n \in 0 .. Len(rows)] ==
        IF n = 0 THEN <<>> ELSE Merge(merged[n - 1], rows[n], group)
  IN  merged[Len(rows)]

\* The bytes of a value up to the first zero byte, lowest byte first: what
\* strcmp sees where it is handed a value of any type. A DOUBLE whose fraction
\* is short begins with a zero byte. (Of an LSTRING its address would count: there
\* is none in the rows of the runs.)
RawText(x) ==
  LET low == [i \in 1 .. 3 |-> (x.v[1] \div 256 ^ (i - 1)) % 256] \o <<0>>
  IN  CASE x.t = "LONG" -> SubSeq(low, 1, SelectInSeq(low, LAMBDA c : c = 0) - 1)
        [] x.t = "DOUBLE" -> IF x.v[2] \in {1, 2, 4, 8} THEN <<>> ELSE x.v
        [] OTHER -> x.v

\* Later rows whose first column reads the same are unlinked.
Unlink(list, row) ==
  IF \E i \in DOMAIN list : RawText(list[i][1]) = RawText(row[1])
    THEN list ELSE Append(list, row)

DistinctResult(rows) ==
  LET linked[n \in 0 .. Len(rows)] ==
        IF n = 0 THEN <<>> ELSE Unlink(linked[n - 1], rows[n])
  IN  linked[Len(rows)]

\* With no group the first nine columns count.
MinMaxColumns(rows, aggr) ==
  IF aggr.group # <<>> THEN aggr.group
  ELSE [i \in 1 .. (IF Len(rows[1]) > 9 THEN 9 ELSE Len(rows[1])) |-> i]

\* The first of the rows that are least or greatest.
Better(new, old, cols, option) ==
  resultCompare(new, old, cols) = (IF option = 3 THEN 2 ELSE 1)

MinMaxResult(rows, aggr) ==
  LET cols == MinMaxColumns(rows, aggr)
      best[n \in 1 .. Len(rows)] ==
        IF n = 1 THEN rows[1]
        ELSE IF Better(rows[n], best[n - 1], cols, aggr.Option) THEN rows[n] ELSE best[n - 1]
  IN  <<best[Len(rows)]>>

\* Only where there is more than one row.
EtcFunction(rows, aggr) ==
  CASE Len(rows) <= 1 \/ aggr.Option = 0 -> rows
    [] Len(rows) > 1 /\ aggr.Option = 1 -> SumResult(rows, aggr.group)
    [] Len(rows) > 1 /\ aggr.Option = 2 -> DistinctResult(rows)
    [] OTHER -> MinMaxResult(rows, aggr)
=============================================================================
