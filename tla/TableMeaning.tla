---------------------------- MODULE TableMeaning ----------------------------
(***************************************************************************)
(* What a table rule means, apart from how its rows are searched: the rows *)
(* whose cells admit the values. A cell is a set of values: one, a range,  *)
(* or those that an operator picks out; which value a text stands for      *)
(* depends on what it is compared with.                                    *)
(***************************************************************************)
EXTENDS RuleRun

Numeric == {"LONG", "DOUBLE"}
Textual == {"STRING", "LSTRING"}

\* The value that a text stands for next to x.
ReadAs(text, x) ==
  CASE x.t = "LONG"   -> Long(Number(text))
    [] x.t = "DOUBLE" -> Double(Number(text), 1)
    [] OTHER          -> [t |-> x.t, v |-> text]

\* No data: nothing, zero or the word null.
Empty(x) == IF x.t \in Numeric THEN x.v[1] = 0
            ELSE x.v \in {<<>>, Text(Long(0)), FixedText(Double(0, 1)), NULLTEXT}

OneOf(x, texts) == \E i \in DOMAIN texts : Same(x, ReadAs(texts[i], x))

\* The operator picks the value out.
Picks(x, optr, texts) ==
  LET lo == ReadAs(texts[1], x)
      hi == ReadAs(texts[2], x)
  IN  CASE optr = 0 -> TRUE
        [] optr = 1 -> Same(x, lo)         [] optr = 2 -> ~Same(x, lo)
        [] optr = 3 -> Below(x, lo)        [] optr = 4 -> ~Below(lo, x)
        [] optr = 5 -> Below(lo, x)        [] optr = 6 -> ~Below(x, lo)
        [] optr = 7 -> ~Below(x, lo) /\ ~Below(hi, x)
        [] optr = 8 -> ~Below(x, lo) /\ Below(x, hi)
        [] optr = 9 -> OneOf(x, texts)    [] optr = 10 -> ~OneOf(x, texts)
        [] optr = 12 -> Below(lo, x) /\ ~Below(hi, x)
        [] optr = 13 -> Below(lo, x) /\ Below(x, hi)
        [] optr = 14 -> ~Empty(x)          [] optr = 15 -> Empty(x)

\* The cell admits the value; a condition is there as a constant.
Admits(x, column, cell) ==
  LET lo == ReadAs(cell.vMin, x)
      hi == ReadAs(cell.vMax, x)
  IN  CASE ~column.gbn -> TRUE
        [] column.gbn /\ column.pType \in {"CONST", "RONLY"} -> cell.vMin = <<>> \/ Same(x, lo)
        [] column.gbn /\ column.pType = "RANGE" ->
             /\ cell.vMin # <<>> => IF column.range = 1 THEN Below(lo, x) ELSE ~Below(x, lo)
             /\ cell.vMax # <<>> => IF column.range = 2 THEN Below(x, hi) ELSE ~Below(hi, x)
        [] column.gbn /\ column.pType = "COND" ->
             cell.cond = <<>> \/ cell.cond = <<Value(Bool(TRUE))>>
        [] column.gbn /\ column.pType = "OPTR" -> Picks(x, cell.optr, cell.sVal)

RowAdmits(r, row) ==
  \A k \in DOMAIN r.tcols : Admits(r.value[k], r.tcols[k], row.cells[k])

\* The rows of a result; one that is computed is a number to which 0 may be added.
RowResult(row) ==
  IF row.resGbn = 0 THEN << [i \in DOMAIN row.result |-> row.result[i][1].args[1]] >>
                    ELSE row.result

\* Of all rows that admit the values and have a result, or of the first one.
Admitted(r) == {n \in DOMAIN r.trows : RowAdmits(r, r.trows[n]) /\ r.trows[n].result # <<>>}
RowsTaken(r) == {n \in Admitted(r) : r.breakFlag => \A m \in Admitted(r) : n <= m}

TableRows(r) ==
  FlattenSeq([n \in DOMAIN r.trows |-> IF n \in RowsTaken(r) THEN RowResult(r.trows[n]) ELSE <<>>])

-----------------------------------------------------------------------------
(* The tables this is said of                                              *)

\* A value in the list of an operator is written as the value itself would be.
Texts(x, cell) ==
  /\ cell.optr \in 1 .. 6 => Len(cell.sVal) >= 1
  /\ cell.optr \in {7, 8, 12, 13} => Len(cell.sVal) >= 2
  /\ cell.sVal \in Seq(ToSet(cell.sVal))
  /\ \A text \in ToSet(cell.sVal) :
       /\ text \in Seq(Int)
       /\ cell.optr \in {9, 10} /\ x.t # "DOUBLE" => text = FixedText(ReadAs(text, x))

\* A BOOL is the same as everything and is left out, and so are LIKE, NOT LIKE
\* and the operator that calls a rule.
IsCell(x, column, cell) ==
  column.gbn =>
    /\ column.pType \in {"CONST", "RONLY", "RANGE", "OPTR", "COND"}
    /\ column.pType # "COND" => \E type \in Numeric \cup Textual : IsValue(x, type)
    /\ column.pType = "RANGE" => column.range \in 0 .. 2
    /\ column.pType = "COND" => cell.vMin = <<>>
    /\ column.pType = "OPTR" =>
         /\ cell.optr \in (0 .. 10) \cup (12 .. 15)
         /\ cell.optr \in {12, 13} => x.t \in Numeric
         /\ cell.optr \in {14, 15} => x.t # "DOUBLE" /\ (x.t = "LONG" => CmpVal(x) # NULLTEXT)
         /\ Texts(x, cell)
    /\ column.pType \notin {"COND", "OPTR"} => {cell.vMin, cell.vMax} \subseteq Seq(Int)

\* All values of the cell a are below those of b.
CellBelow(x, column, a, b) ==
  LET end == IF column.pType = "RANGE" THEN a.vMax ELSE a.vMin
  IN  /\ column.gbn
      /\ end # <<>> /\ b.vMin # <<>>
      /\ IF column.pType = "RANGE" /\ column.range # 0
           THEN ~Below(ReadAs(b.vMin, x), ReadAs(end, x))
           ELSE Below(ReadAs(end, x), ReadAs(b.vMin, x))

\* The rows ascend: of two, the first column where they differ does, and no
\* range is empty.
RowsAscend(r) ==
  /\ \A i, j \in DOMAIN r.trows : i < j =>
       \E k \in DOMAIN r.tcols :
         /\ CellBelow(r.value[k], r.tcols[k], r.trows[i].cells[k], r.trows[j].cells[k])
         /\ \A l \in 1 .. k - 1 : r.trows[i].cells[l] = r.trows[j].cells[l]
  /\ \A i \in DOMAIN r.trows, k \in DOMAIN r.tcols :
       LET cell == r.trows[i].cells[k]
           x == r.value[k]
       IN  r.tcols[k].gbn =>
             /\ r.tcols[k].pType \in {"CONST", "RONLY", "RANGE"}
             /\ r.tcols[k].pType = "RANGE" /\ cell.vMin # <<>> /\ cell.vMax # <<>> =>
                  ~Below(ReadAs(cell.vMax, x), ReadAs(cell.vMin, x))

\* A number, or one to which 0 is added.
IsNumber(list) ==
  /\ list # <<>> /\ list[1].k = "value" /\ list[1].args[1].t = "LONG"
  /\ list \in {<<list[1]>>, <<list[1], Token("+"), Value(Long(0))>>}

\* SimpleResult compares every cell, empty ones too.
IsTable(r) ==
  /\ r.type = "TABLE"
  /\ r.tcols \in Seq(ToSet(r.tcols)) /\ r.trows \in Seq(ToSet(r.trows))
  /\ \A n \in DOMAIN r.trows :
       /\ \A k \in DOMAIN r.tcols : IsCell(r.value[k], r.tcols[k], r.trows[n].cells[k])
       /\ r.trows[n].result \in Seq(ToSet(r.trows[n].result))
       /\ r.trows[n].resGbn = 0 =>
            \A c \in DOMAIN r.trows[n].result : IsNumber(r.trows[n].result[c]) /\ r.retType[c] = "LONG"
  /\ r.sorted => IF r.tcols = <<>> THEN \A n \in DOMAIN r.trows : r.trows[n].result # <<>>
                                  ELSE RowsAscend(r)
  /\ Len(r.tcols) = 1 /\ ~r.breakFlag /\ r.tcols[1].pType = "CONST" =>
       \A n \in DOMAIN r.trows :
         r.tcols[1].gbn /\ r.trows[n].cells[1].vMin # <<>> /\ r.trows[n].resGbn # 0

\* A table returns the rows that admit its values, in order, or the first of them
\* with breakFlag, whichever of the three searches it takes (CMRTInterpreter).
TableAnswers ==
  pc = "aggregate" /\ IsTable(rule) => rows = TableRows(rule)
=============================================================================
