------------------------------ MODULE RuleLoad ------------------------------
(***************************************************************************)
(* CMRLoadData (Debug/BRMLoad.cpp, Runner/MRLODDT.cpp): the parsed texts   *)
(* of a rule become the lines, rows and nodes that RuleRun interprets.     *)
(*                                                                         *)
(* RuleRun describes the tokens as the interpreters read them; Ready gives *)
(* them that form: an argument is the value of one operand, and so is the  *)
(* row of a rule or an item. Loading yields a set, empty if it fails.      *)
(***************************************************************************)
EXTENDS RuleText, RuleRun

RowOf(idx) == IF idx = <<>> THEN 0 ELSE idx[1].x.v[1]
RuleValue(tok) == [t |-> "RULE", v |-> <<tok.x.v[1], RowOf(tok.idx), tok.x.v[2]>>]

\* 2|1 stands for any of the two.
Argument(list) ==
  LET values == SelectSeq(list, LAMBDA tok : tok.k = "value")
      tok == list[1]
  IN  CASE Len(list) > 1 -> [t |-> "CHOICE", v |-> [i \in DOMAIN values |-> values[i].x]]
        [] Len(list) = 1 /\ tok.k = "rule" -> RuleValue(tok)
        [] Len(list) = 1 /\ tok.k = "item" -> getGlobalItemValue(tok.x.v[1], RowOf(tok.idx))
        [] OTHER -> tok.x

Ready(list) ==
  LET Of(tok) ==
        CASE tok.k \in {"value", "index"} -> [k |-> tok.k, args |-> <<tok.x>>]
          [] tok.k = "rule" -> Value(RuleValue(tok))
          [] tok.k = "item" -> [k |-> "item", args |-> <<tok.x, Long(RowOf(tok.idx))>>]
          [] OTHER -> [k |-> tok.k, args |-> [i \in DOMAIN tok.args |-> Argument(tok.args[i])]]
  IN  [i \in DOMAIN list |-> Of(list[i])]

\* A statement that keeps a value: its name, the value and the index.
ReadyStatement(stmt) ==
  LET first == stmt[1][1]
      name == <<[k |-> first.k, args |-> <<Argument(first.args[1])>>]>>
      rest == Tail(first.args)
  IN  IF stmt # <<>> /\ first.k \in StoreUpdates
        THEN <<name>> \o [i \in DOMAIN rest |-> Ready(rest[i])]
        ELSE [i \in DOMAIN stmt |-> Ready(stmt[i])]

-----------------------------------------------------------------------------
\* getResulRecType: 0 for a statement to compute, 1 for constants, 2 for a list of
\* constants in parentheses, 3 for a list of lists, -1 for an error. For a list
\* only the first column is looked at.
getResulRecType(stmt) ==
  LET Constant(list) == Len(list) = 1 /\ list[1].k = "value"
      other == SelectInSeq(stmt, LAMBDA list : ~Constant(list))
      rest == Tail(stmt[1])
      Listlike(tok) == /\ tok.k \in {"value", ",", "(", ")"}
                       /\ tok.args = <<>> /\ tok.idx = <<>>
      left == Cardinality({i \in DOMAIN rest : rest[i].k = "("})
      right == Cardinality({i \in 1 .. Len(rest) - 1 : rest[i].k = ")"})
  IN  CASE other = 0 -> 1
        [] other > 0 /\ stmt[other] = <<>> -> -1
        [] OTHER -> CASE stmt[1][1].k # "(" -> 0
                      [] \E tok \in ToSet(rest) : ~Listlike(tok) -> 0
                      [] left # right -> -1
                      [] OTHER -> IF left = 0 THEN 2 ELSE 3

\* A constant in a column of this type: what is no number reads as 0. A column of
\* texts holds texts.
setResultValue(type, x) ==
  CASE type = "DOUBLE" -> IF x.t \in {"LONG", "DOUBLE"} THEN FUNC_TODOUBLE(x) ELSE Double(0, 1)
    [] type = "LONG"   -> IF x.t \in {"LONG", "DOUBLE"} THEN FUNC_TONUMBER(x) ELSE Long(0)
    [] type = "BOOL"   -> Bool(AnyBit(x))
    [] type = "STRING" -> String(SubSeq(x.v, 1, Least(Len(x.v), STR_VALUE_SIZE)))
    [] type = "LSTRING" -> [x EXCEPT !.t = "LSTRING"]

buildResultSingleRec(stmt, types) ==
  <<[i \in DOMAIN types |-> setResultValue(types[i], stmt[i][1].x)]>>

\* ( 1 , 2 , 3 ) is a row for each value, for a rule of one column.
buildResultArrayRec(stmt, types) ==
  LET list == stmt[1]
      n == (Len(list) - 1) \div 2
      wellFormed == /\ Len(types) = 1
                    /\ Len(list) = 2 * n + 1
                    /\ list[Len(list)].k = ")"
                    /\ \A i \in 1 .. n : list[2 * i].k = "value"
                    /\ \A i \in 1 .. n - 1 : list[2 * i + 1].k = ","
  IN  IF wellFormed THEN {[i \in 1 .. n |-> <<setResultValue(types[1], list[2 * i].x)>>]} ELSE {}

\* buildResultRec: lists of lists are not built.
buildResultRec(stmt, types) ==
  LET mode == getResulRecType(stmt)
  IN  CASE mode = 0 -> {[gbn |-> 0, result |-> ReadyStatement(stmt)]}
        [] mode = 1 -> {[gbn |-> 1, result |-> buildResultSingleRec(stmt, types)]}
        [] mode = 2 -> {[gbn |-> 2, result |-> list] : list \in buildResultArrayRec(stmt, types)}
        [] OTHER -> {}

\* A result that may be missing, of a line or of a row (buildTRuleResultRec).
loadResult(text, types) ==
  UNION {IF stmt = <<>> THEN {[gbn |-> 0, result |-> <<>>]} ELSE buildResultRec(stmt, types) :
           stmt \in ParseResult(text)}

\* The result in place of no rows: constants only.
buildDefaultResult(text, types) ==
  IF text = <<>> THEN {<<>>}
  ELSE {built.result : built \in {b \in loadResult(text, types) : b.gbn = 1}}

-----------------------------------------------------------------------------
\* The lists with one member of each of the sets, in their order.
OneOfEach(sets) ==
  FoldLeft(LAMBDA lists, set : {Append(list, x) : list \in lists, x \in set}, {<<>>}, sets)

\* A line is [result |-> text, cond |-> text].
loadConditionalRule(texts, types) ==
  LET Line1(t) == {[cond |-> Ready(cond), resGbn |-> built.gbn, result |-> built.result] :
                     built \in loadResult(t.result, types), cond \in ParseExpression(t.cond)}
  IN  OneOfEach([i \in DOMAIN texts |-> Line1(texts[i])])

\* parseTRuleValue: an operator compares with one value, a range has two.
parseTRuleValue(values, optr) ==
  CASE optr < 7 -> Len(values) = 1
    [] optr \in {7, 8} -> Len(values) = 2
    [] OTHER -> Len(values) > 0

\* A cell as TableCells describes it, but for the text of its condition; which of
\* the fields counts is the column's type. Operator 0 has no values.
loadTableRuleColData(column, cell) ==
  CASE column.pType = "OPTR" ->
         IF cell.optr = 0 \/ parseTRuleValue(cell.sVal, cell.optr)
           THEN {[cell EXCEPT !.cond = <<>>]} ELSE {}
    [] column.pType = "COND" -> {[cell EXCEPT !.cond = Ready(list)] : list \in ParseExpression(cell.cond)}
    [] OTHER -> {cell}

\* A row is [result |-> text, cells |-> cells].
loadTableRule(tcols, texts, types) ==
  LET Cells(t) == OneOfEach([i \in DOMAIN tcols |-> loadTableRuleColData(tcols[i], t.cells[i])])
      Row1(t) == {[cells |-> cells, resGbn |-> built.gbn, result |-> built.result] :
                    built \in loadResult(t.result, types), cells \in Cells(t)}
  IN  OneOfEach([i \in DOMAIN texts |-> Row1(texts[i])])

\* A node is [pType, text, sw]; a constant result is one row. The loop's count is
\* the first expression of its text.
loadFlowRule(texts, types) ==
  LET Of(t, gbn, exp) == [pType |-> t.pType, dGbn |-> gbn, exp |-> exp, sw |-> t.sw]
      Node1(t) ==
        CASE t.pType \in {"IF", "CASE"} -> {Of(t, 0, Ready(list)) : list \in ParseExpression(t.text)}
          [] t.pType = "RET" -> {Of(t, built.gbn, built.result) :
                                   built \in {b \in loadResult(t.text, types) : b.gbn < 2}}
          [] t.pType = "LOOP" -> {Of(t, 0, Ready(stmt[1])) : stmt \in ParseResult(t.text)}
          [] OTHER -> {Of(t, 0, ReadyStatement(stmt)) : stmt \in ParseResult(t.text)}
  IN  OneOfEach([i \in DOMAIN texts |-> Node1(texts[i])])
=============================================================================
