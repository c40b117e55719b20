------------------------------ MODULE RuleRun -------------------------------
(***************************************************************************)
(* CMRRunner::MainProcess (Runner/MRRUNNER.cpp): one run of a rule. The    *)
(* rule is interpreted, by conditions (MRCRINTR.cpp), as a table           *)
(* (MRTRINTR.cpp) or as a flow of nodes (MRFRINTR.cpp); then its rows are  *)
(* aggregated and sorted, and a default stands in for no rows. Expressions *)
(* are computed token by token (Expression).                               *)
(*                                                                         *)
(* A rule is a record: type, retType, breakFlag, aggr, dftResult and       *)
(* CONDITION: lines, each [cond, resGbn, result]; TABLE: tcols, trows,     *)
(* each [cells, resGbn, result], sorted, and value, what the columns are   *)
(* compared with (BuildCompareValues); FLOW: nodes, each [pType, dGbn,     *)
(* exp, sw], sw a list of [caseExp, Link]. A result is a list of rows if   *)
(* it is constant (resGbn, dGbn not 0), and a statement otherwise: a list  *)
(* of token lists, one for each column. A statement that only does         *)
(* something begins with the list of one token that names it: CONTINUE,    *)
(* BREAK and EXIT; DISPLAY with its arguments; SETVAL, ADDVAL, INCVAL,     *)
(* PUSHVAL and CLRVAL with the name of the kept value, the next list being *)
(* the value, and a third one of SETVAL its index; RCLEAR and EXEC are in  *)
(* RuleCalls.                                                              *)
(***************************************************************************)
EXTENDS TableCells

VARIABLES
  rule,       \* m_pRuleNode
  pc,         \* what comes next, or which value is waited for
  node,       \* the line, row or node at hand
  col,        \* the column of the statement or of the table at hand
  vals,       \* the values of the statement's columns so far
  rows,       \* m_pTotalResult, then m_pResultList
  m_Loop,     \* the flow's loops by index: how often, -1 when not running
  m_useNode   \* and the node that runs them

runVars == <<rule, pc, node, col, vals, rows, m_Loop, m_useNode>>
vars == <<exprVars, m_pGVList, m_IndexVal, runVars>>

Indexes == 1 .. 3

\* What a caller does with no value, a Boolean, a number: the bytes of the value
\* decide, a rule without rows is true.
Holds(x) == AnyBit(Fetched(x))

Raised(x) == x = Error \/ Fetched(x) = Error
Got(state) == pc = state /\ ~Running

Fail ==
  /\ pc' = "failed"
  /\ UNCHANGED <<exprVars, m_pGVList, m_IndexVal, rule, node, col, vals, rows, m_Loop, m_useNode>>

Compute(list, state) ==
  /\ CalcExpression(list)
  /\ pc' = state

GoTo(state, n) ==
  /\ pc' = state
  /\ node' = n
  /\ UNCHANGED exprVars

\* The flow's node: 0 ends it, a number beyond the last one is an error.
FlowState(n) ==
  CASE n = 0 -> "aggregate"
    [] n > Len(rule.nodes) -> "failed"
    [] OTHER -> "next"

-----------------------------------------------------------------------------
RunInit(pRuleNode) ==
  /\ rule = pRuleNode
  /\ pc = "next"
  /\ node = 1
  /\ col = 1
  /\ vals = <<>>
  /\ rows = <<>>
  /\ m_Loop = [i \in Indexes |-> -1]
  /\ m_useNode = [i \in Indexes |-> 0]
  /\ m_IndexVal = [i \in Indexes |-> -1]
  /\ m_pGVList = NoGlobals
  /\ toks = <<>>
  /\ p = 1
  /\ opndStack = <<>>
  /\ optrStack = <<>>
  /\ m_LeftPcnt = 0
  /\ expResult = None

\* One step of CalcExpression.
Evaluate ==
  /\ ExprNext
  /\ UNCHANGED <<m_pGVList, m_IndexVal, runVars>>

-----------------------------------------------------------------------------
\* After a line, row or node: brk is m_bBreak (0 none, 1 CONTINUE, 2 BREAK, 3 a
\* function, 4 EXIT), new what BuildResult has left.
AfterLine(brk, new) ==
  /\ rows' = rows \o new
  /\ IF brk \in {1, 2, 4} \/ (brk = 0 /\ rule.breakFlag)
       THEN GoTo("aggregate", node)
       ELSE GoTo("next", node + 1)

\* OneResult: EXIT alone leaves a table early, whatever else the row does.
AfterRow(brk, new) ==
  /\ rows' = rows \o new
  /\ IF brk = 4 \/ rule.breakFlag THEN GoTo("aggregate", node)
                                  ELSE GoTo("next", node + 1)

\* The rows of an EXEC node are dropped.
AfterNode(brk, new) ==
  LET this == rule.nodes[node]
      link == IF this.sw = <<>> THEN 0 ELSE this.sw[1].Link
  IN
  /\ rows' = IF this.pType = "RET" THEN rows \o new ELSE rows
  /\ IF brk = 4 THEN GoTo("aggregate", node) ELSE GoTo(FlowState(link), link)

After(brk, new) ==
  CASE rule.type = "CONDITION" -> AfterLine(brk, new)
    [] rule.type = "TABLE"     -> AfterRow(brk, new)
    [] rule.type = "FLOW"      -> AfterNode(brk, new)

\* What CalcResultExpress returns for a statement.
StoreUpdates == {"SETVAL", "ADDVAL", "INCVAL", "PUSHVAL", "CLRVAL"}

Break(stmt) ==
  CASE stmt = <<>> -> 0
    [] OTHER -> LET k == stmt[1][1].k
                IN  CASE k = "CONTINUE" -> 1
                      [] k = "BREAK" -> 2
                      [] k \in StoreUpdates \cup {"DISPLAY"} -> 3
                      [] k = "EXIT" -> 4
                      [] OTHER -> 0

\* BuildResult up to the first value that is computed: a column's, or the one
\* to keep under a name.
BuildResult(stmt) ==
  LET k == stmt[1][1].k
      args == stmt[1][1].args
      Nothing == UNCHANGED <<m_pGVList, col, vals>>
  IN
  /\ \/ /\ stmt = <<>> \/ Break(stmt) \in {1, 2, 4}
        /\ After(Break(stmt), <<>>)
        /\ Nothing
     \/ /\ Break(stmt) = 3
        /\ k = "DISPLAY"
        /\ IF Func_Display(args) = Error THEN GoTo("failed", node) /\ UNCHANGED rows
                                         ELSE After(3, <<>>)
        /\ Nothing
     \/ /\ Break(stmt) = 3
        /\ k \in {"INCVAL", "CLRVAL"}
        /\ \E new \in {IF k = "INCVAL" THEN incGblVal(m_pGVList, args[1].v)
                                       ELSE {clearGbl(m_pGVList, args[1].v)}} :
             \/ /\ new = {}
                /\ GoTo("failed", node)
                /\ UNCHANGED <<m_pGVList, rows>>
             \/ /\ m_pGVList' \in new
                /\ After(3, <<>>)
        /\ UNCHANGED <<col, vals>>
     \/ /\ Break(stmt) = 3
        /\ k \in {"SETVAL", "ADDVAL", "PUSHVAL"}
        /\ Compute(stmt[2], "store")
        /\ UNCHANGED <<node, rows>>
        /\ Nothing
     \/ /\ stmt # <<>> /\ Break(stmt) = 0
        /\ Compute(stmt[1], "column")
        /\ col' = 1
        /\ vals' = <<>>
        /\ UNCHANGED <<m_pGVList, node, rows>>
  /\ UNCHANGED <<m_IndexVal, rule, m_Loop, m_useNode>>

\* A constant result is copied.
TakeResult(gbn, result) ==
  \/ /\ gbn # 0
     /\ After(0, result)
     /\ UNCHANGED <<m_pGVList, m_IndexVal, rule, col, vals, m_Loop, m_useNode>>
  \/ /\ gbn = 0
     /\ BuildResult(result)

Statement ==
  CASE rule.type = "CONDITION" -> rule.lines[node].result
    [] rule.type = "TABLE"     -> rule.trows[node].result
    [] rule.type = "FLOW"      -> rule.nodes[node].exp

\* The value of a column has come: the next column, or the rows. A column with
\* no such row gives the line up at once; an item without such a value, and an
\* exception in the expression or in getOtherRuleResult, the rule.
ColumnValue ==
  LET all == Append(vals, expResult)
      alone == Len(Statement) = 1 /\ IsList(expResult)
      raised == expResult = Error
                  \/ (~alone /\ expResult.t = "GLOBAL" /\ getItemValue(expResult) = Error)
  IN
  /\ Got("column")
  /\ \/ /\ raised
        /\ Fail
     \/ /\ ~raised
        /\ ~alone
        /\ NoSuchRow(expResult)
        /\ After(0, <<>>)
        /\ UNCHANGED <<m_pGVList, m_IndexVal, rule, col, vals, m_Loop, m_useNode>>
     \/ /\ ~raised
        /\ ~NoSuchRow(expResult)
        /\ col < Len(Statement)
        /\ Compute(Statement[col + 1], "column")
        /\ col' = col + 1
        /\ vals' = all
        /\ UNCHANGED <<m_pGVList, m_IndexVal, rule, node, rows, m_Loop, m_useNode>>
     \/ /\ ~raised
        /\ alone \/ ~NoSuchRow(expResult)
        /\ col = Len(Statement)
        /\ \E new \in {RowsOf(all, rule.retType)} :
             \/ /\ \E r \in ToSet(new) : Error \in ToSet(r)
                /\ Fail
             \/ /\ \A r \in ToSet(new) : Error \notin ToSet(r)
                /\ After(0, new)
                /\ UNCHANGED <<m_pGVList, m_IndexVal, rule, col, vals, m_Loop, m_useNode>>

\* setGblValue: the index after the value, a constant or an index of a loop.
StoreIndex == IF Len(Statement) < 3 THEN Long(1) ELSE Operand(Statement[3][1])

\* The value to keep has come; parseGblValue fetches it.
StoreValue ==
  LET k == Statement[1][1].k
      name == Statement[1][1].args[1].v
      x == Fetched(expResult)
      New == CASE k = "SETVAL" -> setGblVal(m_pGVList, name, x, StoreIndex.v[1])
               [] k = "ADDVAL" -> addGblVal(m_pGVList, name, x)
               [] k = "PUSHVAL" -> pushGblVal(m_pGVList, name, x)
  IN
  /\ Got("store")
  /\ \/ /\ Raised(expResult) \/ StoreIndex = Error
        /\ Fail
     \/ /\ ~Raised(expResult)
        /\ StoreIndex # Error
        /\ \E new \in {New} :
             \/ /\ new = {}
                /\ Fail
             \/ /\ m_pGVList' \in new
                /\ After(3, <<>>)
                /\ UNCHANGED <<m_IndexVal, rule, col, vals, m_Loop, m_useNode>>

-----------------------------------------------------------------------------
\* CMRCInterpreter::Running, one line.
Line ==
  /\ pc = "next"
  /\ rule.type = "CONDITION"
  /\ \/ /\ node > Len(rule.lines)
        /\ GoTo("aggregate", node)
        /\ UNCHANGED <<m_pGVList, m_IndexVal, rule, col, vals, rows, m_Loop, m_useNode>>
     \/ /\ node <= Len(rule.lines)
        /\ rule.lines[node].cond # <<>>
        /\ Compute(rule.lines[node].cond, "condition")
        /\ UNCHANGED <<m_pGVList, m_IndexVal, rule, node, col, vals, rows, m_Loop, m_useNode>>
     \/ /\ node <= Len(rule.lines)
        /\ rule.lines[node].cond = <<>>
        /\ TakeResult(rule.lines[node].resGbn, rule.lines[node].result)

\* CalculateCondition
ConditionValue ==
  /\ Got("condition")
  /\ \/ /\ Raised(expResult)
        /\ Fail
     \/ /\ ~Raised(expResult)
        /\ ~Holds(expResult)
        /\ GoTo("next", node + 1)
        /\ UNCHANGED <<m_pGVList, m_IndexVal, rule, col, vals, rows, m_Loop, m_useNode>>
     \/ /\ ~Raised(expResult)
        /\ Holds(expResult)
        /\ TakeResult(rule.lines[node].resGbn, rule.lines[node].result)

-----------------------------------------------------------------------------
\* CMRTInterpreter::Running. A table of one constant column without breakFlag
\* is done at once; its rows have constant results of one row.
Simple == /\ Len(rule.tcols) = 1
          /\ ~rule.breakFlag
          /\ rule.tcols[1].pType = "CONST"

SimpleResult ==
  /\ pc = "next"
  /\ rule.type = "TABLE"
  /\ Simple
  /\ rows' = FlattenSeq([i \in DOMAIN rule.trows |->
                IF SimpleMatches(rule.value[1], rule.trows[i])
                  THEN rule.trows[i].result ELSE <<>>])
  /\ GoTo("aggregate", node)
  /\ UNCHANGED <<m_pGVList, m_IndexVal, rule, col, vals, m_Loop, m_useNode>>

\* Without columns the rows are taken one after the other.
Bisected == rule.sorted /\ rule.tcols # <<>>

\* getMatchingIdxFromSorted
SortedRow ==
  /\ pc = "next"
  /\ rule.type = "TABLE"
  /\ ~Simple
  /\ Bisected
  /\ \E found \in {MatchingRowOfSorted(rule.value, rule.tcols, rule.trows)} :
       IF found = 0 THEN GoTo("aggregate", node) ELSE GoTo("row", found)
  /\ UNCHANGED <<m_pGVList, m_IndexVal, rule, col, vals, rows, m_Loop, m_useNode>>

\* getMatchingIdxFromSequencial from this row on. The rows end with those of the
\* first version of the rule, pVers; here a rule has one version.
NextRow ==
  /\ pc = "next"
  /\ rule.type = "TABLE"
  /\ ~Simple
  /\ ~Bisected
  /\ IF node > Len(rule.trows) THEN GoTo("aggregate", node) ELSE GoTo("cell", node)
  /\ col' = 1
  /\ UNCHANGED <<m_pGVList, m_IndexVal, rule, vals, rows, m_Loop, m_useNode>>

CellDone(match) ==
  /\ IF match THEN /\ GoTo("cell", node)
                   /\ col' = col + 1
              ELSE /\ GoTo("next", node + 1)
                   /\ UNCHANGED col
  /\ UNCHANGED <<m_pGVList, m_IndexVal, rule, vals, rows, m_Loop, m_useNode>>

\* The condition is built without the rule around it: a loop index in it would be
\* read through a null pointer. The conditions of rule have none.
Cell ==
  LET column == rule.tcols[col]
      cell == rule.trows[node].cells[col]
      isCondition == column.gbn /\ column.pType = "COND" /\ cell.cond # <<>>
  IN
  /\ pc = "cell"
  /\ \/ /\ col > Len(rule.tcols)
        /\ GoTo("row", node)
        /\ UNCHANGED <<m_pGVList, m_IndexVal, rule, col, vals, rows, m_Loop, m_useNode>>
     \/ /\ col <= Len(rule.tcols)
        /\ isCondition
        /\ Compute(cell.cond, "cellvalue")
        /\ UNCHANGED <<m_pGVList, m_IndexVal, rule, node, col, vals, rows, m_Loop, m_useNode>>
     \/ /\ col <= Len(rule.tcols)
        /\ ~isCondition
        /\ CellRaises(rule.value[col], column, cell)
        /\ Fail
     \/ /\ col <= Len(rule.tcols)
        /\ ~isCondition
        /\ ~CellRaises(rule.value[col], column, cell)
        /\ CellDone(CellMatches(rule.value[col], column, cell))

CellValue ==
  /\ Got("cellvalue")
  /\ \/ /\ Raised(expResult)
        /\ Fail
     \/ /\ ~Raised(expResult)
        /\ CellDone(Holds(expResult))

\* A row matches: its result, or nothing if it has none.
MatchingRow ==
  LET row == rule.trows[node]
  IN
  /\ pc = "row"
  /\ \/ /\ row.result = <<>>
        /\ IF rule.sorted THEN GoTo("aggregate", node) ELSE GoTo("next", node + 1)
        /\ UNCHANGED <<m_pGVList, m_IndexVal, rule, col, vals, rows, m_Loop, m_useNode>>
     \/ /\ row.result # <<>>
        /\ TakeResult(row.resGbn, row.result)

-----------------------------------------------------------------------------
\* CMRFInterpreter::Running, one node; a case is one of sw.
Node(type) ==
  /\ pc = "next"
  /\ rule.type = "FLOW"
  /\ rule.nodes[node].pType = type

Exp == rule.nodes[node].exp
Sw == rule.nodes[node].sw

StartNode ==
  /\ Node("START")
  /\ GoTo(FlowState(Sw[1].Link), Sw[1].Link)
  /\ UNCHANGED <<m_pGVList, m_IndexVal, rule, col, vals, rows, m_Loop, m_useNode>>

EndNode ==
  /\ Node("END")
  /\ GoTo("aggregate", node)
  /\ UNCHANGED <<m_pGVList, m_IndexVal, rule, col, vals, rows, m_Loop, m_useNode>>

ExecNode == Node("EXEC") /\ BuildResult(Exp)
ReturnNode == Node("RET") /\ TakeResult(rule.nodes[node].dGbn, Exp)

ChoiceNode ==
  /\ \/ Node("IF") /\ Compute(Exp, "if")
     \/ Node("CASE") /\ Compute(Exp, "case")
  /\ UNCHANGED <<m_pGVList, m_IndexVal, rule, node, col, vals, rows, m_Loop, m_useNode>>

\* The text of a value that is compared with those of the cases.
CaseText(x) == IF x.t = "BOOL" THEN Text(x) ELSE FixedText(x)
Star == <<42>>

\* SearchLink_IF and SearchLink_CASE: the first case with this text, 0 for none;
\* only CASE has a default, the last case with a star that the search has passed.
CaseOf(text) == SelectInSeq(Sw, LAMBDA s : s.caseExp = text)
SearchLink(text) == IF CaseOf(text) = 0 THEN 0 ELSE Sw[CaseOf(text)].Link

SearchLink_CASE(text) ==
  LET passed == IF CaseOf(text) = 0 THEN Sw ELSE SubSeq(Sw, 1, CaseOf(text))
      star == SelectLastInSeq(passed, LAMBDA s : s.caseExp = Star)
  IN  IF SearchLink(text) = 0 /\ star # 0 THEN Sw[star].Link ELSE SearchLink(text)

\* SearchLink and SearchLink_CASE. The expression of a CASE is built without the
\* rule around it: a loop index in it would be read through a null pointer. The
\* CASEs of rule have none.
ChoiceValue ==
  LET x == Fetched(expResult)
      link == IF pc = "if" THEN SearchLink(Text(Bool(AnyBit(x))))
                           ELSE SearchLink_CASE(CaseText(x))
      Types == IF pc = "if" THEN {"BOOL", "LONG"}
                            ELSE {"STRING", "LSTRING", "DOUBLE", "LONG", "BOOL"}
  IN
  /\ Got("if") \/ Got("case")
  /\ \/ /\ x.t \notin Types
        /\ Fail
     \/ /\ x.t \in Types
        /\ GoTo(FlowState(link), link)
        /\ UNCHANGED <<m_pGVList, m_IndexVal, rule, col, vals, rows, m_Loop, m_useNode>>

\* Slip: a loop that is left keeps its index and its node.
Pass_Kept(i, count) ==
  LET idx == (IF m_Loop[i] < 0 THEN 0 ELSE m_IndexVal[i]) + 1
      out == IF Len(Sw) < 2 THEN 0 ELSE Sw[2].Link
  IN
  /\ m_IndexVal' = [m_IndexVal EXCEPT ![i] = idx]
  /\ m_Loop' = [m_Loop EXCEPT ![i] = count]
  /\ m_useNode' = [m_useNode EXCEPT ![i] = node]
  /\ IF idx <= count THEN GoTo(FlowState(Sw[1].Link), Sw[1].Link)
                     ELSE GoTo(FlowState(out), out)
  /\ UNCHANGED <<m_pGVList, rule, col, vals, rows>>

\* A pass of the loop: its index goes up by one, and beyond the count the loop
\* is left by its second link.
Pass(i, count) ==
  LET idx == (IF m_Loop[i] < 0 THEN 0 ELSE m_IndexVal[i]) + 1
      out == IF Len(Sw) < 2 THEN 0 ELSE Sw[2].Link
  IN
  /\ IF idx <= count
       THEN /\ m_IndexVal' = [m_IndexVal EXCEPT ![i] = idx]
            /\ m_Loop' = [m_Loop EXCEPT ![i] = count]
            /\ m_useNode' = [m_useNode EXCEPT ![i] = node]
            /\ GoTo(FlowState(Sw[1].Link), Sw[1].Link)
       ELSE /\ m_IndexVal' = [m_IndexVal EXCEPT ![i] = -1]
            /\ m_Loop' = [m_Loop EXCEPT ![i] = -1]
            /\ m_useNode' = [m_useNode EXCEPT ![i] = 0]
            /\ GoTo(FlowState(out), out)
  /\ UNCHANGED <<m_pGVList, rule, col, vals, rows>>

LoopIndex == Sw[1].caseExp[1]

\* The count is computed when the loop is entered; an index that another node
\* still counts with is an error.
LoopNode ==
  /\ Node("LOOP")
  /\ \/ /\ m_Loop[LoopIndex] < 0
        /\ Compute(Exp, "count")
        /\ UNCHANGED <<m_pGVList, m_IndexVal, rule, node, col, vals, rows, m_Loop, m_useNode>>
     \/ /\ m_Loop[LoopIndex] >= 0
        /\ m_useNode[LoopIndex] # node
        /\ Fail
     \/ /\ m_Loop[LoopIndex] >= 0
        /\ m_useNode[LoopIndex] = node
        /\ Pass(LoopIndex, m_Loop[LoopIndex])

\* getLoopCnt: what is no LONG is 0.
LoopCount ==
  LET x == Fetched(expResult)
  IN
  /\ Got("count")
  /\ \/ /\ x = Error
        /\ Fail
     \/ /\ x # Error
        /\ Pass(LoopIndex, IF x.t = "LONG" THEN x.v[1] ELSE 0)

-----------------------------------------------------------------------------
\* The tail of MainProcess.
Aggregate ==
  /\ pc = "aggregate"
  /\ rows' = EtcFunction(rows, rule.aggr)
  /\ pc' = "sort"
  /\ UNCHANGED <<exprVars, m_pGVList, m_IndexVal, rule, node, col, vals, m_Loop, m_useNode>>

Sort ==
  /\ pc = "sort"
  /\ rows' = IF rule.aggr.nSort = <<>> THEN rows ELSE Sorting(rows, rule.aggr)
  /\ pc' = "default"
  /\ UNCHANGED <<exprVars, m_pGVList, m_IndexVal, rule, node, col, vals, m_Loop, m_useNode>>

DefaultResult ==
  /\ pc = "default"
  /\ rows' = IF rows = <<>> THEN rule.dftResult ELSE rows
  /\ pc' = "done"
  /\ UNCHANGED <<exprVars, m_pGVList, m_IndexVal, rule, node, col, vals, m_Loop, m_useNode>>

Interpret ==
  \/ Line \/ ConditionValue
  \/ SimpleResult \/ SortedRow \/ NextRow \/ Cell \/ CellValue \/ MatchingRow
  \/ StartNode \/ EndNode \/ ExecNode \/ ReturnNode \/ ChoiceNode \/ ChoiceValue
  \/ LoopNode \/ LoopCount

RunNext == Evaluate \/ ColumnValue \/ StoreValue \/ Interpret \/ Aggregate \/ Sort \/ DefaultResult

RunSpec(pRuleNode) == RunInit(pRuleNode) /\ [][RunNext]_vars

-----------------------------------------------------------------------------
(* What the rows are that a rule returns: the order of its values          *)

Types == {"LONG", "BOOL", "DOUBLE", "STRING", "LSTRING"}

IsValue(x, type) ==
  /\ x.t = type
  /\ CASE type \in {"LONG", "BOOL"} -> x.v[1] \in Int
       [] type = "DOUBLE" -> x.v[1] \in Int /\ x.v[2] \in Nat \ {0}
       [] OTHER -> x.v \in Seq(Int)

\* A column of values of this type, and rows that can be compared by columns.
IsColumn(list, c, type) ==
  \A i \in DOMAIN list : c \in DOMAIN list[i] /\ IsValue(list[i][c], type)

Comparable(list, cols) ==
  /\ list \in Seq(ToSet(list))
  /\ cols \in Seq(Nat)
  /\ \A c \in ToSet(cols) : \E type \in Types : IsColumn(list, c, type)

\* s is in front of r in a dictionary.
TextBefore(s, r) ==
  \E i \in 1 .. Len(r) : /\ \A j \in 1 .. i - 1 : j <= Len(s) /\ s[j] = r[j]
                         /\ i > Len(s) \/ s[i] < r[i]

Below(x, y) ==
  CASE x.t = "DOUBLE" -> x.v[1] * y.v[2] < y.v[1] * x.v[2]
    [] x.t \in {"STRING", "LSTRING"} -> TextBefore(x.v, y.v)
    [] OTHER -> x.v[1] < y.v[1]

Same(x, y) == ~Below(x, y) /\ ~Below(y, x)
SameIn(r1, r2, cols) == \A k \in DOMAIN cols : Same(r1[cols[k]], r2[cols[k]])

Precedes(r1, r2, cols, order) ==
  \E k \in DOMAIN cols :
    LET x == r1[cols[k]]
        y == r2[cols[k]]
    IN  /\ IF order[k] = "D" THEN Below(y, x) ELSE Below(x, y)
        /\ \A j \in 1 .. k - 1 : Same(r1[cols[j]], r2[cols[j]])

Upward(cols) == [k \in DOMAIN cols |-> "A"]

-----------------------------------------------------------------------------
(* The rows that are returned                                              *)

\* new is old in order; place says where a row was.
InOrder(new, old, cols, order) ==
  \E place \in [DOMAIN new -> DOMAIN old] :
    /\ \A i \in DOMAIN old : \E k \in DOMAIN new : place[k] = i
    /\ \A k \in DOMAIN new : new[k] = old[place[k]]
    /\ \A k, l \in DOMAIN new : k < l =>
         \/ Precedes(new[k], new[l], cols, order)
         \/ ~Precedes(new[l], new[k], cols, order) /\ place[k] < place[l]

\* Sorting a list whose sort columns hold values of one type each orders the rows,
\* loses and doubles none, and keeps those that do not differ in the order they
\* came in (CMRRunner::Sorting).
SortIsStable ==
  [][pc = "sort" /\ rule.aggr.nSort # <<>> /\ Comparable(rows, rule.aggr.nSort)
       => InOrder(rows', rows, rule.aggr.nSort, rule.aggr.cOrder)]_vars

Total(list, c, members) ==
  LET sum[n \in 0 .. Len(list)] ==
        IF n = 0 THEN 0 ELSE sum[n - 1] + (IF n \in members THEN list[n][c].v[1] ELSE 0)
  IN  sum[Len(list)]

\* new has a row for each group of old, in the order of their first rows.
SumsOfGroups(new, old, group) ==
  \E of \in [DOMAIN old -> DOMAIN new] :
    LET Members(k) == {i \in DOMAIN old : of[i] = k}
    IN  /\ \A i, j \in DOMAIN old : of[i] = of[j] <=> SameIn(old[i], old[j], group)
        /\ \A k \in DOMAIN new : \E i \in Members(k) :
             /\ \A j \in Members(k) : i <= j
             /\ \A j \in 1 .. i - 1 : of[j] < k
             /\ \A c \in ToSet(group) : new[k][c] = old[i][c]
             /\ \A c \in DOMAIN old[i] \ ToSet(group) :
                  /\ IsColumn(old, c, "LONG") =>
                       IsValue(new[k][c], "LONG") /\ new[k][c].v[1] = Total(old, c, Members(k))
                  /\ IsColumn(old, c, "BOOL") =>
                       (Truth(new[k][c]) <=> \E j \in Members(k) : Truth(old[j][c]))
                  /\ IsColumn(old, c, "STRING") => new[k][c] = old[i][c]

\* The first column, read as text, tells its values apart.
Legible(list) ==
  /\ list \in Seq(ToSet(list))
  /\ \A i, j \in DOMAIN list : RawText(list[i][1]) = RawText(list[j][1]) => list[i][1] = list[j][1]

FirstsOf(new, old) ==
  \E place \in [DOMAIN new -> DOMAIN old] :
    /\ \A k \in DOMAIN new : new[k] = old[place[k]]
    /\ \A k, l \in DOMAIN new : k < l => place[k] < place[l]
    /\ \A i \in DOMAIN old : (\E k \in DOMAIN new : place[k] = i)
                               <=> \A j \in 1 .. i - 1 : old[j][1] # old[i][1]

FirstExtreme(new, old, cols, option) ==
  LET Beats(r1, r2) == IF option = 3 THEN Precedes(r1, r2, cols, Upward(cols))
                                     ELSE Precedes(r2, r1, cols, Upward(cols))
  IN  \E i \in DOMAIN old :
        /\ new = <<old[i]>>
        /\ \A j \in DOMAIN old : ~Beats(old[j], old[i])
        /\ \A j \in 1 .. i - 1 : Beats(old[i], old[j])

\* SUM leaves one row for each group, in the order of their first rows: numbers are
\* added up, truth values are combined by OR, texts are those of the first row.
\* DISTINCT leaves the first row for each value of the first column, if strcmp tells
\* the values apart; MIN and MAX the first of the least or greatest rows
\* (CMRRunner::EtcFunction).
AggregateAnswers ==
  [][pc = "aggregate" /\ Len(rows) > 1 =>
       LET a == rule.aggr
           cols == MinMaxColumns(rows, a)
       IN  /\ a.Option = 1 /\ Comparable(rows, a.group) => SumsOfGroups(rows', rows, a.group)
           /\ a.Option = 2 /\ Legible(rows) => FirstsOf(rows', rows)
           /\ a.Option \in {3, 4} /\ Comparable(rows, cols) =>
                FirstExtreme(rows', rows, cols, a.Option)]_vars
=============================================================================
