------------------------------ MODULE MCRules -------------------------------
\* Rules of every kind, each drawn from what it means: rule.source, which no
\* action reads, is a tree, a program, or nothing where the rule speaks for itself.
EXTENDS FunctionMeaning, RuleWire

CONSTANT GivenRules

L(n) == Leaf(Long(n))
T == Leaf(Bool(TRUE))
F == Leaf(Bool(FALSE))
NoAggr == [Option |-> 0, group |-> <<>>, nSort |-> <<>>, cOrder |-> <<>>]

\* The other rules: one of two rows, one of one row called with arguments, one of
\* no rows.
MCResults == << [types |-> <<"LONG", "DOUBLE">>, parms |-> FALSE,
                 rows |-> << <<Long(1), Double(3, 2)>>, <<Long(2), Double(-5, 2)>> >>],
                [types |-> <<"LONG">>, parms |-> TRUE, rows |-> << <<Long(7)>> >>],
                [types |-> <<"LONG">>, parms |-> FALSE, rows |-> <<>>] >>

\* The items of the request: numbers, texts, one that has no value.
MCItems == << [itemCode |-> 11, itemType |-> "LONG", vals |-> <<Long(1), Long(2), Long(1)>>],
              [itemCode |-> 12, itemType |-> "STRING", vals |-> <<String(<<2, 0>>), String(<<1, 2>>)>>],
              [itemCode |-> 13, itemType |-> "LONG", vals |-> <<>>],
              [itemCode |-> 14, itemType |-> "DOUBLE", vals |-> <<Double(1, 2)>>] >>
Global(n, row) == [t |-> "GLOBAL", v |-> <<n, row>>]
MCToday == {[y |-> 2023, m |-> 12, d |-> 31], [y |-> 2024, m |-> 1, d |-> 1]}

Rule(n, row, column) == [t |-> "RULE", v |-> <<n, row, column>>]
AllRows(n) == Rule(n, 0, 0)

Base(type, retType) ==
  [type |-> type, retType |-> retType, breakFlag |-> FALSE, aggr |-> NoAggr,
   dftResult |-> <<>>]

\* Every rule is loaded from its texts; all of these can be.
Loaded(set) == CHOOSE x \in set : TRUE
ConditionRule(texts, retType) ==
  Base("CONDITION", retType) @@ [lines |-> Loaded(loadConditionalRule(texts, retType))]
LineOf(cond, result) == [cond |-> cond, result |-> result]

-----------------------------------------------------------------------------
\* Expressions
N0 == {L(n) : n \in {0, 1, 2}}
N1 == N0 \cup {Op(k, <<a, b>>) : k \in {"+", "-", "*", "/"}, a \in N0, b \in N0}
N2 == {Op(k, <<a, Op(q, <<L(1), L(2)>>)>>) : k \in {"+", "-", "*", "/", "%"},
                                             q \in {"-", "/", "+", "*"}, a \in N1}
        \cup {Op("^", <<a, Op(q, <<L(1), L(2)>>)>>) : q \in {"+", "*"}, a \in N1}
C0 == {Op(k, <<a, b>>) : k \in {"=", "<", ">", "<=", ">=", "<>"}, a \in N1,
                         b \in {L(1), Op("-", <<L(2), L(1)>>)}}
B0 == {T, F, Op("=", <<Op("/", <<L(2), L(0)>>), L(1)>>)}
B1 == B0 \cup {Op("NOT", <<a>>) : a \in B0}
         \cup {Op(k, <<a, b>>) : k \in {"AND", "OR"}, a \in B0, b \in B0}
B2 == B1 \cup {Op("NOT", <<a>>) : a \in B1}
         \cup {Op(k, <<a, b>>) : k \in {"AND", "OR"}, a \in B1, b \in B1}
I0 == {Test("BETWEEN", a, <<Long(0), Long(1)>>) : a \in N1}
        \cup {Test("IN", a, <<Long(1), String(Text(Long(2)))>>) : a \in N1}
I1 == I0 \cup {Op("AND", <<b, i>>) : b \in B0, i \in I0} \cup {Op("NOT", <<i>>) : i \in I0}
R0 == {Op("+", <<a, Leaf(Rule(n, row, 1))>>) : a \in N0, n \in {1, 2}, row \in {-1, 0, 1, 2}}
        \cup {Op("-", <<Item(11, row), a>>) : a \in N0, row \in {0, 2}}
        \cup {Op("+", <<Index(1), L(1)>>), Test("IN", L(1), <<Bool(TRUE)>>),
              Op("-", <<L(-1), Op("-", <<L(-2), L(1)>>)>>), Op("*", <<L(2), L(-2)>>)}
\* Items, and lists of constants, of an item's values or of a column.
Sources == {L(1), Item(11, 0), Item(11, 2), Item(11, 4), Item(13, 0), Leaf(Rule(1, 0, 1)),
            Leaf(Rule(1, 2, 1)), Leaf(AllRows(3))}
Pools == {<<Long(1), Long(2)>>, <<Long(2), Long(1)>>, <<Global(1, 0)>>, <<Global(3, 0)>>,
          <<Global(4, 0)>>, <<Rule(1, 0, 1)>>, <<AllRows(3)>>}
Choice == <<[t |-> "CHOICE", v |-> <<Long(2), Long(1)>>], Long(2), Long(1)>>
Like == {<<String(<<ANY, 2>>)>>, <<String(<<ONE>>), String(<<ANY, 2>>)>>, <<Global(2, 0)>>}
G0 == {Op("+", <<L(1), Item(code, row)>>) : code \in {11, 13, 15}, row \in {-1, 0, 2, 4}}
        \cup {Test(k, s, list) : k \in ListOperators \ {"MATCH"}, s \in Sources, list \in Pools}
        \cup {Test(k, s, <<String(Text(Long(2)))>>) : k \in {"IN", "NIN"}, s \in Sources}
        \cup {Test("ARREQUAL", s, Choice) : s \in Sources}
        \cup {Test("MATCH", Item(12, row), list) : row \in 0 .. 2, list \in Like}
Trees == G0 \cup N2 \cup C0 \cup B2 \cup I1 \cup R0

TreeRule(tree) == ConditionRule(<<LineOf(<<>>, TextOf(tree))>>, <<"LONG">>)

-----------------------------------------------------------------------------
\* Flows
P0 == {Return(Index(1)), Return(Index(2)), Return(L(5))}
P1 == {<<a>> : a \in P0} \cup {<<>>}
First == Op("=", <<Index(1), L(1)>>)
ChoiceStmts == {If(First, a, b) : a \in P1, b \in P1}
             \cup {Case(Leaf(x), <<<<1001>>, Star, <<1002>>>>, <<<<Return(L(1))>>, a, b>>) :
                     x \in {Long(1), Long(2), Long(3), Double(1, 1)},
                     a \in {<<>>, <<Return(L(8))>>}, b \in {<<>>, <<Return(L(9))>>}}
Loops == {Loop(i, c, <<s>>) : i \in {1, 2}, c \in {L(0), L(2), Leaf(Bool(TRUE))},
                              s \in P0 \cup ChoiceStmts}
Nested == {Loop(i, Index(j), <<s>>) : i \in {1, 2}, j \in {1, 2}, s \in P0}
Updates == {Update(k, <<1>>, x, i) : k \in {"SETVAL", "PUSHVAL"}, i \in {1, 2},
                                    x \in {Index(1), Leaf(Bool(TRUE)), Item(11, 0)}}
             \cup {Update("ADDVAL", <<1>>, x, 1) : x \in {Index(1), Kept(<<1>>, 2)}}
             \cup {Update(k, <<1>>, L(1), 1) : k \in {"INCVAL", "CLRVAL"}}
StoreStmts == {Loop(1, L(2), <<u, v, Return(Kept(<<1>>, i))>>) : u, v \in Updates, i \in {1, 2}}
Programs == {<<s>> : s \in StoreStmts} \cup {<<s>> : s \in ChoiceStmts \cup Loops}
              \cup {<<s, t>> : s \in P0 \cup Loops, t \in {Return(Index(1)), Loop(1, L(1), <<Return(Index(1))>>)}}
              \cup {<<Loop(1, c, <<s, t>>), Loop(i, L(2), <<Return(Index(i))>>)>> :
                      c \in {L(1), L(2)}, s \in Nested, t \in P0, i \in {1, 2}}

LoadedFlow(texts) == Base("FLOW", <<"LONG">>) @@ [nodes |-> Loaded(loadFlowRule(texts, <<"LONG">>))]
FlowRule(prog) == LoadedFlow(Flow(prog))

-----------------------------------------------------------------------------
\* Tables
Nm(n) == IF n = 0 THEN <<>> ELSE Text(Long(n))
CellOf(lo, hi, optr, texts, cond) ==
  [vMin |-> Nm(lo), vMax |-> Nm(hi), optr |-> optr, sVal |-> texts, cond |-> cond]
Const(n) == CellOf(n, 0, 0, <<>>, <<>>)
RangeCell(lo, hi) == CellOf(lo, hi, 0, <<>>, <<>>)
Column(type, range) == [gbn |-> TRUE, pType |-> type, range |-> range]

\* The result of row i is i, as a constant or as i + 0.
RowsFrom(cells) == [i \in DOMAIN cells |->
  [cells |-> cells[i], result |-> TextOf(IF i % 2 = 1 THEN L(i) ELSE Op("+", <<L(i), L(0)>>))]]
TableRule(tcols, texts, value, sorted, breaks) ==
  [Base("TABLE", <<"LONG">>) EXCEPT !.breakFlag = breaks]
    @@ [tcols |-> tcols, trows |-> Loaded(loadTableRule(tcols, texts, <<"LONG">>)),
        value |-> value, sorted |-> sorted]

\* One range column: the rows ascend and do not meet.
Ascending(cells, range) ==
  \A i \in 1 .. Len(cells) - 1 :
    LET a == cells[i][1].vMax
        b == cells[i + 1][1].vMin
    IN  /\ a # <<>> /\ b # <<>>
        /\ IF range = 0 THEN Number(a) < Number(b) ELSE Number(a) <= Number(b)
Proper(cells) == \A i \in DOMAIN cells : \E n \in 0 .. 4 :
                   Admits(Long(n), Column("RANGE", 0), cells[i][1])
Ends == {0, 1, 2, 3}
RangeRows == {<<RangeCell(lo, hi)>> : lo \in Ends, hi \in Ends}
SortedTables ==
  UNION {{TableRule(<<Column("RANGE", range)>>, RowsFrom(cells), <<Long(n)>>, s, TRUE) :
            n \in 0 .. 4, s \in {TRUE, FALSE},
            cells \in {c \in UNION {[1 .. k -> RangeRows] : k \in 1 .. 3} :
                         Ascending(c, range) /\ Proper(c)}} : range \in {0, 1, 2}}
TwoColumns ==
  {TableRule(<<Column("CONST", 0), Column("RANGE", 0)>>,
             RowsFrom(<< <<Const(1), RangeCell(1, 2)>>, <<Const(1), RangeCell(3, 0)>>,
                         <<Const(2), RangeCell(0, 2)>>, <<Const(2), RangeCell(4, 5)>> >>),
             <<Long(m), Long(n)>>, s, TRUE) : m \in 0 .. 3, n \in 0 .. 5, s \in {TRUE, FALSE}}

\* Operators and conditions, searched row by row.
Cells == {CellOf(0, 0, k, IF k < 7 THEN <<Nm(1)>> ELSE <<Nm(1), Nm(3)>>, <<>>) :
            k \in (0 .. 10) \cup (12 .. 15)}
Tests == {CellOf(0, 0, 0, <<>>, c) : c \in {<<>>, TextOf(T), TextOf(F)}}
OpenTables ==
  {TableRule(<<Column("OPTR", 0), Column("COND", 0)>>, RowsFrom(<< <<a, c>>, <<b, d>> >>),
             <<Long(n), Long(0)>>, FALSE, breaks) :
     a \in Cells, b \in {CellOf(0, 0, 6, <<Nm(1)>>, <<>>)}, c \in Tests, d \in Tests, n \in 0 .. 4,
     breaks \in {TRUE, FALSE}}
Hollow == [RowsFrom(<< <<Const(1)>>, <<Const(0)>> >>) EXCEPT ![1].result = <<>>]
OtherTables ==
  {TableRule(<<[Column("CONST", 0) EXCEPT !.gbn = g]>>, Hollow, <<Long(n)>>, s, TRUE) :
     g \in {TRUE, FALSE}, n \in {1, 2}, s \in {FALSE}}
  \cup {TableRule(<<Column("CONST", 0)>>, [i \in 1 .. 2 |-> RowsFrom(<< <<Const(m)>>, <<Const(1)>>, <<Const(2)>> >>)[2 * i - 1]],
                  <<Long(n)>>, FALSE, FALSE) : m \in {1, 2}, n \in {1, 2, 3}}
  \cup {TableRule(<<>>, RowsFrom(<< <<>>, <<>> >>), <<>>, s, breaks) : s \in BOOLEAN, breaks \in BOOLEAN}
\* Texts and fractions next to the same cells.
LText(s) == [t |-> "LSTRING", v |-> s]
OtherValues == {String(Nm(n)) : n \in 0 .. 3} \cup {LText(Nm(2))} \cup {Double(n, 2) : n \in 0 .. 7}
OtherTypes ==
  {TableRule(<<Column("OPTR", 0)>>, RowsFrom(<< <<a>>, <<CellOf(0, 0, 6, <<Nm(2)>>, <<>>)>> >>),
             <<x>>, FALSE, TRUE) : a \in Cells, x \in OtherValues}
  \cup {TableRule(<<Column("CONST", 0), Column("RANGE", range)>>,
                  RowsFrom(<< <<Const(1), RangeCell(0, 2)>>, <<Const(2), RangeCell(1, 2)>>,
                              <<Const(2), RangeCell(3, 0)>> >>),
                  <<y, x>>, s, TRUE) :
           range \in {0, 1, 2}, x \in OtherValues, y \in {Double(1, 1), Double(2, 1), String(Nm(2))},
           s \in BOOLEAN}
Tables == SortedTables \cup TwoColumns \cup OpenTables \cup OtherTables \cup OtherTypes

\* Rows of constants for the aggregations and sort orders; LIKE; what stands in
\* the lines of a condition rule.
Pairs == {<<Long(a), Long(b)>> : a \in {1, 2}, b \in {0, 1}}
Orders == {[NoAggr EXCEPT !.nSort = n, !.cOrder = c] :
             n \in {<<1>>, <<2, 1>>}, c \in {<<"A", "A">>, <<"D", "A">>, <<"A", "D">>}}
Totals == {[NoAggr EXCEPT !.Option = o, !.group = g] :
             o \in {1, 2, 3, 4}, g \in {<<>>, <<1>>, <<2>>, <<1, 2>>}}
Lists(set) == UNION {[1 .. k -> set] : k \in 0 .. 3}
RowRule(list, types) ==
  ConditionRule([i \in DOMAIN list |-> LineOf(<<>>, Joined(",", ValueTexts(list[i])))], types)
RowLists ==
  {RowRule(list, <<"LONG", "LONG">>) : list \in Lists(Pairs)}
  \cup {RowRule(list, <<"DOUBLE", "STRING">>) :
          list \in Lists({<<x, String(s)>> : x \in {Double(1, 3), Double(-1, 6)}, s \in {<<1>>, <<1, 2>>}})}
  \cup {RowRule(list, <<"BOOL", "STRING">>) :
          list \in Lists({<<Bool(x), String(s)>> : x \in BOOLEAN, s \in {<<2>>, <<1, 2>>}})}
RowRules == {[r EXCEPT !.aggr = a] : r \in RowLists, a \in Orders \cup Totals}

Likes ==
  {TableRule(<<Column("OPTR", 0)>>, RowsFrom(<< <<CellOf(0, 0, o, <<pat>>, <<>>)>> >>),
             <<x>>, FALSE, FALSE) :
     o \in {11, 17}, x \in {Long(1), String(<<1, 2, 1>>), String(<<>>)},
     pat \in {<<ANY, 1>>, <<1, ONE, 1>>, <<ONE, ANY, 2>>, <<ANY, 2, ANY>>, <<3>>, <<ANY>>}}

\* A statement and the number of columns it makes.
Columns == {Leaf(x) : x \in {Long(1), Double(5, 2), String(<<3>>), AllRows(1), AllRows(2),
                              AllRows(3), Rule(1, 0, 2), Rule(1, 2, 1), Rule(1, 3, 1),
                              Global(1, 0), Global(2, 3), Global(3, 1)}}
             \cup {Op("/", <<L(1), L(0)>>)}
Width1(tree) == IF tree.k = "value" /\ tree.args[1].t = "RULE" /\ tree.args[1].v[3] = 0
                  THEN Len(MCResults[tree.args[1].v[1]].types) ELSE 1
Constant(tree) == tree.k = "value" /\ tree.args[1].t \in {"LONG", "DOUBLE"}
Stated(trees) ==
  [text |-> Joined(",", [i \in DOMAIN trees |-> TextOf(trees[i])]),
   width |-> FoldLeft(LAMBDA n, tree : n + Width1(tree), 0, trees),
   numbers |-> \A i \in DOMAIN trees : Constant(trees[i])]
Does(text) == [text |-> text, width |-> 1, numbers |-> FALSE]
Alone(k) == <<Lexeme("@", k)>>
Name == ValueText(String(<<1>>))
Functions == {Does(Alone(k)) : k \in {"CONTINUE", "BREAK", "EXIT"}}
               \cup {Does(CallText(k, texts)) :
                        k \in {"SETVAL", "PUSHVAL"},
                        texts \in {<<Name, ValueText(Rule(1, 2, 1))>>, <<Name, ValueText(Global(3, 0))>>}}
               \cup {Does(CallText("INCVAL", <<Name>>)), Does(CallText("DISPLAY", <<NumberText(Long(1))>>)),
                     Does(CallText("DISPLAY", <<ValueText(Rule(1, 3, 1))>>)),
                     Does(CallText("SETVAL", <<Name, NumberText(Long(1)), TextOf(Index(1))>>))}
Several == [text |-> Parenthesized(Joined(",", <<NumberText(Long(1)), NumberText(Long(-2))>>)),
            width |-> 1, numbers |-> TRUE]
Statements == Functions \cup {Stated(<<c>>) : c \in Columns} \cup {Stated(<<>>), Several}
                \cup {Stated(<<c, d>>) : c \in Columns \ {Leaf(Rule(1, 0, 2))}, d \in {L(4), Leaf(AllRows(2))}}
\* No column of texts gets a number.
TypesOf(stmt) ==
  LET types == <<"LONG", "DOUBLE", "STRING">>
  IN  {SubSeq(types, 1, stmt.width)}
        \cup (IF stmt.numbers THEN {} ELSE {SubSeq(types, 4 - stmt.width, 3)})
        \cup (IF stmt = Stated(<<Leaf(AllRows(1))>>) THEN {<<"LONG">>} ELSE {})
LineRule(cond, stmt, types) ==
  LET initial == Joined(",", [i \in DOMAIN types |-> ValueText(Initial(types[i]))])
  IN  [ConditionRule(<<LineOf(cond, stmt.text), LineOf(<<>>, initial)>>, types)
         EXCEPT !.dftResult = Loaded(buildDefaultResult(initial, types))]
AllLineRules ==
  UNION {{LineRule(cond, stmt, types) : types \in TypesOf(stmt),
            cond \in {<<>>, TextOf(F), TextOf(Op("=", <<L(1), L(1)>>)), ValueText(AllRows(3)),
                      ValueText(Rule(1, 3, 1))}} : stmt \in Statements}
LineRules == {[r EXCEPT !.breakFlag = b] : r \in AllLineRules, b \in {TRUE, FALSE}}
OddFlows ==
  {LoadedFlow(<<FlowNode("START", <<>>, <<To(<<>>, 2)>>), FlowNode(k, stmt.text, sw)>>) :
     k \in {"EXEC", "RET"}, stmt \in Functions \cup {Stated(<<L(1)>>)},
     sw \in {<<>>, <<To(<<>>, 3)>>, <<To(<<>>, 0)>>}}

\* Functions: a year around a leap day, texts of letters, columns of every kind.
Day(y, m, d) == [y |-> y, m |-> m, d |-> d]
Days == {Day(2023, 12, 31), Day(2024, 1, 31), Day(2024, 2, 28), Day(2024, 2, 29), Day(2024, 3, 1),
         Day(2023, 2, 28), Day(2024, 12, 15)}
DateValue(day) == String(DateText(day, day.d > 30))
Dates == {DateValue(day) : day \in Days}
NoDates == {DateValue(Day(2023, 2, 29)), DateValue(Day(2024, 13, 1)), String(<<1>>)}
Numbers == {Long(n) : n \in {0, 4, 5, 17, 1250, -5, -14, -17}}
Fractions == {Double(n, d) : n \in {-27, -15, 5, 15, 27, 199}, d \in {4, 10, 100}}
Call(f, xs) == [f |-> f, xs |-> xs]
Calls ==
  {Call("DATE", <<x, Long(n)>>) : x \in Dates \cup NoDates, n \in {-60, -1, 0, 1, 31, 366}}
  \cup {Call("DATEPLUSMON", <<x, Long(n), Long(o)>>) :
          x \in Dates \cup NoDates, n \in {-14, -1, 0, 1, 11, 12}, o \in {0, 1}}
  \cup {Call(f, <<x, y>>) : f \in {"DURATION", "AGE"}, x \in Dates \cup NoDates, y \in Dates}
  \cup {Call("MONTH", <<x, y, Long(o)>>) : x \in Dates, y \in Dates, o \in 0 .. 2}
  \cup {Call("RES_AGE", <<String(ResidentNo(yy, mm, 29, ss)), y>> \o o) :
          yy \in {4, 24, 96}, mm \in {2, 8}, ss \in {1, 3, 9}, y \in Dates,
          o \in {<<>>, <<Long(1)>>}}
  \cup {Call(f, <<x, Long(n)>>) : f \in {"ROUND", "TRUNC"}, x \in Numbers \cup Fractions,
                                  n \in {-2, -1, 0, 1, 2}}
  \cup {Call("SUBSTR", <<String(s), Long(i), Long(n)>>) :
          s \in {<<>>, <<1, 2, 1>>, <<3, 1>>}, i \in 0 .. 4, n \in 0 .. 4}
  \cup {Call(f, <<x>>) : f \in {"ROWS", "MAX", "MIN"},
          x \in {Rule(1, 0, c) : c \in {1, 2}} \cup {AllRows(2), AllRows(3)}
                  \cup {Global(n, 0) : n \in 1 .. 4}}
  \cup {Call("SUM", <<x>>) : x \in {Rule(1, 0, 2), AllRows(3), Global(1, 0), Global(3, 0), Global(4, 0)}}
  \cup {Call("INDEXOF", <<x, y>>) : x \in {Rule(1, 0, 1), AllRows(3), Global(1, 0), Global(3, 0)},
                                    y \in {Long(1), Long(2), Long(7)}}
  \cup {Call("INDEXOF", <<Global(2, 0), y>>) : y \in {String(<<2>>), String(<<1, 2, 0>>), String(<<3>>)}}
  \cup {Call("LEN", <<String(s)>>) : s \in {<<>>, <<1, 2, 1>>, <<3, 0>>}}
  \cup {Call("TOSTRING", <<Long(n)>>) : n \in {-3, 0, 12}}
  \cup {Call(f, <<String(Text(Long(n)))>>) : f \in {"TONUMBER", "TODOUBLE"}, n \in {-3, 0, 12}}
CallRule(c) == ConditionRule(<<LineOf(<<>>, CallText(c.f, ValueTexts(c.xs)))>>, <<"STRING">>)

\* Calls whose result is only carried on.
OtherCalls ==
  {Call("TODAY", mark) : mark \in {<<>>, <<String(<<1>>)>>, <<Long(1)>>}}
  \cup {Call("RES_AGE", <<String(ResidentNo(96, 2, 29, 1))>>), Call("RES_AGE", <<>>),
        Call("SPECIAL", <<>>), Call("GETVAL", <<String(<<1>>)>>), Call("FINDVAL", <<String(<<1>>), Long(1)>>),
        Call("FINDVAL", <<Long(1), Long(1)>>), Call("ROWS", <<String(<<1>>)>>),
        Call("MAX", <<Long(4)>>), Call("LEN", <<[t |-> "LSTRING", v |-> <<1, 1, 1, 1>>]>>),
        Call("TONUMBER", <<Double(7, 2)>>), Call("INDEXOF", <<Rule(1, 0, 1), Rule(1, 3, 1)>>),
        Call("INDEXOF", <<Long(1), Long(1)>>)}
  \cup {Call(f, <<String(s)>>) : f \in {"ISNUM", "ISALPHA"}, s \in {<<1, 2>>, Text(Long(5)), <<1, 1002>>}}

-----------------------------------------------------------------------------
\* Requests: items of every type, texts that are blank, too long, or longer than
\* one byte of a length says, one item too many, one value too many.
ItemOf(code, type, list) == [itemCode |-> code, itemType |-> type, vals |-> list]
Some(c, n) == [i \in 1 .. n |-> c]
ItemLists ==
  {MCItems, <<>>, Some(ItemOf(1, "LONG", <<Long(5)>>), MaxItems)}
  \cup {<<ItemOf(1, "LSTRING", <<LText(Some(1, n) \o <<0>>), LText(<<2>>)>>), ItemOf(2, "BOOL", <<Bool(b)>>)>> :
          n \in {0, BYTE - 1, BYTE, 2 * BYTE}, b \in BOOLEAN}
  \cup {<<ItemOf(1, "STRING", <<String(Some(1, n) \o Some(0, m) \o Some(2, k))>>),
          ItemOf(2, "DOUBLE", <<Double(-3, 4), Double(2, 1)>>)>> : n \in 0 .. 2, m \in 0 .. 3, k \in 0 .. 1}
Excessive == {Some(ItemOf(1, "LONG", <<>>), MaxItems + 1),
              <<ItemOf(1, "LONG", Some(Long(1), MaxOcc + 1))>>}

\* Programs: one called with the types of its items and without, one by a stream
\* that holds a number, as many texts, and a fraction.
Field(code, type, l1, l2, max, valid, child) ==
  [itemCode |-> code, itemType |-> type, L1 |-> l1, L2 |-> l2, MaxOcc |-> max,
   ValidOcc_Icd |-> valid, child |-> child]
Stream == <<Field(11, "LONG", 2, 0, 1, 0, <<>>),
            Field(0, "", 2, 0, MaxOcc, 11, <<Field(12, "STRING", 2, 0, 1, 0, <<>>)>>),
            Field(0, "", 3, 0, 1, 0, <<Field(14, "DOUBLE", 3, 1, 1, 0, <<>>)>>)>>
MCPgmNodes == (<<7>> :> [ParmGbn |-> 1, pParm |-> [i \in DOMAIN MCItems |->
                           [itemCode |-> MCItems[i].itemCode, itemType |-> MCItems[i].itemType]]])
                @@ (<<8>> :> [ParmGbn |-> 2, pParm |-> Stream])
Command == WriteString(<<9, 9>>)
HeaderOf(mode) == [Gbn |-> 0, m_MaxPramSize |-> 200, m_parmMode |-> mode]
AllItems(items) == FlattenSeq([i \in DOMAIN items |-> AddItemCount(items[i].vals)])
AllArrays(items) == FlattenSeq([i \in DOMAIN items |-> AddArray(items[i].vals, items[i].itemType)])
Padded(s, n) == s \o Some(0, n - Len(s))

\* What earlier requests and answers have left in the buffer.
OldBuffers == {NewBuffer, PutError(NewBuffer, 4, 7, <<3>>), Put(NewBuffer, Some(BYTE - 1, 120))}

\* The items a request means: texts without blanks at their end, STRINGs cut.
Meant(items) ==
  [i \in DOMAIN items |-> [items[i] EXCEPT !.vals = [j \in DOMAIN @ |->
     CASE @[j].t = "STRING"  -> LET s == Trim(@[j].v) IN String(SubSeq(s, 1, Least(Len(s), STR_VALUE_SIZE)))
       [] @[j].t = "LSTRING" -> LText(Trim(@[j].v))
       [] OTHER -> @[j]]]]
NonEmpty(items) ==
  [i \in DOMAIN items |-> [items[i] EXCEPT !.vals = IF @ = <<>> THEN <<Initial(items[i].itemType)>> ELSE @]]

\* A request and the items it means, none if it is to be refused.
Request(header, body, items) == [header |-> header, body |-> body, items |-> {items}]
Refusal(header, body) == [header |-> header, body |-> body, items |-> {}]
Counted(items) == Command \o Initialize(<<7>>, items) \o AllItems(items)
Requests ==
  UNION {{Request(HeaderOf(0), Counted(items), Meant(items)),
          Request(HeaderOf(0), Command \o Initialize(<<7>>, items) \o AllArrays(items), Meant(NonEmpty(items))),
          Refusal(HeaderOf(0), Initialize(<<7>>, items) \o AllItems(items)),
          Refusal(HeaderOf(0), Command \o Initialize(<<6>>, items))} : items \in ItemLists}
  \cup {Refusal(HeaderOf(0), Counted(items)) : items \in Excessive}
  \cup {Request(HeaderOf(2), Command \o InitializeNoInfo(<<7>>) \o AllItems(MCItems), Meant(MCItems)),
        Refusal(HeaderOf(2), Command \o InitializeNoInfo(<<7>>) \o WriteInt(MaxOcc + 1)),
        Request(HeaderOf(2), Command \o InitializeNoInfo(<<7>>) \o WriteInt(0) \o WriteInt(-1),
                Meant([MCItems EXCEPT ![1].vals = <<>>, ![2].vals = <<>>, ![4].vals = <<>>])),
        Refusal(HeaderOf(2), Command \o InitializeNoInfo(<<7>>) \o WriteInt(0) \o WriteInt(1) \o <<1>>),
        Refusal(HeaderOf(1), Padded(<<7>>, 10) \o AllItems(MCItems)),
        Refusal(HeaderOf(3), Command),
        Refusal([HeaderOf(0) EXCEPT !.Gbn = 1], Command),
        Refusal(HeaderOf(0), Some(1, 200))}
  \cup {Request(HeaderOf(1),
                Padded(<<8>>, 10) \o Padded(Text(Long(Len(texts))), 2)
                  \o Padded(FlattenSeq([i \in DOMAIN texts |-> Padded(texts[i], 2)]), 2 * MaxOcc)
                  \o <<1002, 0, 1005>>,
                <<ItemOf(11, "LONG", <<Long(Len(texts))>>),
                  ItemOf(12, "STRING", [i \in DOMAIN texts |-> String(Trim(texts[i]))]),
                  ItemOf(14, "DOUBLE", <<Double(5, 2)>>)>>) :
          texts \in {<< <<1>>, <<2, 1>> >>, << <<>>, <<1, 2>>, <<0, 3>> >>}}
Listings == {Some(1, n) : n \in {1, BYTE - 1, BYTE, 3 * BYTE}}

\* The rules, each with what it is drawn from.
MCGivenRules ==
  LET From(kind, xs, RuleOf(_)) == {<<kind, x, RuleOf(x)>> : x \in xs}
      Alike(kind, rules) == {<<kind, {}, r>> : r \in rules}
      One(x) == TreeRule(L(1))
  IN  From("tree", Trees, TreeRule) \cup From("program", Programs, FlowRule)
        \cup From("call", Calls, CallRule) \cup From("other call", OtherCalls, CallRule)
        \cup From("request", Requests, One) \cup From("text", Listings, One)
        \cup Alike("table", Tables)
        \cup Alike("other", RowRules \cup Likes \cup LineRules \cup OddFlows)

MCInit ==
  \E given \in GivenRules :
    RunInit(given[3] @@ [source |-> [kind |-> given[1], of |-> given[2]]])

MCSpec == MCInit /\ [][RunNext]_vars

-----------------------------------------------------------------------------
NoEnv == [index |-> [i \in Indexes |-> -1], kept |-> [n \in {} |-> <<>>]]

\* An expression without AND and OR side by side has the value of its tree, where
\* AND and OR skip an operand or do not: it fails only where the tree does
\* when everything is computed (CalcExpression with its early return).
ExpressionIsTree ==
  rule.source.kind = "tree" /\ expResult \notin {Pending, None} /\ ~Mixed(toks)
    => IF expResult = Error THEN Strict(rule.source.of, NoEnv) = Error
                            ELSE expResult = Lazy(rule.source.of, NoEnv)

KeptValues ==
  [name \in DOMAIN m_pGVList |->
     [i \in DOMAIN m_pGVList[name].vals |->
        [t |-> m_pGVList[name].vType, v |-> m_pGVList[name].vals[i]]]]

\* A flow drawn from a structured program returns that program's rows and keeps
\* its values, and fails only as the program does (CMRFInterpreter::Running, the
\* loop indexes of CMRRunner, the values SETVAL and the like keep).
FlowIsProgram ==
  rule.source.kind = "program" /\ pc \in {"done", "failed"} =>
    \A meaning \in {Meaning(rule.source.of, NoEnv)} :
      /\ pc = "failed" <=> <<Error>> \in ToSet(meaning.rows)
      /\ pc = "done" => rows = meaning.rows /\ KeptValues = meaning.kept

\* A function returns what the calendar, the distance to its argument, the text or
\* the column it is applied to says (CMRExpression::CalcFunction).
FunctionsAgree ==
  rule.source.kind = "call" /\ Got("column")
    => Agrees(rule.source.of.f, rule.source.of.xs, expResult)

\* A request arrives as the items it means, or is refused where it means none; a
\* file or a listing arrives whole; an error's code reaches the client.
RequestArrives(req) ==
  \A b \in OldBuffers, left \in {<<>>, <<3>>} :
    \A got \in {ProcessRequest(b, req.header, req.body, left)} :
      IF req.items = {}
        THEN /\ got.rc # 0
             /\ ClientBuildResult(Sent(PutError(b, got.rc, got.code, <<1>>))).val = got.code
        ELSE got.rc = 0 /\ got.items \in req.items

TextArrives(s) ==
  \A b \in OldBuffers :
    /\ InLongString(Sent(PutLongString(Clear1(b), s)), [at |-> 1, val |-> 0, ok |-> TRUE]).val = s
    /\ ReadByteFile(Receive(b, WriteByteFile(s)), Reader(0, <<>>)).str = s

\* The fields of these kinds, one after the other, and the rows of them.
InField(in, r, kind) ==
  CASE kind = "LONG"   -> InInt(in, r)
    [] kind = "DOUBLE" -> InDouble(in, r)
    [] kind = "BYTE"   -> InByte(in, r)
    [] OTHER           -> InString(in, r)

ReadFields(in, start, kinds) ==
  FoldLeft(LAMBDA acc, kind : LET q == InField(in, acc.r, kind)
                              IN  [r |-> q, vals |-> Append(acc.vals, q.val)],
           [r |-> start, vals |-> <<>>], kinds)

ReadRows(in) ==
  LET Row(r, codes) == ReadFields(in, r, [c \in DOMAIN codes |-> TypeOf(codes[c])])
      Rows(types, n) ==
        FoldLeft(LAMBDA acc, k : LET got == Row(acc.r, types.vals)
                                 IN  [r |-> got.r, rows |-> Append(acc.rows, got.vals)],
                 [r |-> types.r, rows |-> <<>>], [k \in 1 .. n |-> k])
      Body(head) == Rows(ReadFields(in, head.r, [c \in 1 .. head.vals[2] |-> "BYTE"]),
                         head.vals[1])
  IN  Body(ReadFields(in, ClientBuildResult(in), <<"LONG", "LONG", "BYTE", "STRING">>)).rows

ShownAs(x) == CASE x.t \in {"LONG", "BOOL"} -> x.v[1]
                [] x.t = "DOUBLE" -> x
                [] OTHER -> x.v

\* The answer is no longer than the buffer; a text that did not fit would be missing.
AnswerFits(list, types) ==
  LET FieldWidth(x) == 2 + Len(IF x.t = "BOOL" THEN Text(x) ELSE FixedText(x))
      RowWidth(row) == FoldLeft(LAMBDA n, c : n + FieldWidth(row[c]), 0, [c \in DOMAIN types |-> c])
  IN  HEADER + 12 + Len(types) + FoldLeft(LAMBDA n, row : n + RowWidth(row), 0, list) <= OBJ_MAX_LENGTH

\* Whatever the buffer held, a request arrives as the items the client meant or is
\* refused with a code the client sees; and the rows the client reads from an
\* answer that fits are those the rule returned (CFAPI5J and MTObjectOut, CBRMObj,
\* CMRDataList::BuildPgmParms and BuildPgmReturn, MTObjectIn).
ReplyIsRows ==
  /\ pc = "next" /\ rule.source.kind = "request" => RequestArrives(rule.source.of)
  /\ pc = "next" /\ rule.source.kind = "text" => TextArrives(rule.source.of)
  /\ pc = "done" /\ AnswerFits(rows, rule.retType) =>
       \A b \in OldBuffers :
         LET in == Sent(BuildPgmReturn(b, rows, rule.retType))
         IN  /\ ClientBuildResult(in).val = 0
             /\ ReadRows(in) =
                  [i \in DOMAIN rows |-> [c \in DOMAIN rule.retType |-> ShownAs(rows[i][c])]]
=============================================================================
