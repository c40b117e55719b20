---------------------------- MODULE RuleMeaning -----------------------------
(***************************************************************************)
(* What rules mean, apart from how they are run: an expression is a tree,  *)
(* a flow is a program of returns, choices and loops, and a table is the   *)
(* rows whose cells admit the values. TextOf and Compile give the text and *)
(* the nodes a rule author would write and draw for a tree and a program.  *)
(***************************************************************************)
EXTENDS RuleLoad, TableMeaning

\* A tree is [k |-> kind, args |-> values, sub |-> subtrees].
Leaf(x) == [k |-> "value", args |-> <<x>>, sub |-> <<>>]
Index(i) == [k |-> "index", args |-> <<Long(i)>>, sub |-> <<>>]
Item(code, row) == [k |-> "item", args |-> <<Long(code), Long(row)>>, sub |-> <<>>]
Kept(name, i) == [k |-> "GETVAL", args |-> <<String(name), Long(i)>>, sub |-> <<>>]
Op(k, trees) == [k |-> k, args |-> <<>>, sub |-> trees]
Test(k, tree, args) == [k |-> k, args |-> args, sub |-> <<tree>>]

\* What a list operator says of the list an operand stands for: its values as a
\* set, and for ARREQUAL one by one. Texts count without blanks at their end, but
\* not for MATCH.
Cut(x) == IF x.t = "STRING" THEN Trim(x.v) ELSE x.v
ListTest(k, a, b, sameType, constants) ==
  LET mine == {Cut(y) : y \in ToSet(a)}
      common == mine \cap {Cut(y) : y \in ToSet(b)}
      Fits(i) == Cut(a[i]) \in {Cut(y) : y \in ToSet(Alternatives(b[i]))}
  IN  CASE k = "IN"       -> sameType /\ common # {}
        [] k = "NIN"      -> ~(sameType /\ common # {})
        [] k = "SUBSET"   -> sameType /\ mine = common /\ (constants => mine # {})
        [] k = "ARREQUAL" -> sameType /\ Len(a) = Len(b) /\ \A i \in DOMAIN a : Fits(i)
        [] k = "MATCH"    -> sameType /\ \E y \in ToSet(a), z \in ToSet(b) : matchValues(y.v, z.v)

\* Constants are read as the list they are compared with asks for.
Listwise(k, x, args) ==
  LET constants == args[1].t \notin {"RULE", "GLOBAL"}
      Read(y, type) == IF type = "LONG" /\ y.t = "STRING" THEN Long(Number(y.v)) ELSE y
      Others(type) == IF constants THEN [i \in DOMAIN args |-> Read(args[i], type)]
                                   ELSE Listed(args[1])
      Against(a) ==
        IF a.type = "ERROR" \/ \E y \in ToSet(args) : y.t = "BOOL" THEN Error
        ELSE Bool(ListTest(k, a.vals, Others(a.type),
                           constants \/ ColumnType(args[1]) = a.type, constants))
  IN  Against(SourceList(x))

Applied(tree, x1, x2) ==
  CASE x1 = Error \/ x2 = Error -> Error
    [] tree.k = "NOT" -> CALC_NOT(x1)
    [] tree.k = "BETWEEN" -> Between(x1, tree.args[1], tree.args[2])
    [] OTHER -> Binary(tree.k, x1, x2)

\* env holds the indexes of the loops and, by name, the lists of kept values.
LeafValue(tree, env) ==
  LET n == tree.args[1].v[1]
      name == tree.args[1].v
      i == tree.args[2].v[1]
  IN  CASE tree.k = "value" -> tree.args[1]
        [] tree.k = "index" -> IF env.index[n] < 0 THEN Error ELSE Long(env.index[n])
        [] tree.k = "item"  -> getGlobalItemValue(n, i)
        [] tree.k = "GETVAL" -> IF name \notin DOMAIN env.kept THEN Error
                                ELSE IF i > Len(env.kept[name]) THEN Error
                                ELSE env.kept[name][i]

\* The value when both operands always count.
RECURSIVE Strict(_, _)
Strict(tree, env) ==
  LET x(i) == Fetched(Strict(tree.sub[i], env))
  IN  CASE tree.sub = <<>> -> LeafValue(tree, env)
        [] tree.k \in ListOperators -> Listwise(tree.k, Strict(tree.sub[1], env), tree.args)
        [] OTHER -> Applied(tree, x(1), x(Len(tree.sub)))

\* The value when AND and OR do not look at the second operand they do not need.
Settled(k, x) == k \in {"AND", "OR"} /\ x # Error /\ Truth(x) = (k = "OR")

RECURSIVE Lazy(_, _)
Lazy(tree, env) ==
  LET x(i) == Fetched(Lazy(tree.sub[i], env))
  IN  CASE tree.sub = <<>> -> LeafValue(tree, env)
        [] tree.k \in ListOperators -> Listwise(tree.k, Lazy(tree.sub[1], env), tree.args)
        [] OTHER -> IF Settled(tree.k, x(1)) THEN Bool(tree.k = "OR")
                    ELSE Applied(tree, x(1), x(Len(tree.sub)))

-----------------------------------------------------------------------------
\* Texts are written without blanks, but for those that part a word from what
\* stands before it, or a bare keyword from what follows.
Lexeme(c, content) == [c |-> c, says |-> content, tight |-> TRUE]
Sign(c) == <<Lexeme(c, 0)>>
Blank(text) == <<[text[1] EXCEPT !.tight = FALSE]>> \o Tail(text)
Keyword(k) ==
  LET parts == Keywords[SelectInSeq(Keywords, LAMBDA e : e.k = k)].w
  IN  Blank([i \in DOMAIN parts |-> Lexeme("word", parts[i])])

Parenthesized(text) == Sign("(") \o text \o Sign(")")
SignText(k) ==
  CASE k = "^" -> Sign("*") \o Sign("*")
    [] k = "<=" -> Sign("<") \o Sign("=")
    [] k = ">=" -> Sign(">") \o Sign("=")
    [] k = "<>" -> Sign("<") \o Sign(">")
    [] OTHER -> Sign(k)

\* Texts with a sign between them.
Joined(sign, texts) ==
  FlattenSeq([i \in DOMAIN texts |-> (IF i = 1 THEN <<>> ELSE Sign(sign)) \o texts[i]])

NumberText(x) ==
  IF x.v[1] < 0 THEN Sign("-") \o <<Lexeme("number", Negative(x))>> ELSE <<Lexeme("number", x)>>
RowText(i) == IF i = 0 THEN <<>> ELSE Parenthesized(NumberText(Long(i)))
ItemText(code, row) == Sign("[") \o NumberText(Long(code)) \o Sign("]") \o RowText(row)
RuleTextOf(n, row, column) ==
  Sign("{") \o NumberText(Long(n)) \o Sign(":")
    \o (IF RuleResults[n].parms THEN NumberText(Long(7)) ELSE <<>>)
    \o Sign(":") \o NumberText(Long(column)) \o Sign("}") \o RowText(row)

ValueText(x) ==
  CASE x.t \in {"LONG", "DOUBLE"} -> NumberText(x)
    [] x.t = "BOOL" -> Keyword(IF Truth(x) THEN "TRUE" ELSE "FALSE")
    [] x.t \in {"STRING", "LSTRING"} -> <<Lexeme("text", x.v)>>
    [] x.t = "RULE" -> RuleTextOf(x.v[1], x.v[2], x.v[3])
    [] x.t = "GLOBAL" -> ItemText(Items[x.v[1]].itemCode, x.v[2])
    [] x.t = "CHOICE" -> Joined("|", [i \in DOMAIN x.v |-> NumberText(x.v[i])])

ValueTexts(xs) == [i \in DOMAIN xs |-> ValueText(xs[i])]
CallText(k, texts) == Keyword(k) \o Parenthesized(Joined(",", texts))

LeafText(tree) ==
  CASE tree.k = "value"  -> ValueText(tree.args[1])
    [] tree.k = "index"  -> Sign("#") \o NumberText(tree.args[1])
    [] tree.k = "item"   -> ItemText(tree.args[1].v[1], tree.args[2].v[1])
    [] tree.k = "GETVAL" -> CallText("GETVAL", ValueTexts(tree.args))

\* Operators of the same precedence associate to the left. After the row of a rule
\* or an item, a sign must not touch the number behind it: CMRToken has read a
\* parenthesis before it and would take it for the number's own.
RECURSIVE TextOf(_)
TextOf(tree) ==
  LET Loose(i) == /\ tree.sub[i].sub # <<>>
                  /\ \/ Precedence(tree.sub[i].k) > Precedence(tree.k)
                     \/ (i = 2 \/ tree.k = "NOT")
                          /\ Precedence(tree.sub[i].k) = Precedence(tree.k)
      Part(i) == IF Loose(i) THEN Parenthesized(TextOf(tree.sub[i])) ELSE TextOf(tree.sub[i])
      hasRow == tree.sub[1].sub = <<>> /\ Part(1)[Len(Part(1))].c = ")"
  IN  CASE tree.sub = <<>> -> LeafText(tree)
        [] tree.k = "NOT" -> Keyword("NOT") \o Blank(Part(1))
        [] tree.k \in ListOperators \cup {"BETWEEN"} -> Part(1) \o CallText(tree.k, ValueTexts(tree.args))
        [] tree.k \in {"AND", "OR"} -> Part(1) \o Keyword(tree.k) \o Blank(Part(2))
        [] OTHER -> Part(1) \o SignText(tree.k) \o (IF hasRow THEN Blank(Part(2)) ELSE Part(2))

\* AND and OR both occur outside all parentheses.
Mixed(list) ==
  LET Depth(i) == Cardinality({j \in 1 .. i : list[j].k = "("})
                    - Cardinality({j \in 1 .. i : list[j].k = ")"})
      Outside(k) == \E i \in DOMAIN list : list[i].k = k /\ Depth(i) = 0
  IN  Outside("AND") /\ Outside("OR")

-----------------------------------------------------------------------------
\* A program is a list of statements [k |-> "return", "if", "case", "loop" or an
\* update of the kept values, tree, idx |-> a loop's index or a value's, parts |->
\* programs, texts |-> what chooses them, or the name of the kept values].
Stmt(k, tree, idx, parts, texts) ==
  [k |-> k, tree |-> tree, idx |-> idx, parts |-> parts, texts |-> texts]
Return(tree) == Stmt("return", tree, 0, <<>>, <<>>)
If(tree, then, else) == Stmt("if", tree, 0, <<then, else>>, <<Text(Bool(TRUE)), Text(Bool(FALSE))>>)
Case(tree, texts, parts) == Stmt("case", tree, 0, parts, texts)
Loop(i, tree, body) == Stmt("loop", tree, i, <<body>>, <<>>)
Update(k, name, tree, i) == Stmt(k, tree, i, <<>>, <<name>>)

Failure == <<<<Error>>>>

\* The kept values after an update with x, as a set that is empty if the update
\* fails. All values of a name have the type of the first one.
Updated(s, kept, x) ==
  LET name == s.texts[1]
      list == kept[name]
      Typed == list[1].t = x.t
  IN  CASE s.k = "CLRVAL" -> {[n \in DOMAIN kept \ {name} |-> kept[n]]}
        [] s.k # "CLRVAL" /\ name \notin DOMAIN kept -> {kept @@ (name :> <<x>>)}
        [] OTHER ->
             {new \in {[kept EXCEPT ![name] =
                          CASE s.k = "SETVAL" -> [i \in DOMAIN list |-> IF i = s.idx THEN x ELSE list[i]]
                            [] s.k = "PUSHVAL" -> Append(list, x)
                            [] OTHER -> <<Long(list[1].v[1] + x.v[1])>> \o Tail(list)]} :
                /\ Typed
                /\ s.k = "SETVAL" => s.idx <= Len(list)
                /\ s.k \in {"ADDVAL", "INCVAL"} => x.t = "LONG"}

\* The rows it returns and what it keeps; Error among the rows of a program that
\* fails. A loop runs as often as its number says, and not at all without a number.
RECURSIVE Meaning(_, _)
Then(before, next, env) ==
  LET after == Meaning(next, [env EXCEPT !.kept = before.kept])
  IN  IF <<Error>> \in ToSet(before.rows) \/ next = <<>> THEN before
      ELSE [rows |-> before.rows \o after.rows, kept |-> after.kept]

\* One statement, whose tree has the value x.
StatementMeaning(s, x, env) ==
  LET Result(rs) == [rows |-> rs, kept |-> env.kept]
      New == IF Fetched(x) = Error THEN {} ELSE Updated(s, env.kept, Fetched(x))
      Chosen(text) ==
        LET i == SelectInSeq(s.texts, LAMBDA t : t = text)
            d == SelectInSeq(s.texts, LAMBDA t : t = Star)
        IN  IF i # 0 THEN s.parts[i] ELSE IF d # 0 THEN s.parts[d] ELSE <<>>
      Passes == FoldLeft(LAMBDA r, i : Then(r, s.parts[1], [env EXCEPT !.index[s.idx] = i]),
                         Result(<<>>),
                         [i \in 1 .. (IF x.t = "LONG" THEN x.v[1] ELSE 0) |-> i])
  IN  CASE x = Error \/ (s.k = "loop" /\ env.index[s.idx] >= 0) -> Result(Failure)
        [] s.k = "return" -> Result(<<<<ToReturnType(x, "LONG")>>>>)
        [] s.k = "if" -> Meaning(s.parts[IF Truth(x) THEN 1 ELSE 2], env)
        [] s.k = "case" -> Meaning(Chosen(CaseText(x)), env)
        [] s.k = "loop" -> Passes
        [] OTHER -> IF New = {} THEN Result(Failure)
                    ELSE [rows |-> <<>>, kept |-> CHOOSE new \in New : TRUE]

Meaning(prog, env) ==
  IF prog = <<>> THEN [rows |-> <<>>, kept |-> env.kept]
  ELSE Then(StatementMeaning(prog[1], Lazy(prog[1].tree, env), env), Tail(prog), env)

RECURSIVE Size(_)
Size(prog) ==
  IF prog = <<>> THEN 0
  ELSE 1 + FoldLeft(LAMBDA n, part : n + Size(part), 0, prog[1].parts) + Size(Tail(prog))

FlowNode(type, text, sw) == [pType |-> type, text |-> text, sw |-> sw]
To(text, link) == [caseExp |-> text, Link |-> link]

\* The nodes from number base on, as they are loaded; the program goes on to node next.
RECURSIVE Compile(_, _, _)
Compile(prog, base, next) ==
  LET s == prog[1]
      Before(i) == FoldLeft(LAMBDA n, part : n + Size(part), 0, SubSeq(s.parts, 1, i - 1))
      rest == base + 1 + Before(Len(s.parts) + 1)
      after == IF Tail(prog) = <<>> THEN next ELSE rest
      back == IF s.k = "loop" THEN base ELSE after
      Entry(i) == IF s.parts[i] = <<>> THEN back ELSE base + 1 + Before(i)
      body == FlattenSeq([i \in DOMAIN s.parts |->
                            Compile(s.parts[i], base + 1 + Before(i), back)])
      choices == [i \in DOMAIN s.parts |-> To(s.texts[i], Entry(i))]
      text == TextOf(s.tree)
      update == CallText(s.k, <<ValueText(String(s.texts[1]))>>
                                \o (IF s.k \in {"INCVAL", "CLRVAL"} THEN <<>> ELSE <<text>>)
                                \o (IF s.k = "SETVAL" THEN <<NumberText(Long(s.idx))>> ELSE <<>>))
      this == CASE s.k = "return" -> FlowNode("RET", text, <<To(<<>>, after)>>)
                [] s.k = "if"   -> FlowNode("IF", text, choices)
                [] s.k = "case" -> FlowNode("CASE", text, choices)
                [] s.k = "loop" -> FlowNode("LOOP", text,
                                            <<To(<<s.idx>>, Entry(1)), To(<<>>, after)>>)
                [] OTHER -> FlowNode("EXEC", update, <<To(<<>>, after)>>)
  IN  IF prog = <<>> THEN <<>>
      ELSE <<this>> \o body \o Compile(Tail(prog), rest, next)

Flow(prog) ==
  LET last == Size(prog) + 2
      start == FlowNode("START", <<>>, <<To(<<>>, IF prog = <<>> THEN last ELSE 2)>>)
  IN  <<start>> \o Compile(prog, 2, last) \o <<FlowNode("END", <<>>, <<>>)>>

=============================================================================
