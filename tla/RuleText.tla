------------------------------ MODULE RuleText ------------------------------
(***************************************************************************)
(* CMRToken (Runner/MRToken.cpp) and CMRParser (Runner/MRPARSE.cpp): from  *)
(* the text of an expression to its tokens.                                *)
(*                                                                         *)
(* A text is a sequence of lexemes [c |-> class, says |-> content, tight   *)
(* |-> no blank stands before it]: a sign, whose class is its character; a *)
(* number, whose content is its value; a quoted text; a word between two   *)
(* @; a word. A keyword that begins another one is a word of its own, as   *)
(* "IN" and "DEXOF" in INDEXOF, the second one tight. No quoted text holds *)
(* a parenthesis, which getParenExpression would count, and no number a #. *)
(*                                                                         *)
(* A token is [k |-> kind, x |-> its value, args |-> lists of tokens, idx  *)
(* |-> a list of tokens]: k is "value", "item", "local", "index", "rule"   *)
(* (whose x holds number and column, whose args are its parameters and     *)
(* whose idx is the row), a sign, an operator or a function. What can fail *)
(* yields a set, empty if it does.                                         *)
(***************************************************************************)
EXTENDS RuleFunctions

Tok(k, x) == [k |-> k, x |-> x, args |-> <<>>, idx |-> <<>>]
Plain(k) == Tok(k, Long(0))

\* A token, and where the text goes on; the end of it; what is no token (m_lCode).
Lexed(tok, at) == [tok |-> tok, at |-> at]
End == Lexed(Plain("END"), 0)
NoToken == Lexed(Plain("NO TOKEN"), 0)

LexemeAt(text, i) == IF i <= Len(text) THEN text[i] ELSE [c |-> "", says |-> 0, tight |-> FALSE]
Stands(text, i, c) == LexemeAt(text, i).c = c
Follows(text, i, c) == Stands(text, i, c) /\ LexemeAt(text, i).tight

-----------------------------------------------------------------------------
\* The keywords in the order they are looked for, and the kinds they stand for.
Keywords_AC ==
  << [w |-> <<"AND">>, k |-> "AND"], [w |-> <<"AGE">>, k |-> "AGE"],
     [w |-> <<"ADDVAL">>, k |-> "ADDVAL"], [w |-> <<"BETWEEN">>, k |-> "BETWEEN"],
     [w |-> <<"CLEAR">>, k |-> "RCLEAR"], [w |-> <<"CLRVAL">>, k |-> "CLRVAL"] >>

Keywords_D ==
  << [w |-> <<"DOUBLE">>, k |-> "TODOUBLE"], [w |-> <<"DATE", "PLUSMON">>, k |-> "DATEPLUSMON"],
     [w |-> <<"DATE">>, k |-> "DATE"], [w |-> <<"DAYS">>, k |-> "DURATION"],
     [w |-> <<"DISPLAY">>, k |-> "DISPLAY"], [w |-> <<"DAMBONAME", "2">>, k |-> "SPECIAL"],
     [w |-> <<"DAMBONAME">>, k |-> "SPECIAL"], [w |-> <<"DAMBOGAIP">>, k |-> "SPECIAL"],
     [w |-> <<"DAMBOGM">>, k |-> "SPECIAL"] >>

Keywords_EL ==
  << [w |-> <<"EXEC">>, k |-> "EXEC"], [w |-> <<"EQ">>, k |-> "ARREQUAL"],
     [w |-> <<"EXTERN">>, k |-> "EXTERN"], [w |-> <<"FALSE">>, k |-> "FALSE"],
     [w |-> <<"FINDVAL">>, k |-> "FINDVAL"], [w |-> <<"GETSVAL">>, k |-> "GETVAL"],
     [w |-> <<"GETNVAL">>, k |-> "GETVAL"], [w |-> <<"IN", "DEXOF">>, k |-> "INDEXOF"],
     [w |-> <<"IN", "CVAL">>, k |-> "INCVAL"], [w |-> <<"IN">>, k |-> "IN"],
     [w |-> <<"ISNUM">>, k |-> "ISNUM"], [w |-> <<"ISALPHA">>, k |-> "ISALPHA"],
     [w |-> <<"LASTDAMBO">>, k |-> "SPECIAL"] >>

Keywords_MP ==
  << [w |-> <<"MONTHS">>, k |-> "MONTH"], [w |-> <<"MAX">>, k |-> "MAX"],
     [w |-> <<"MIN">>, k |-> "MIN"], [w |-> <<"MATCH">>, k |-> "MATCH"],
     [w |-> <<"NIN">>, k |-> "NIN"], [w |-> <<"NUMBER">>, k |-> "TONUMBER"],
     [w |-> <<"NOT">>, k |-> "NOT"], [w |-> <<"OR">>, k |-> "OR"],
     [w |-> <<"PUSHVAL">>, k |-> "PUSHVAL"] >>

Keywords_RT ==
  << [w |-> <<"RES_AGE">>, k |-> "RES_AGE"], [w |-> <<"ROUND">>, k |-> "ROUND"],
     [w |-> <<"ROWS">>, k |-> "ROWS"], [w |-> <<"SETVAL">>, k |-> "SETVAL"],
     [w |-> <<"STRLEN">>, k |-> "LEN"], [w |-> <<"STRING">>, k |-> "TOSTRING"],
     [w |-> <<"SUBSET">>, k |-> "SUBSET"], [w |-> <<"SUBSTR">>, k |-> "SUBSTR"],
     [w |-> <<"SUM">>, k |-> "SUM"], [w |-> <<"TRUE">>, k |-> "TRUE"],
     [w |-> <<"TODAY">>, k |-> "TODAY"], [w |-> <<"TRUNC">>, k |-> "TRUNC"] >>

Keywords == Keywords_AC \o Keywords_D \o Keywords_EL \o Keywords_MP \o Keywords_RT

\* Those that stand without parentheses; the others are functions, IN and the like.
Bare == {"AND", "OR", "NOT", "TRUE", "FALSE"}
Called == {e.k : e \in ToSet(Keywords)} \ Bare

\* The operators, after which a sign is that of the number behind it.
Signs == {"^", "*", "/", "%", "+", "-", "=", "<", ">", "<=", ">=", "<>"}
Operators == Signs \cup ListOperators \cup {"BETWEEN", "NOT", "AND", "OR"}

SignCharacters == {"*", "/", "%", "+", "-", "=", "<", ">", "(", ")", ":", ",", "|"}

-----------------------------------------------------------------------------
\* getToken_ALPHA: AND, OR and NOT end anywhere, TRUE and FALSE not before a letter
\* or a digit; the others are followed by an open parenthesis (checkFuncBegin).
getToken_ALPHA(text, i) ==
  LET Spells(e) == \A j \in DOMAIN e.w : /\ Stands(text, i + j - 1, "word")
                                         /\ LexemeAt(text, i + j - 1).says = e.w[j]
                                         /\ j > 1 => LexemeAt(text, i + j - 1).tight
      n == SelectInSeq(Keywords, Spells)
      k == Keywords[n].k
      at == i + Len(Keywords[n].w)
      goesOn == Follows(text, at, "word") \/ Follows(text, at, "number")
  IN  CASE n = 0 -> NoToken
        [] n > 0 /\ k \in {"AND", "OR", "NOT"} -> Lexed(Plain(k), at)
        [] n > 0 /\ k \in {"TRUE", "FALSE"} ->
             IF goesOn THEN NoToken ELSE Lexed(Tok("value", Bool(k = "TRUE")), at)
        [] n > 0 /\ k \in Called ->
             IF Stands(text, at, "(") THEN Lexed(Plain(k), at + 1) ELSE NoToken

\* A text that fills a STRING is a LSTRING already.
getToken_String(s) ==
  Tok("value", [t |-> IF Len(s) < STR_VALUE_SIZE THEN "STRING" ELSE "LSTRING", v |-> s])

\* A number too large for a LONG is a DOUBLE.
getToken_Number(x) == IF x.t = "LONG" /\ x.v[1] > 2000000000 THEN Double(x.v[1], 1) ELSE x
Negative(x) == [x EXCEPT !.v[1] = -@]

\* check_Unary: prev is the token before the sign.
check_Unary(text, i, prev) ==
  Follows(text, i + 1, "number") /\ prev \in {"NONE", "("} \cup Operators

getToken_Sign(text, i, prev) ==
  LET sign == text[i].c
      number == getToken_Number(LexemeAt(text, i + 1).says)
  IN  CASE sign = "*" /\ Follows(text, i + 1, "*") -> Lexed(Plain("^"), i + 2)
        [] sign \in {"<", ">"} /\ Follows(text, i + 1, "=") -> Lexed(Plain(sign \o "="), i + 2)
        [] sign = "<" /\ Follows(text, i + 1, ">") -> Lexed(Plain("<>"), i + 2)
        [] sign \in {"+", "-"} /\ check_Unary(text, i, prev) ->
             Lexed(Tok("value", IF sign = "-" THEN Negative(number) ELSE number), i + 2)
        [] OTHER -> Lexed(Plain(sign), i + 1)

\* An index of a loop: # and one digit.
getToken_Index(text, i) ==
  LET next == LexemeAt(text, i + 1)
  IN  IF /\ Follows(text, i + 1, "number")
         /\ next.says \in {Long(n) : n \in 1 .. 3}
         /\ ~Follows(text, i + 2, "word")
        THEN Lexed(Tok("index", next.says), i + 2) ELSE NoToken

\* getToken_Item and getToken_Local: all up to the closing sign, as a number.
getToken_Delimited(text, i, k, close) ==
  LET stops == {j \in i + 1 .. Len(text) : text[j].c = close}
      stop == CHOOSE j \in stops : \A n \in stops : j <= n
      code == IF Stands(text, i + 1, "number") THEN LexemeAt(text, i + 1).says ELSE Long(0)
  IN  IF stops = {} THEN NoToken ELSE Lexed(Tok(k, code), stop + 1)

\* How many more of one sign than of the other stand from position i to j.
Open(text, i, j, left, right) ==
  Cardinality({n \in i .. j : text[n].c = left}) - Cardinality({n \in i .. j : text[n].c = right})

\* parseRuleInfo: the parameters end at a colon or the closing brace outside all
\* rules in them; at the end of the text if there is none.
parseRuleInfo(text, i) ==
  LET stops == {j \in i .. Len(text) : /\ text[j].c \in {":", "}"}
                                       /\ Open(text, i, j - 1, "{", "}") = 0}
  IN  IF stops = {} THEN Len(text) + 1 ELSE CHOOSE j \in stops : \A n \in stops : j <= n

\* A rule: its number, its parameters, which are still text, and a column.
getToken_Rule(text, i) ==
  LET id == LexemeAt(text, i + 1).says.v[1]
      stop == parseRuleInfo(text, i + 3)
      hasColumn == Follows(text, stop + 1, "number")
      column == IF hasColumn THEN LexemeAt(text, stop + 1).says.v[1] ELSE 0
  IN  IF ~Follows(text, i + 1, "number") \/ id = 0 THEN NoToken
      ELSE Lexed([k |-> "rule", x |-> [t |-> "RULE", v |-> <<id, column>>],
                 args |-> SubSeq(text, i + 3, stop - 1), idx |-> <<>>],
                stop + 2 + (IF hasColumn THEN 1 ELSE 0))

\* getToken and getNextToken. An unknown word between two @ ends the text like
\* its end.
getToken(text, i, prev) ==
  LET this == text[i]
  IN  CASE i > Len(text) -> End
        [] i <= Len(text) /\ this.c = "word" -> getToken_ALPHA(text, i)
        [] i <= Len(text) /\ this.c = "text" -> Lexed(getToken_String(this.says), i + 1)
        [] i <= Len(text) /\ this.c = "number" ->
             Lexed(Tok("value", getToken_Number(this.says)), i + 1)
        [] i <= Len(text) /\ this.c = "$" -> getToken_Delimited(text, i, "local", "$")
        [] i <= Len(text) /\ this.c = "[" -> getToken_Delimited(text, i, "item", "]")
        [] i <= Len(text) /\ this.c = "{" -> getToken_Rule(text, i)
        [] i <= Len(text) /\ this.c = "#" -> getToken_Index(text, i)
        [] i <= Len(text) /\ this.c = "@" ->
             IF this.says \in {"BREAK", "CONTINUE", "EXIT"} THEN Lexed(Plain(this.says), i + 1) ELSE End
        [] i <= Len(text) /\ this.c \in SignCharacters ->
             getToken_Sign(text, i, prev)
        [] OTHER -> NoToken

\* Where the parenthesis is closed that has been opened before i; 0 for nowhere.
getParenExpression(text, i) ==
  LET ends == {j \in i .. Len(text) : text[j].c = ")" /\ Open(text, i, j - 1, "(", ")") = 0}
  IN  IF ends = {} THEN 0 ELSE CHOOSE j \in ends : \A n \in ends : j <= n

\* The first comma outside all parentheses and rules; behind the text if there is none.
getExpression(text) ==
  LET commas == {j \in DOMAIN text : /\ text[j].c = ","
                                     /\ Open(text, 1, j, "(", ")") = 0
                                     /\ Open(text, 1, j, "{", "}") = 0}
  IN  IF commas = {} THEN Len(text) + 1 ELSE CHOOSE j \in commas : \A n \in commas : j <= n

-----------------------------------------------------------------------------
\* Parse from position i on, with the tokens so far: list holds those of the
\* expression, prev what CMRToken has read last, the open parenthesis of an index
\* too.
RECURSIVE Parse(_, _, _, _), ParseResult(_)

ParseExpression(text) == Parse(text, 1, "NONE", <<>>)

Parse(text, i, prev, list) ==
  LET got == getToken(text, i, prev)
      tok == got.tok
      close == getParenExpression(text, got.at)
      inner == SubSeq(text, got.at, close - 1)
      isIndex == tok.k = "(" /\ list # <<>> /\ list[Len(list)].k \in {"rule", "item"}
      On(new, at) == Parse(text, at, tok.k, new)
  IN  CASE tok.k = "END" -> {list}
        [] tok.k = "NO TOKEN" -> {}
        [] isIndex ->
             IF close = 0 THEN {}
             ELSE UNION {On([list EXCEPT ![Len(list)].idx = row], close + 1) :
                           row \in ParseExpression(inner)}
        [] tok.k = "rule" ->
             UNION {On(Append(list, [tok EXCEPT !.args = parms]), got.at) :
                      parms \in ParseResult(tok.args)}
        [] tok.k \in Called ->
             IF close = 0 THEN {}
             ELSE UNION {On(Append(list, [tok EXCEPT !.args = args]), close + 1) :
                           args \in ParseResult(inner)}
        [] OTHER -> On(Append(list, tok), got.at)

\* The expressions between the commas. What stands before a comma may be empty,
\* behind the last one it is no expression.
ParseResult(text) ==
  LET n == getExpression(text)
  IN  IF text = <<>> THEN {<<>>}
      ELSE {<<list>> \o others : list \in ParseExpression(SubSeq(text, 1, n - 1)),
                                 others \in ParseResult(SubSeq(text, n + 1, Len(text)))}
=============================================================================
