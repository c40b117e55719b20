----------------------------- MODULE Expression -----------------------------
(***************************************************************************)
(* CMRExpression::CalcExpression (Runner/MREXPRES.cpp): an expression, a   *)
(* list of tokens, is computed from left to right with a stack of operands *)
(* and a stack of operators. Each token is a step.                         *)
(*                                                                         *)
(* A token is [k |-> kind, args |-> values]: an operand (k = "value") with *)
(* its value, an item by its code and row (k = "item"), an index of the    *)
(* rule's loops (k = "index"), a parenthesis, an operator, IN and BETWEEN  *)
(* with their operands, or a function with its arguments. Parameters are   *)
(* values: the code fetches them when they are used, which nothing         *)
(* changes. A rule is an operand too.                                      *)
(*                                                                         *)
(* The interpreters start a computation with CalcExpression and wait for   *)
(* expResult.                                                              *)
(***************************************************************************)
EXTENDS RuleFunctions

VARIABLES
  toks,          \* the list of tokens
  p,             \* the position of the next one
  opndStack,     \* the top comes first
  optrStack,
  m_LeftPcnt,    \* open parentheses
  expResult,     \* what is returned; Pending while it is computed
  m_IndexVal,    \* CMRRunner: the loop indexes, only read here
  m_pGVList      \* CMRDataList: the kept values, only read here

exprVars == <<toks, p, opndStack, optrStack, m_LeftPcnt, expResult>>

Pending == [t |-> "PENDING", v |-> <<>>]
None == [t |-> "NONE", v |-> <<>>]

Value(x) == [k |-> "value", args |-> <<x>>]
Token(k) == [k |-> k, args |-> <<>>]

\* The token types divided by ten (MRTOKEN.h): the lower one binds tighter.
Precedence(k) ==
  CASE k = "^" -> 3
    [] k \in {"*", "/", "%"} -> 4
    [] k \in {"+", "-"} -> 5
    [] k \in {"=", "<", ">", "<=", ">=", "<>"} -> 6
    [] k \in ListOperators \cup {"BETWEEN"} -> 7
    [] k = "NOT" -> 8
    [] k \in {"AND", "OR"} -> 9
    [] k = "END" -> 10

Binary(k, x, y) ==
  CASE k = "^" -> CALC_POW(x, y)      [] k = "*" -> CALC_MULTI(x, y)
    [] k = "/" -> CALC_DIVIDE(x, y)   [] k = "%" -> CALC_MODULUS(x, y)
    [] k = "+" -> CALC_PLUS(x, y)     [] k = "-" -> CALC_MINUS(x, y)
    [] k = "=" -> CALC_EQUAL(x, y)    [] k = "<" -> CALC_LESS(x, y)
    [] k = ">" -> CALC_GREATER(x, y)  [] k = "<=" -> CALC_LESSEQ(x, y)
    [] k = ">=" -> CALC_GREATEREQ(x, y) [] k = "<>" -> CALC_NEQUAL(x, y)
    [] k = "AND" -> CALC_AND(x, y)    [] k = "OR" -> CALC_OR(x, y)

\* Calculate: the operator takes its operands from the stack. An error, as a
\* division by zero, is an exception that leaves CalcExpression.
Calculate(stack, k) ==
  CASE Error \in ToSet(stack) -> stack
    [] k = "NOT" -> <<CALC_NOT(Fetched(stack[1]))>> \o Tail(stack)
    [] OTHER -> LET Of(x, y) == IF Error \in {x, y} THEN Error ELSE Binary(k, x, y)
                IN  <<Of(Fetched(stack[2]), Fetched(stack[1]))>> \o Tail(Tail(stack))

\* Slip: operators of the same precedence are computed from the right.
Tighter_RightFirst(k) ==
  LET stop == SelectInSeq(optrStack, LAMBDA o : o = "(" \/ Precedence(o) >= Precedence(k))
  IN  IF stop = 0 THEN Len(optrStack) ELSE stop - 1

\* CalcUntilGreater: the operators on top that bind at least as tightly, as far
\* as the next open parenthesis.
Tighter(k) ==
  LET stop == SelectInSeq(optrStack, LAMBDA o : o = "(" \/ Precedence(o) > Precedence(k))
  IN  IF stop = 0 THEN Len(optrStack) ELSE stop - 1

OperandsAfter(n) == FoldLeft(Calculate, opndStack, SubSeq(optrStack, 1, n))
OperatorsAfter(n) == SubSeq(optrStack, n + 1, Len(optrStack))

Top == IF p <= Len(toks) THEN toks[p] ELSE Token("END")
Running == expResult = Pending

\* An exception in one of the operations of this step.
Raises(stack) == Error \in ToSet(stack)

Raise ==
  /\ expResult' = Error
  /\ UNCHANGED <<toks, p, opndStack, optrStack, m_LeftPcnt>>

-----------------------------------------------------------------------------
\* The call: a new object, its stacks empty.
CalcExpression(list) ==
  /\ toks' = list
  /\ p' = 1
  /\ opndStack' = <<>>
  /\ optrStack' = <<>>
  /\ m_LeftPcnt' = 0
  /\ expResult' = Pending

\* An index is -1 outside its loop, and using it there is an error.
Operand(token) ==
  LET n == token.args[1].v[1]
  IN  CASE token.k = "value" -> token.args[1]
        [] token.k = "item"  -> getGlobalItemValue(n, token.args[2].v[1])
        [] token.k = "index" -> IF m_IndexVal[n] < 0 THEN Error ELSE Long(m_IndexVal[n])

PushOperand ==
  /\ Running
  /\ Top.k \in {"value", "item", "index"}
  /\ \/ /\ Operand(Top) = Error
        /\ Raise
     \/ /\ Operand(Top) # Error
        /\ opndStack' = <<Operand(Top)>> \o opndStack
        /\ p' = p + 1
        /\ UNCHANGED <<toks, optrStack, m_LeftPcnt, expResult>>

Function ==
  /\ Running
  /\ Top.k \in FunctionNames
  /\ \E x \in CalcFunction(Top.k, Top.args, m_pGVList) :
       \/ /\ x = Error
          /\ Raise
       \/ /\ x # Error
          /\ opndStack' = <<x>> \o opndStack
          /\ p' = p + 1
          /\ UNCHANGED <<toks, optrStack, m_LeftPcnt, expResult>>

LeftParenthesis ==
  /\ Running
  /\ Top.k = "("
  /\ optrStack' = <<"(">> \o optrStack
  /\ m_LeftPcnt' = m_LeftPcnt + 1
  /\ p' = p + 1
  /\ UNCHANGED <<toks, opndStack, expResult>>

\* CalcUntilLeftP: everything back to the open parenthesis, which goes too.
RightParenthesis ==
  LET left == SelectInSeq(optrStack, LAMBDA o : o = "(")
  IN
  /\ Running
  /\ Top.k = ")"
  /\ \E stack \in {OperandsAfter(left - 1)} :
       \/ /\ Raises(stack)
          /\ Raise
       \/ /\ ~Raises(stack)
          /\ opndStack' = stack
          /\ optrStack' = OperatorsAfter(left)
          /\ m_LeftPcnt' = m_LeftPcnt - 1
          /\ p' = p + 1
          /\ UNCHANGED <<toks, expResult>>

\* IN and the like (Calc_Compare, Calc_Match2) and BETWEEN are computed at once,
\* on the operand on top. BETWEEN fetches it, as it does its bounds.
WithOperand(token, x) ==
  CASE token.k \in ListOperators -> Compared(token.k, x, token.args)
    [] token.k = "BETWEEN" ->
         IF Error \in {Fetched(x), Fetched(token.args[1]), Fetched(token.args[2])} THEN Error
         ELSE Between(Fetched(x), Fetched(token.args[1]), Fetched(token.args[2]))

CompareOperand ==
  /\ Running
  /\ Top.k \in ListOperators \cup {"BETWEEN"}
  /\ \E stack \in {OperandsAfter(Tighter(Top.k))} :
       \E b \in {IF Raises(stack) THEN Error ELSE WithOperand(Top, stack[1])} :
         \/ /\ b = Error
            /\ Raise
         \/ /\ b # Error
            /\ opndStack' = <<b>> \o Tail(stack)
            /\ optrStack' = OperatorsAfter(Tighter(Top.k))
            /\ p' = p + 1
            /\ UNCHANGED <<toks, m_LeftPcnt, expResult>>

\* What ends the computation early: a FALSE before AND, or a TRUE before OR,
\* with no parenthesis open.
Decided(stack, k) ==
  /\ stack # <<>>
  /\ stack[1].t = "BOOL"
  /\ m_LeftPcnt = 0
  /\ (k = "AND" /\ ~Truth(stack[1])) \/ (k = "OR" /\ Truth(stack[1]))

Operator ==
  /\ Running
  /\ Top.k \in {"NOT", "AND", "OR", "+", "-", "*", "/", "%", "^", "=", "<", ">", "<=", ">=", "<>"}
  /\ \E n \in {Tighter(Top.k)} : \E stack \in {OperandsAfter(n)} :
       \/ /\ Raises(stack)
          /\ Raise
       \/ /\ ~Raises(stack)
          /\ Decided(stack, Top.k)
          /\ expResult' = stack[1]
          /\ UNCHANGED <<toks, p, opndStack, optrStack, m_LeftPcnt>>
       \/ /\ ~Raises(stack)
          /\ ~Decided(stack, Top.k)
          /\ opndStack' = stack
          /\ optrStack' = <<Top.k>> \o OperatorsAfter(n)
          /\ p' = p + 1
          /\ UNCHANGED <<toks, m_LeftPcnt, expResult>>

EndOfTokens ==
  /\ Running
  /\ Top.k = "END"
  /\ \E stack \in {OperandsAfter(Tighter("END"))} :
       expResult' = IF Raises(stack) THEN Error ELSE stack[1]
  /\ UNCHANGED <<toks, p, opndStack, optrStack, m_LeftPcnt>>

ExprNext ==
  \/ PushOperand
  \/ Function
  \/ LeftParenthesis
  \/ RightParenthesis
  \/ CompareOperand
  \/ Operator
  \/ EndOfTokens
=============================================================================
