------------------------------ MODULE RuleCalls ------------------------------
(***************************************************************************)
(* How the rules of one request call each other, and the results the       *)
(* request keeps (CMRDataList::m_pRuleResult): a rule that has run for the *)
(* same arguments is not run again. The arguments are known by a text,     *)
(* sKey.                                                                   *)
(*                                                                         *)
(* What a rule does is left open: the rule on top of the stack may call,   *)
(* execute, clear, return or fail at any time. Its result is known by what *)
(* it came from: the rule, its arguments and whether it was looked for by  *)
(* them.                                                                   *)
(*                                                                         *)
(* The list shared by all requests (MRSTARES.cpp) takes the results of     *)
(* rules whose scope is not 0. LoadRuleHeader makes it 0                   *)
(* (BRMLoad.cpp:169), and the code that would change it is not compiled    *)
(* (RULE_RE_RUN): it stays empty.                                          *)
(***************************************************************************)
EXTENDS Integers, Sequences, SequencesExt

CONSTANTS
  Rules,       \* the first one starts the program; a set of 1 .. n
  Arguments,   \* what a rule can be given, [rule -> set of argument lists]
  NameParts,   \* the rules that stand in a branch's or a query's text
  Columns,     \* the rules that stand in a table's column
  NoData,      \* the rules without a version that holds
  MaxCalls     \* bound: calls of one request

\* The digits of a number that is not negative are one character, the number.
\* No text has the types of a result in it.
MINUS == -1
BAR == -2
POINT == -3
TYPES == -4
Char == Nat \cup {MINUS, BAR, POINT}

\* An argument is its type and a number or a text; a DOUBLE counts tenths. NONE
\* stands for one that is left out.
Argument == [t : {"LONG", "DOUBLE"}, v : Int] \cup [t : {"STRING"}, v : Seq(Char)]
              \cup [t : {"BOOL"}, v : BOOLEAN] \cup [t : {"NONE"}, v : {0}]

ASSUME CallsAssumption ==
  /\ Rules \subseteq Nat \ {0}
  /\ \A rule \in Rules : Arguments[rule] \subseteq Seq(Argument)
  /\ 1 \in Rules
  /\ NameParts \cup Columns \cup NoData \subseteq Rules
  /\ MaxCalls \in Nat

VARIABLES
  m_pRuleResult,   \* the results, last one first: [ruleId, parmInfo, of]
  stack,           \* the rules that run, the innermost first: [of, key, save]
  answer,          \* the last call and the result it got
  log,             \* what has been run, added, found and cleared
  calls            \* how many calls there were

vars == <<m_pRuleResult, stack, answer, log, calls>>

-----------------------------------------------------------------------------
\* "||"
SEP == <<BAR, BAR>>

\* "%.0f" of tenths: a half goes to the even number.
Rounded(n) ==
  LET q == n \div 10
      r == n % 10
  IN  IF r > 5 \/ (r = 5 /\ q % 2 = 1) THEN q + 1 ELSE q

Signed(n, text) == IF n < 0 THEN <<MINUS>> \o text ELSE text
Magnitude(n) == IF n < 0 THEN -n ELSE n

\* The sign stays where the number rounds to 0.
KeyText(arg) ==
  CASE arg.t = "LONG"   -> Signed(arg.v, <<Magnitude(arg.v)>>)
    [] arg.t = "DOUBLE" -> Signed(arg.v, <<Rounded(Magnitude(arg.v))>>)
    [] arg.t = "STRING" -> arg.v
    [] OTHER            -> <<>>

\* "%lf" and the text of the others.
ColumnText(arg) ==
  IF arg.t = "DOUBLE"
  THEN Signed(arg.v, <<Magnitude(arg.v) \div 10, POINT, Magnitude(arg.v) % 10>>)
  ELSE KeyText(arg)

\* Slip: the text of the next argument is written over the "||".
sKey_NoStep(args) == FlattenSeq([i \in DOMAIN args |-> KeyText(args[i])])

\* getRuleParmValues: the texts with "||" between them, none for what is left out.
sKey(args) ==
  FlattenSeq([i \in DOMAIN args |->
                (IF i > 1 /\ args[i].t # "NONE" THEN SEP ELSE <<>>) \o KeyText(args[i])])

-----------------------------------------------------------------------------
\* GetRuleResult: the first result that ends the search, 0 if there is none. With
\* a key that is any result of the rule; without one it has no key either.
Found(ruleId, key) ==
  SelectInSeq(m_pRuleResult,
    LAMBDA p : p.ruleId = ruleId /\ (key # <<>> \/ p.parmInfo = <<>>))

Hit(ruleId, key) ==
  LET i == Found(ruleId, key)
  IN  i # 0 /\ m_pRuleResult[i].parmInfo = key

\* Slip: the list loses its head, wherever the result was found.
AfterSearch_Head(ruleId, key) ==
  IF Found(ruleId, key) # 0 THEN Tail(m_pRuleResult) ELSE m_pRuleResult

\* A result for other arguments is unlinked.
AfterSearch(ruleId, key) ==
  LET i == Found(ruleId, key)
  IN  IF i # 0 THEN RemoveAt(m_pRuleResult, i) ELSE m_pRuleResult

Event(ev, rule, key) == [ev |-> ev, rule |-> rule, key |-> key]

\* What a run is for: a named one was looked for by the rule alone, whatever its
\* arguments.
Source(rule, args, named) == [rule |-> rule, args |-> args, named |-> named]

\* The last call, and what the result it got came from.
Answer(call, of) == [call |-> call, of |-> of]
NoAnswer == Answer(Source(0, <<>>, TRUE), Source(0, <<>>, TRUE))

Frame(of, key, save) == [of |-> of, key |-> key, save |-> save]

\* A new CMRRunner, after a search that has failed or directly; the rule that
\* calls waits.
Run(ev, frame) ==
  /\ stack' = <<frame>> \o stack
  /\ log' = Append(log, Event(ev, frame.of.rule, frame.key))

InRule == stack # <<>>
CanCall == InRule /\ calls < MaxCalls /\ calls' = calls + 1

-----------------------------------------------------------------------------
Init ==
  /\ m_pRuleResult = <<>>
  /\ stack = <<Frame(Source(1, <<>>, TRUE), <<>>, TRUE)>>     \* doProgram starts the first rule
  /\ answer = NoAnswer
  /\ log = <<>>
  /\ calls = 0

\* getRuleResultValue, when the arguments are there.
Called(call, key) ==
  \/ /\ Hit(call.rule, key)
     /\ answer' = Answer(call, m_pRuleResult[Found(call.rule, key)].of)
     /\ log' = Append(log, Event("hit", call.rule, key))
     /\ UNCHANGED <<m_pRuleResult, stack>>
  \/ /\ ~Hit(call.rule, key)
     /\ m_pRuleResult' = AfterSearch(call.rule, key)
     /\ Run("run", Frame(call, key, TRUE))
     /\ UNCHANGED answer

\* A rule in an expression, its arguments computed before.
getRuleResultValue(rule, args) ==
  /\ CanCall
  /\ Called(Source(rule, args, FALSE), sKey(args))

\* A rule in the text of a branch or a query is looked for without a key and
\* gets the arguments of the rule it stands in.
GetRuleValue(rule) ==
  /\ CanCall
  /\ Called(Source(rule, stack[1].of.args, TRUE), <<>>)

\* A rule in a table's column is looked for without a key; where the table itself
\* has arguments it is not looked for, and gets one of them as a text. (An argument
\* that is not there, or is BOOL or left out, leaves the text undefined.)
ColumnRuleValue(rule, i) ==
  LET given == stack[1].of.args
      text == ColumnText(given[i])
  IN
  /\ CanCall
  /\ \/ given = <<>> /\ Called(Source(rule, <<>>, TRUE), <<>>)
     \/ /\ i \in DOMAIN given /\ given[i].t \in {"LONG", "DOUBLE", "STRING"}
        /\ Run("direct", Frame(Source(rule, <<[t |-> "STRING", v |-> text]>>, FALSE), text, TRUE))
        /\ UNCHANGED <<m_pRuleResult, answer>>

\* CMRBInterpreter::BuildResult runs a rule by its name with its own arguments;
\* the result is not kept. What stands for the key is the types of the result.
RunByName(rule) ==
  /\ CanCall
  /\ Run("direct", Frame(Source(rule, stack[1].of.args, TRUE), <<TYPES>>, FALSE))
  /\ UNCHANGED <<m_pRuleResult, answer>>

\* DelRuleResultAll walks down the list and unlinks; 0 stands for all rules.
Without(list, id) ==
  LET kept[n \in 0 .. Len(list)] ==
        IF n = 0 THEN <<>>
        ELSE IF list[n].ruleId = id THEN kept[n - 1] ELSE Append(kept[n - 1], list[n])
  IN  IF id = 0 THEN <<>> ELSE kept[Len(list)]

\* RCLEAR. EXEC is this and, when the arguments are computed, a call.
DelRuleResultAll(id) ==
  /\ InRule
  /\ calls < MaxCalls
  /\ calls' = calls + 1
  /\ m_pRuleResult' = Without(m_pRuleResult, id)
  /\ log' = Append(log, Event("clear", id, <<>>))
  /\ UNCHANGED <<stack, answer>>

-----------------------------------------------------------------------------
\* AddResultForRule
Result(f) == [ruleId |-> f.of.rule, parmInfo |-> f.key, of |-> f.of]

\* The end of MainProcess. A rule without data adds its empty result twice.
Return ==
  LET f == Head(stack)
      added == (IF f.of.rule \in NoData THEN <<Result(f)>> ELSE <<>>)
                 \o (IF f.save THEN <<Result(f)>> ELSE <<>>)
  IN
  /\ InRule
  /\ m_pRuleResult' = added \o m_pRuleResult
  /\ stack' = Tail(stack)
  /\ answer' = Answer(f.of, Result(f).of)
  /\ log' = IF added = <<>> THEN log ELSE Append(log, Event("add", f.of.rule, f.key))
  /\ UNCHANGED calls

\* An exception ends all rules.
Raise ==
  /\ InRule
  /\ stack' = <<>>
  /\ UNCHANGED <<m_pRuleResult, answer, log, calls>>

Next ==
  \/ \E rule \in Rules :
       \/ \E args \in Arguments[rule] : getRuleResultValue(rule, args)
       \/ rule \in NameParts /\ GetRuleValue(rule)
       \/ rule \in Columns /\ \E i \in 1 .. 2 : ColumnRuleValue(rule, i)
       \/ RunByName(rule)
       \/ DelRuleResultAll(rule)
  \/ DelRuleResultAll(0)
  \/ Return
  \/ Raise

Spec == Init /\ [][Next]_vars

-----------------------------------------------------------------------------
\* The text a run or a call is known by.
Text(c) == IF c.named THEN <<>> ELSE sKey(c.args)

\* Nothing is left out, and no text has a "|".
Plain(args) ==
  \A i \in DOMAIN args :
    /\ args[i].t # "NONE"
    /\ args[i].t = "STRING" => \A k \in DOMAIN args[i].v : args[i].v[k] # BAR

\* A number and a text are themselves, doubles lie at most 1.0 apart, bools may be
\* any, and arguments of two types read the same.
AlikeArgument(x, y) ==
  IF x.t # y.t THEN KeyText(x) = KeyText(y)
  ELSE /\ x.t \in {"LONG", "STRING"} => x.v = y.v
       /\ x.t = "DOUBLE" => x.v - y.v \in -10 .. 10

Alike(a, b) == Len(a) = Len(b) /\ \A i \in DOMAIN a : AlikeArgument(a[i], b[i])

ByArguments(c) == ~c.named /\ c.args # <<>> /\ Plain(c.args)

\* A call gets a result of the rule it names that came from the same text, and
\* where both are asked for by plain arguments these are alike, however the rules
\* call each other meanwhile: the text confuses no other arguments
\* (GetRuleResult, getRuleParmValues). The result of a rule without data does not
\* depend on them.
AnswersMatch ==
  answer # NoAnswer =>
    LET call == answer.call
        of == answer.of
    IN  /\ of.rule = call.rule
        /\ call.rule \notin NoData =>
             /\ Text(of) = Text(call)
             /\ ByArguments(of) /\ ByArguments(call) => Alike(of.args, call.args)

Cleared(rule, i, j) ==
  \E m \in i .. j : log[m].ev = "clear" /\ log[m].rule \in {0, rule}

\* A rule is run again for the same arguments only after it, or every rule, was
\* cleared, or after it was called or ended with others (GetRuleResult).
RunsOnce ==
  \A i, j \in DOMAIN log :
    i < j /\ log[j].ev = "run" /\ log[i] = [log[j] EXCEPT !.ev = "add"]
      => \/ Cleared(log[j].rule, i, j)
         \/ \E m \in i .. j : log[m].rule = log[j].rule /\ log[m].key # log[j].key
=============================================================================
