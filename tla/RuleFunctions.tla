--------------------------- MODULE RuleFunctions ----------------------------
(***************************************************************************)
(* The functions of rule expressions: CMRExpression::CalcFunction          *)
(* (Runner/MREXPRES.cpp) and what it calls (Runner/MRSFUNC.cpp).           *)
(*                                                                         *)
(* CalcFunction takes the name, the arguments and the kept values and      *)
(* yields the set of results: several where the clock, or memory nobody    *)
(* has written, decides, and an Error for an exception. An argument is the *)
(* value its own expression has: a rule or an item alone is still one, and *)
(* is fetched where the code does. Arguments have the types the rule       *)
(* compiler lets through; a rule that is fetched has rows. A character     *)
(* that stands for a number or a part of a date is never cut in two.       *)
(***************************************************************************)
EXTENDS ListCompare, DateFunctions, GlobalValues, FiniteSets

IsText(x) == x.t \in {"STRING", "LSTRING"}

\* SUBSTR: a start below the first character is the first, and without a length
\* the text stays whole. An LSTRING that starts beyond its end becomes a null
\* pointer; it reads as empty.
FUNC_SUBSTR(x, start, length) ==
  LET from == IF start < 1 THEN 1 ELSE start
  IN  IF length < 1 THEN x
      ELSE [x EXCEPT !.v = SubSeq(@, from, Least(Len(@), from + length - 1))]

\* TODAY, with a mark between its parts or none.
FUNC_TODAY(mark) == {String(DateText(day, mark # <<>>)) : day \in Today}

FUNC_DATEPLUSMON(x, n, opt) ==
  LET s == DatePulsMonth(x.v, n, opt) IN IF s = <<>> THEN Error ELSE String(s)

AgeOrError(n) == IF n < 0 THEN Error ELSE Long(n)
FUNC_AGE(x, y) == AgeOrError(Age(x.v, y.v))
FUNC_RES_AGE(x) == {AgeOrError(n) : n \in CalcResAge(x.v)}
FUNC_RESAGE_BYDATE(x, y, gbn) == AgeOrError(CalcResAgeByDate(x.v, DayOf(y.v), gbn))

FUNC_DATE(x, n) == IF DateTypeCheck(x.v) THEN String(DatePulsNumber(x.v, n)) ELSE Error

FUNC_DURATION(x, y) ==
  IF DateTypeCheck(x.v) /\ DateTypeCheck(y.v) THEN {Long(n) : n \in DateDuration(x.v, y.v)}
                                               ELSE {Error}

\* No check of the dates here.
FUNC_MONTHS(x, y, gbn) == Long(months(x.v, y.v, gbn))

\* A LONG loses its last digits one by one, then five is added and one more goes:
\* towards zero each time, for negative numbers too.
FUNC_ROUND(x, m) ==
  CASE x.t = "DOUBLE" -> RRound(x, m)
    [] x.t = "LONG" /\ m >= 0 -> x
    [] x.t = "LONG" /\ m < 0 ->
         Long(Quotient(Quotient(x.v[1], 10 ^ (-m - 1)) + 5, 10) * 10 ^ (-m))
    [] OTHER -> Error

FUNC_TRUNC(x, m) ==
  CASE x.t = "DOUBLE" -> RTrunc(x, m)
    [] x.t = "LONG" /\ m >= 0 -> x
    [] x.t = "LONG" /\ m < 0 -> Long(Quotient(x.v[1], 10 ^ (-m)) * 10 ^ (-m))
    [] OTHER -> Error

\* What a character stands for: letters come first, numbers from 500 on, dates.
Digits(c) == c \in 1000 .. 2999 \/ c >= 90000
Letter(c) == c \in 1 .. 99

\* ISNUM and ISALPHA: all characters are digits, or letters; so of an empty text.
FUNC_STR_TYPE(gbn, x) ==
  Bool(\A c \in ToSet(x.v) : IF gbn = 1 THEN Digits(c) ELSE Letter(c))

FUNC_TONUMBER(x) ==
  CASE x.t = "LONG"   -> x
    [] x.t = "STRING" -> Long(Number(x.v))
    [] x.t = "DOUBLE" -> Long(Truncate(x))

FUNC_TODOUBLE(x) ==
  CASE x.t = "DOUBLE" -> x
    [] x.t = "STRING" -> Double(Number(x.v), 1)
    [] x.t = "LONG"   -> Double(x.v[1], 1)

FUNC_TOSTRING(x) == IF x.t = "LSTRING" THEN x ELSE String(Text(x))

\* LEN, after FUNC_TOSTRING. It counts what stands in strVal: of an LSTRING that is
\* the pointer, whose bytes end at the first zero, after six at most. A number
\* counts its digits and its sign.
Width(c) ==
  IF c < 500 THEN 1
  ELSE LET n == Abs(c - 1000)
       IN  (IF c < 1000 THEN 2 ELSE 1) + Cardinality({k \in 1 .. 9 : n >= 10 ^ k})

Len_C(x) ==
  IF x.t = "LSTRING" THEN {Long(n) : n \in 0 .. 6}
  ELSE {Long(FoldLeft(LAMBDA n, c : n + Width(c), 0, FUNC_TOSTRING(x).v))}

-----------------------------------------------------------------------------
\* The functions of a whole column.

\* ROWS of a text counts the values kept under it.
Func_ROWS(x, store) ==
  CASE x.t = "RULE"   -> Long(getRuleResultCount(x))
    [] x.t = "GLOBAL" -> Long(getItemValueCount(x))
    [] x.t = "STRING" -> Long(getGblRows(store, x.v))
    [] OTHER -> Long(0)

Func_INDEXOF(x, y) ==
  CASE x.t = "RULE"   -> Long(getRuleValueIndex(x, y))
    [] x.t = "GLOBAL" -> Long(getItemValueIndex(x, y))
    [] OTHER -> Error

\* clearTValue: what MAX (opt 1) and MIN make of nothing. Of DOUBLEs the code takes
\* -9999999999999999 and 9999999999999999; this number stands for it.
Far == 2100000000
clearTValue(type, opt) ==
  IF type \in {"LONG", "DOUBLE"}
    THEN [Initial(type) EXCEPT !.v[1] = IF opt = 1 THEN -Far ELSE Far]
    ELSE Initial(type)

\* copyFlag: the new value is greater; of BOOLs never.
IsLess(x, y) ==
  CASE IsText(x) -> StrCmp(x.v, y.v) < 0
    [] x.t \in {"LONG", "DOUBLE"} -> Compare(x, y) < 0
    [] OTHER -> FALSE

\* The code asks for the result by the rule's number once more, and finds nothing
\* if the rule was called with arguments. A single value is its own maximum.
CalMaxMin(opt, x) ==
  LET Better(y, z) == IF opt = 1 THEN IsLess(y, z) ELSE ~IsLess(y, z)
      list == Listed(x)
      nothing == list = <<>> \/ (x.t = "RULE" /\ getRuleResult(x) = <<>>)
  IN  CASE x.t \notin {"RULE", "GLOBAL"} -> x
        [] x.t \in {"RULE", "GLOBAL"} /\ nothing -> clearTValue(ColumnType(x), opt)
        [] OTHER -> FoldLeft(LAMBDA y, z : IF Better(y, z) THEN z ELSE y, list[1], list)

SumArray(x) == FoldLeft(CALC_PLUS, Initial(ColumnType(x)), Listed(x))

-----------------------------------------------------------------------------
\* DISPLAY writes its arguments to the trace.
Func_Display(xs) == IF \E x \in ToSet(xs) : Fetched(x) = Error THEN Error ELSE Long(0)

\* The five functions of one customer need the number of a rule, rId_DAMBOGM,
\* that nothing in the build sets: they always throw.
Func_SPECIAL == Error

ArrayFunctions == {"ROWS", "SUM", "INDEXOF", "MAX", "MIN"}
TextFunctions == {"LEN", "ISNUM", "ISALPHA", "SUBSTR", "TONUMBER", "TODOUBLE", "TOSTRING"}
DateNames == {"TODAY", "DATEPLUSMON", "DATE", "DURATION", "AGE", "RES_AGE", "MONTH"}
StoreFunctions == {"GETVAL", "FINDVAL"}
FunctionNames == ArrayFunctions \cup TextFunctions \cup DateNames \cup StoreFunctions
                   \cup {"ROUND", "TRUNC", "SPECIAL"}

\* With the arguments as they are; INDEXOF fetches the second.
ArrayFunction(f, xs, store) ==
  CASE f = "ROWS" -> Func_ROWS(xs[1], store)
    [] f = "SUM"  -> IF Error \in ToSet(Listed(xs[1])) THEN Error ELSE SumArray(xs[1])
    [] f = "MAX"  -> CalMaxMin(1, xs[1])
    [] f = "MIN"  -> CalMaxMin(2, xs[1])
    [] f = "INDEXOF" -> IF Fetched(xs[2]) = Error THEN Error
                        ELSE Func_INDEXOF(xs[1], Fetched(xs[2]))

TextFunction(f, xs) ==
  CASE f = "LEN"     -> Len_C(xs[1])
    [] f = "ISNUM"   -> {FUNC_STR_TYPE(1, xs[1])}
    [] f = "ISALPHA" -> {FUNC_STR_TYPE(2, xs[1])}
    [] f = "SUBSTR"  -> {FUNC_SUBSTR(xs[1], xs[2].v[1], xs[3].v[1])}
    [] f = "TONUMBER" -> {FUNC_TONUMBER(xs[1])}
    [] f = "TODOUBLE" -> {FUNC_TODOUBLE(xs[1])}
    [] f = "TOSTRING" -> {FUNC_TOSTRING(xs[1])}

\* RES_AGE takes any option but 1 for 2; MONTH any but 1 and 2 for 0.
ResAge(xs) ==
  CASE Len(xs) = 1 -> FUNC_RES_AGE(xs[1])
    [] Len(xs) \in {2, 3} ->
         {FUNC_RESAGE_BYDATE(xs[1], xs[2], IF Len(xs) = 3 /\ xs[3].v = <<1>> THEN 1 ELSE 2)}
    [] OTHER -> {Error}

Option(xs) == IF Len(xs) = 3 THEN xs[3].v[1] ELSE 0
Month(xs) == FUNC_MONTHS(xs[1], xs[2], IF Option(xs) \in {1, 2} THEN Option(xs) ELSE 0)

Mark(xs) == IF xs = <<>> THEN <<>> ELSE xs[1].v

DateFunction(f, xs) ==
  CASE f = "TODAY" -> IF xs # <<>> /\ xs[1].t # "STRING" THEN {Error} ELSE FUNC_TODAY(Mark(xs))
    [] f = "DATEPLUSMON" -> {FUNC_DATEPLUSMON(xs[1], xs[2].v[1], Option(xs))}
    [] f = "DATE"     -> {FUNC_DATE(xs[1], xs[2].v[1])}
    [] f = "DURATION" -> FUNC_DURATION(xs[1], xs[2])
    [] f = "AGE"      -> {FUNC_AGE(xs[1], xs[2])}
    [] f = "RES_AGE"  -> ResAge(xs)
    [] f = "MONTH"    -> {Month(xs)}

\* The last argument alone is fetched: the index of GETVAL, which is a number, and
\* what FINDVAL looks for. The name is a text.
GetVal(xs, store) ==
  LET name == IF Len(xs) = 1 THEN Fetched(xs[1]) ELSE xs[1]
      idx == IF Len(xs) = 1 THEN Long(1) ELSE Fetched(xs[2])
  IN  IF name.t # "STRING" \/ idx.t # "LONG" THEN Error ELSE getGblVal(store, name.v, idx.v[1])

FindVal(xs, store) ==
  IF xs[1].t # "STRING" \/ Fetched(xs[2]) = Error THEN Error
  ELSE findGblVal(store, xs[1].v, Fetched(xs[2]))

StoreFunction(f, xs, store) == IF f = "GETVAL" THEN GetVal(xs, store) ELSE FindVal(xs, store)

CalcFunction(f, xs, store) ==
  LET args == [i \in DOMAIN xs |-> Fetched(xs[i])]
      Fetching == CASE f \in TextFunctions -> TextFunction(f, args)
                    [] f \in DateNames -> DateFunction(f, args)
                    [] f = "ROUND" -> {FUNC_ROUND(args[1], args[2].v[1])}
                    [] f = "TRUNC" -> {FUNC_TRUNC(args[1], args[2].v[1])}
  IN  CASE f \in ArrayFunctions -> {ArrayFunction(f, xs, store)}
        [] f \in StoreFunctions -> {StoreFunction(f, xs, store)}
        [] f = "SPECIAL" -> {Func_SPECIAL}
        [] OTHER -> IF Error \in ToSet(args) THEN {Error} ELSE Fetching
=============================================================================
