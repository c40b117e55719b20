----------------------------- MODULE RuleValues -----------------------------
(***************************************************************************)
(* The typed values of rule expressions and the operators on them          *)
(* (Runner/MRCALC.cpp).                                                    *)
(* The operands are the ones the rule compiler lets through (the branches  *)
(* under _PARSER); the computation is that of the server.                  *)
(*                                                                         *)
(* A value is [t |-> type, v |-> content]; the content is a sequence of    *)
(* integers, so that values of all types can be compared: <<n>> for LONG   *)
(* and BOOL, <<n, d>> in lowest terms for DOUBLE, which is taken to be     *)
(* exact, and the characters of a STRING or LSTRING, numbered in strcmp's  *)
(* order, the blank being 0.                                               *)
(***************************************************************************)
EXTENDS Integers, Sequences, SequencesExt

CONSTANT STR_VALUE_SIZE    \* the longest STRING; longer ones are LSTRING

ASSUME SizeAssumption == STR_VALUE_SIZE \in Nat \ {0}

Long(n) == [t |-> "LONG", v |-> <<n>>]
Bool(b) == [t |-> "BOOL", v |-> <<IF b THEN 1 ELSE 0>>]
String(s) == [t |-> "STRING", v |-> s]

\* What an exception leaves behind: no value.
Error == [t |-> "ERROR", v |-> <<>>]

Abs(n) == IF n < 0 THEN -n ELSE n
Least(m, n) == IF m < n THEN m ELSE n

\* The double n / d in lowest terms with a positive denominator.
Double(n, d) ==
  LET g == CHOOSE k \in 1 .. Abs(d) : /\ d % k = 0
                                      /\ Abs(n) % k = 0
                                      /\ \A j \in 1 .. Abs(d) :
                                           d % j = 0 /\ Abs(n) % j = 0 => j <= k
      s == IF d < 0 THEN -1 ELSE 1
  IN  [t |-> "DOUBLE", v |-> <<s * (IF n < 0 THEN -(Abs(n) \div g) ELSE n \div g),
                               Abs(d) \div g>>]

-----------------------------------------------------------------------------
\* (double) longVal, where one operand is DOUBLE.
Fraction(x) == IF x.t = "LONG" THEN <<x.v[1], 1>> ELSE x.v

OneIs(type, x, y) == x.t = type \/ y.t = type

Trim(s) == SubSeq(s, 1, SelectLastInSeq(s, LAMBDA c : c # 0))

\* strcmp: less, equal or greater as -1, 0, 1.
StrCmp(s, r) ==
  LET m == Least(Len(s), Len(r))
      d == {i \in 1 .. m : s[i] # r[i]}
      f == CHOOSE i \in d : \A j \in d : i <= j
  IN  CASE d # {} -> IF s[f] < r[f] THEN -1 ELSE 1
        [] d = {} /\ Len(s) = Len(r) -> 0
        [] OTHER -> IF Len(s) < Len(r) THEN -1 ELSE 1

NumCmp(m, n) == IF m < n THEN -1 ELSE IF m = n THEN 0 ELSE 1

\* What CALC_EQUAL, CALC_LESS and CALC_GREATER find: blanks at the end of a
\* STRING do not count.
Compare(x, y) ==
  CASE OneIs("BOOL", x, y)   -> NumCmp(x.v[1], y.v[1])
    [] OneIs("STRING", x, y) -> StrCmp(Trim(x.v), Trim(y.v))
    [] OneIs("DOUBLE", x, y) -> NumCmp(Fraction(x)[1] * Fraction(y)[2],
                                       Fraction(y)[1] * Fraction(x)[2])
    [] OTHER                 -> NumCmp(x.v[1], y.v[1])

CALC_NOT(x) == Bool(x.v[1] = 0)
CALC_EQUAL(x, y) == Bool(Compare(x, y) = 0)
CALC_NEQUAL(x, y) == CALC_NOT(CALC_EQUAL(x, y))
CALC_LESS(x, y) == Bool(Compare(x, y) < 0)
CALC_GREATER(x, y) == Bool(Compare(x, y) > 0)
CALC_GREATEREQ(x, y) == CALC_NOT(CALC_LESS(x, y))
CALC_LESSEQ(x, y) == CALC_NOT(CALC_GREATER(x, y))

\* The decimal text of a number, as a character that stands for it. CONV_F2S
\* cuts the zeros of a DOUBLE, so a whole one reads like a LONG (from 1000 on it
\* would also group the digits by commas).
Text(x) ==
  CASE x.t \in {"STRING", "LSTRING"} -> x.v
    [] x.t = "DOUBLE" /\ x.v[2] # 1 -> <<3000 + x.v[1], 3000 + x.v[2]>>
    [] OTHER -> <<1000 + x.v[1]>>

CALC_PLUS(x, y) ==
  CASE {x.t, y.t} \cap {"STRING", "LSTRING"} # {} ->
         LET s == Text(x) \o Text(y)
         IN  [t |-> IF Len(s) > STR_VALUE_SIZE THEN "LSTRING" ELSE "STRING", v |-> s]
    [] OneIs("DOUBLE", x, y) ->
         LET a == Fraction(x)
             b == Fraction(y)
         IN  Double(a[1] * b[2] + b[1] * a[2], a[2] * b[2])
    [] OTHER -> Long(x.v[1] + y.v[1])

CALC_MINUS(x, y) == CALC_PLUS(x, [y EXCEPT !.v[1] = -@])

CALC_MULTI(x, y) ==
  IF OneIs("DOUBLE", x, y)
    THEN LET a == Fraction(x)
             b == Fraction(y)
         IN  Double(a[1] * b[1], a[2] * b[2])
    ELSE Long(x.v[1] * y.v[1])

\* C's division of integers, which cuts towards zero.
Quotient(m, n) == LET q == Abs(m) \div Abs(n)
                  IN  IF (m < 0) = (n < 0) THEN q ELSE -q

\* The integer part; the code cuts the text "%lf" at its point.
Truncate(x) == Quotient(x.v[1], x.v[2])

CALC_DIVIDE(x, y) ==
  IF y.v[1] = 0 THEN Error
  ELSE IF OneIs("DOUBLE", x, y)
    THEN LET a == Fraction(x)
             b == Fraction(y)
         IN  Double(a[1] * b[2], a[2] * b[1])
    ELSE Long(Quotient(x.v[1], y.v[1]))

\* The remainder has the sign of the dividend, for fmod too.
CALC_MODULUS(x, y) ==
  IF y.v[1] = 0 THEN Error
  ELSE IF OneIs("DOUBLE", x, y)
    THEN LET a == Fraction(x)
             b == Fraction(y)
         IN  Double(a[1] * b[2] - b[1] * a[2] * Quotient(a[1] * b[2], a[2] * b[1]),
                    a[2] * b[2])
    ELSE Long(x.v[1] - y.v[1] * Quotient(x.v[1], y.v[1]))

\* pow for natural exponents; the result is DOUBLE whatever the operands are.
CALC_POW(x, y) ==
  LET a == Fraction(x)
      n == y.v[1]
  IN  Double(a[1] ^ n, a[2] ^ n)

Truth(x) == x.v[1] # 0
CALC_AND(x, y) == Bool(Truth(x) /\ Truth(y))
CALC_OR(x, y) == Bool(Truth(x) \/ Truth(y))

-----------------------------------------------------------------------------
\* atol of a text, which is a number if it stands for one.
Number(s) == IF s # <<>> /\ s[1] >= 500 THEN s[1] - 1000 ELSE 0

\* Calc_Between: STRINGs are compared as they are, numbers as doubles.
Between(x, lo, hi) ==
  IF x.t = "STRING"
    THEN Bool(StrCmp(x.v, lo.v) >= 0 /\ StrCmp(x.v, hi.v) <= 0)
    ELSE Bool(Compare(x, lo) >= 0 /\ Compare(x, hi) <= 0)
=============================================================================
