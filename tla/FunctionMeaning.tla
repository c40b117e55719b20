--------------------------- MODULE FunctionMeaning ---------------------------
(***************************************************************************)
(* What the functions of expressions promise, said without their           *)
(* computations: dates by the calendar, day after day; a rounded number by *)
(* its distance; a piece of a text, or a column's extremes, by where they  *)
(* come from.                                                              *)
(***************************************************************************)
EXTENDS RuleMeaning

LeapYear(y) == y % 4 = 0 /\ (y % 100 = 0 => y % 400 = 0)
DaysIn(y, m) == IF m = 2 THEN (IF LeapYear(y) THEN 29 ELSE 28)
                ELSE IF m \in {4, 6, 9, 11} THEN 30 ELSE 31
OnCalendar(day) == day.m \in 1 .. 12 /\ day.d \in 1 .. DaysIn(day.y, day.m)

Valid(x) == IsDate(x.v) /\ OnCalendar(DayOf(x.v))

NextDay(day) ==
  CASE day.d < DaysIn(day.y, day.m) -> [day EXCEPT !.d = @ + 1]
    [] day.d = DaysIn(day.y, day.m) /\ day.m < 12 -> [day EXCEPT !.d = 1, !.m = @ + 1]
    [] OTHER -> [y |-> day.y + 1, m |-> 1, d |-> 1]

MonthsOf(day) == 12 * day.y + day.m
NotAfter(a, b) == MonthsOf(a) < MonthsOf(b) \/ (MonthsOf(a) = MonthsOf(b) /\ a.d <= b.d)

\* From month to month.
RECURSIVE DaysApart(_, _)
DaysApart(a, b) ==
  LET last == [a EXCEPT !.d = DaysIn(a.y, a.m)]
  IN  IF MonthsOf(a) = MonthsOf(b) THEN b.d - a.d
      ELSE IF NotAfter(a, b) THEN last.d - a.d + 1 + DaysApart(NextDay(last), b)
      ELSE -DaysApart(b, a)

\* The times the day of the month comes again, from a to b.
WholeMonths(a, b) == MonthsOf(b) - MonthsOf(a) - (IF b.d < a.d THEN 1 ELSE 0)

\* b is the given number of months after a: on the same day, or on the last day of
\* a shorter month; with opt the last day of a month goes to the last day.
MonthsLater(a, n, opt, b) ==
  /\ OnCalendar(b)
  /\ MonthsOf(b) = MonthsOf(a) + n
  /\ \/ b.d = a.d /\ ~(opt # 0 /\ ~OnCalendar([a EXCEPT !.d = @ + 1]))
     \/ b.d < a.d /\ ~OnCalendar([b EXCEPT !.d = @ + 1])
     \/ opt # 0 /\ ~OnCalendar([a EXCEPT !.d = @ + 1]) /\ ~OnCalendar([b EXCEPT !.d = @ + 1])

DateAgrees(f, xs, r) ==
  LET a == DayOf(xs[1].v)
      b == DayOf(xs[2].v)
      n == xs[2].v[1]
      opt == Option(xs)
      new == DayOf(r.v)
      Months == IF NotAfter(a, b) THEN WholeMonths(a, b) ELSE -WholeMonths(b, a)
      Begun(c, d) == IF NotAfter(c, d) /\ c # d THEN WholeMonths(c, d) + 1
                                                 ELSE -WholeMonths(d, c) - 1
  IN  CASE f = "DATE" /\ Valid(xs[1]) -> DaysApart(a, new) = n /\ Dashed(r.v) = Dashed(xs[1].v)
        [] f = "DATEPLUSMON" /\ Valid(xs[1]) -> MonthsLater(a, n, opt, new)
        [] f = "DURATION" /\ Valid(xs[1]) /\ Valid(xs[2]) -> Abs(DaysApart(a, b) - r.v[1]) <= 1
        [] f = "AGE" /\ Valid(xs[1]) /\ Valid(xs[2]) /\ NotAfter(a, b) ->
             r = Long(WholeMonths(a, b) \div 12)
        [] f = "MONTH" -> r = Long(CASE opt = 0 -> Months
                                     [] opt = 1 -> Begun(NextDay(a), NextDay(b))
                                     [] opt = 2 -> Begun(a, b))
        [] OTHER -> r = Error

\* The age of somebody born in one of the two centuries the number leaves open, half
\* years counted as one with option 1.
ResAgeAgrees(xs, r) ==
  LET yy == xs[1].v[1] - 70000
      mm == xs[1].v[2] - 71000
      dd == (xs[1].v[3] - 72000) \div 10
      day == DayOf(xs[2].v)
      half == IF Len(xs) = 3 /\ xs[3].v = <<1>> THEN 6 ELSE 0
  IN  \E century \in {18, 19, 20} :
        LET born == [y |-> 100 * century + yy, m |-> mm, d |-> dd]
        IN  r = Long(IF NotAfter(born, day) THEN (WholeMonths(born, day) + half) \div 12 ELSE 0)

\* The distance of x from r, in units of the place m: as <<n, d>>. A negative number
\* may be rounded up to one and a half units away, a positive one by half.
RoundAgrees(f, x, m, r) ==
  LET Units(y) == Scaled([y EXCEPT !.v = Fraction(y)], m)
      a == Units(x)
      b == Units(r)
      n == a[1] * b[2] - b[1] * a[2]
      d == a[2] * b[2]
      negative == x.v[1] < 0
  IN  /\ r.t = x.t
      /\ IF x.t = "LONG" /\ m >= 0 THEN r = x
         ELSE /\ b[1] % b[2] = 0
              /\ CASE f = "ROUND" /\ ~negative -> 2 * Abs(n) <= d
                   [] f = "ROUND" /\ negative  -> 2 * Abs(n) <= 3 * d
                   [] f = "TRUNC" /\ ~negative -> -d <= 100 * n /\ n < d
                   [] f = "TRUNC" /\ negative  -> -d < n /\ n <= 0

ColumnAgrees(f, xs, r) ==
  LET x == xs[1]
      list == Listed(x)
      y == Fetched(xs[2])
      same == {i \in DOMAIN list : Cut(list[i]) = Cut(y)}
      unseen == x.t = "RULE" /\ RuleResults[x.v[1]].parms
  IN  CASE f = "ROWS" -> r = Long(Len(list))
        [] f = "SUM" -> \E t \in {"LONG", "DOUBLE"} :
             r = FoldLeft(LAMBDA z, w : CALC_PLUS(w, z), Initial(t), Reverse(list)) /\ r.t = t
        [] f = "INDEXOF" -> IF same = {} THEN r = Long(-1)
                            ELSE r.v[1] \in same /\ \A i \in same : r.v[1] <= i
        [] f \in {"MAX", "MIN"} /\ (list = <<>> \/ unseen) -> Abs(r.v[1]) = Far
        [] OTHER -> /\ r \in ToSet(list)
                    /\ \A z \in ToSet(list) :
                         IF f = "MAX" THEN CellCmp(z, r) <= 0 ELSE CellCmp(z, r) >= 0

TextAgrees(f, xs, r) ==
  LET s == xs[1].v
      from == xs[2].v[1]
      n == xs[3].v[1]
      start == IF from < 1 THEN 0 ELSE from - 1
  IN  CASE f = "SUBSTR" /\ n < 1 -> r = xs[1]
        [] f = "SUBSTR" /\ n >= 1 ->
             /\ \E t \in {SubSeq(s, 1, k) : k \in 0 .. Len(s)} :
                  \E u \in {SubSeq(s, k, Len(s)) : k \in 1 .. Len(s) + 1} :
                    s = t \o r.v \o u /\ (r.v # <<>> => Len(t) = start)
                                      /\ (Len(r.v) < n => u = <<>> \/ start >= Len(s))
             /\ Len(r.v) <= n
        [] f = "LEN" -> r = Long(Len(s))
        [] f = "TOSTRING" -> Number(r.v) = xs[1].v[1]
        [] f \in {"TONUMBER", "TODOUBLE"} -> r.v[1] = Number(s)

\* The function called with these arguments may return r.
Agrees(f, xs, r) ==
  CASE f = "RES_AGE" -> ResAgeAgrees(xs, r)
    [] f \in DateNames \ {"RES_AGE"} -> DateAgrees(f, xs, r)
    [] f \in {"ROUND", "TRUNC"} -> RoundAgrees(f, xs[1], xs[2].v[1], r)
    [] f \in ArrayFunctions -> ColumnAgrees(f, xs, r)
    [] f \in TextFunctions -> TextAgrees(f, xs, r)
=============================================================================
