--------------------------- MODULE DateFunctions ----------------------------
(***************************************************************************)
(* Dates, ages and rounding (Runner/MRFUNCTN.cpp).                         *)
(*                                                                         *)
(* A date is a text, with dashes or without: of three characters here, its *)
(* year, its month and its day. A resident number is one too, the year of  *)
(* birth in two digits, the month, and the day with the digit that tells   *)
(* the century. A day is [y, m, d]. DOUBLEs are exact, so what             *)
(* getDoubleToString mends is never wrong.                                 *)
(***************************************************************************)
EXTENDS RuleValues

CONSTANT Today    \* the days the clock may show

DateText(day, dash) ==
  LET c == IF dash THEN 80000 ELSE 90000
  IN  <<c + day.y, c + 4000 + day.m, c + 5000 + day.d>>

IsDate(s) == Len(s) > 2 /\ s[1] >= 80000
Dashed(s) == s[1] < 90000
DayOf(s) == LET c == IF Dashed(s) THEN 80000 ELSE 90000
            IN  [y |-> s[1] - c, m |-> s[2] - c - 4000, d |-> s[3] - c - 5000]

LastDayOfMonth(lYear, lMonth) ==
  CASE lMonth \in {4, 6, 9, 11} -> 30
    [] lMonth = 2 -> IF lYear % 400 = 0 \/ (lYear % 4 = 0 /\ lYear % 100 # 0) THEN 29 ELSE 28
    [] OTHER -> 31

\* A text that is no date is too short or reads as no number.
DateTypeCheck(s) ==
  /\ IsDate(s)
  /\ DayOf(s).y <= 2999
  /\ DayOf(s).m \in 1 .. 12
  /\ DayOf(s).d \in 1 .. LastDayOfMonth(DayOf(s).y, DayOf(s).m)

\* The days up to the end of a year.
DaysUntil(y) == 365 * y + y \div 4 - y \div 100 + y \div 400

\* makeDate and mktime, which takes months and days beyond the last ones too.
DayNumber(day) ==
  LET y == day.y + (day.m - 1) \div 12
      m == (day.m - 1) % 12
  IN  DaysUntil(y - 1) + day.d
        + FoldLeft(LAMBDA n, k : n + LastDayOfMonth(y, k), 0, [k \in 1 .. m |-> k])

\* localtime
DayFrom(n) ==
  LET y == CHOOSE k \in n \div 366 .. n \div 365 + 1 : DaysUntil(k - 1) < n /\ n <= DaysUntil(k)
      Start(k) == DayNumber([y |-> y, m |-> k, d |-> 0])
      m == CHOOSE k \in 1 .. 12 : Start(k) < n /\ n <= Start(k) + LastDayOfMonth(y, k)
  IN  [y |-> y, m |-> m, d |-> n - Start(m)]

Later(a, b) == DayNumber(a) > DayNumber(b)

-----------------------------------------------------------------------------
\* makeDate leaves tm_isdst as it is, so mktime may take the hour for one of
\* summer time; at two in the morning the day stays the same.
DatePulsNumber(s, num) == DateText(DayFrom(DayNumber(DayOf(s)) + num), Dashed(s))

\* The seconds between, by 86400: what mktime makes of the two hours counts here.
DateDuration(s, r) ==
  LET n == DayNumber(DayOf(r)) - DayNumber(DayOf(s))
  IN  {Quotient(24 * n + h, 24) : h \in {-1, 0, 1}}

\* Slip: the last day is that of the month the date starts from.
DatePulsMonth_FirstMonth(s, num, opt) ==
  LET day == DayOf(s)
      total == 12 * day.y + (day.m - 1) + num
      y == total \div 12
      m == (total % 12) + 1
      isLast == opt # 0 /\ day.d = LastDayOfMonth(day.y, day.m)
      lastDD == LastDayOfMonth(day.y, day.m)
  IN  IF ~DateTypeCheck(s) THEN <<>>
      ELSE DateText([y |-> y, m |-> m, d |-> IF isLast THEN lastDD ELSE Least(day.d, lastDD)],
                    Dashed(s))

\* With opt the last day of a month goes to the last day. No date leaves no text.
DatePulsMonth(s, num, opt) ==
  LET day == DayOf(s)
      total == 12 * day.y + (day.m - 1) + num
      y == total \div 12
      m == (total % 12) + 1
      isLast == opt # 0 /\ day.d = LastDayOfMonth(day.y, day.m)
      lastDD == LastDayOfMonth(y, m)
  IN  IF ~DateTypeCheck(s) THEN <<>>
      ELSE DateText([y |-> y, m |-> m, d |-> IF isLast THEN lastDD ELSE Least(day.d, lastDD)],
                    Dashed(s))

\* The months from a to b: whole ones (gbn = 0), or begun ones, with one day more
\* on both sides for gbn = 1.
months(s, r, gbn) ==
  LET Day(t) == DayOf(IF gbn = 1 THEN DatePulsNumber(t, 1) ELSE t)
      Month(day) == 12 * day.y + day.m
      Before(a, b) == Month(a) < Month(b) \/ (Month(a) = Month(b) /\ a.d < b.d)
      Between2(from, to) ==
        Month(to) - Month(from)
          + (CASE gbn = 0 /\ to.d < from.d -> -1
               [] gbn # 0 /\ to.d >= from.d -> 1
               [] OTHER -> 0)
      Signed(a, b) == IF Before(a, b) THEN Between2(a, b) ELSE -Between2(b, a)
  IN  Signed(Day(s), Day(r))

\* The birthdays from a to b.
YearsBetween(a, b) ==
  b.y - a.y - (IF b.m < a.m \/ (b.m = a.m /\ b.d < a.d) THEN 1 ELSE 0)

\* A negative age stands for an error.
Age(s, r) ==
  CASE ~DateTypeCheck(s) \/ ~DateTypeCheck(r) -> -1
    [] DateTypeCheck(s) /\ DateTypeCheck(r) /\ YearsBetween(DayOf(s), DayOf(r)) < 0 -> -2
    [] OTHER -> YearsBetween(DayOf(s), DayOf(r))

-----------------------------------------------------------------------------
ResidentNo(yy, mm, dd, ss) == <<70000 + yy, 71000 + mm, 72000 + 10 * dd + ss>>

\* The digit after the date tells the century; of the newer ones the year decides.
\* mktime makes a day of what is none.
BirthDay(resNo) ==
  LET yy == resNo[1] - 70000
      mm == resNo[2] - 71000
      dd == (resNo[3] - 72000) \div 10
      ss == (resNo[3] - 72000) % 10
      century == CASE ss \in {1, 2, 5, 6} -> 19
                   [] ss \in {3, 4, 7, 8} -> IF yy <= 10 THEN 20 ELSE 19
                   [] OTHER -> 18
  IN  DayFrom(DayNumber([y |-> 100 * century + yy, m |-> mm, d |-> dd]))

\* gbn = 1 counts half a year as one.
CalcResAgeByDate(resNo, day, gbn) ==
  LET mm(a, b) == (b.m - a.m - (IF b.d < a.d THEN 1 ELSE 0)) % 12
      Between2(a, b) == IF Later(a, b) THEN 0
                        ELSE YearsBetween(a, b) + (IF gbn = 1 /\ mm(a, b) >= 6 THEN 1 ELSE 0)
  IN  Between2(BirthDay(resNo), DayFrom(DayNumber(day)))

CalcResAge(resNo) == {CalcResAgeByDate(resNo, day, 0) : day \in Today}

-----------------------------------------------------------------------------
\* The number in units of 10 ^ -off, and the units as a number.
Scaled(x, off) == IF off > 0 THEN <<x.v[1] * 10 ^ off, x.v[2]>>
                             ELSE <<x.v[1], x.v[2] * 10 ^ (-off)>>
InUnits(n, off) == IF off > 0 THEN Double(n, 10 ^ off) ELSE Double(n * 10 ^ (-off), 1)

\* floor of the number and a half: away from zero for a negative one, and one
\* unit too far where it is not on half.
RRound(x, off) ==
  LET y == Scaled(x, off)
      half == IF x.v[1] < 0 THEN -1 ELSE 1
  IN  InUnits((2 * y[1] + half * y[2]) \div (2 * y[2]), off)

\* Towards zero, with a hundredth of a unit added to what is positive.
RTrunc(x, off) ==
  LET y == Scaled(x, off)
  IN  CASE x.v[1] > 0 /\ off > 0 -> InUnits((100 * y[1] + y[2]) \div (100 * y[2]), off)
        [] x.v[1] > 0 /\ off <= 0 -> InUnits(y[1] \div y[2], off)
        [] OTHER -> InUnits(-((-y[1]) \div y[2]), off)
=============================================================================
