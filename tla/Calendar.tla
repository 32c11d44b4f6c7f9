------------------------------ MODULE Calendar ------------------------------
(***************************************************************************)
(* The monthly buckets of bars.rs: the day arithmetic that turns a day     *)
(* number into a civil date and back, against the calendar counted year by *)
(* year and month by month.                                                *)
(*                                                                         *)
(* Days are counted from 1970-01-01, so both algorithms stay in their      *)
(* branches for non-negative eras.                                         *)
(***************************************************************************)
EXTENDS Integers, FiniteSets, FiniteSetsExt

CONSTANT LastYear    \* bound: the last year compared

ASSUME LastYearAssumption == LastYear \in Nat

(* Mutant of YearOfEra: the centuries are not corrected for. *)
YearOfEraJulian(doe) == (doe - doe \div 1460) \div 365

(* Year of the 400-year era from the day of the era. *)
YearOfEra(doe) ==
  (doe - doe \div 1460 + doe \div 36524 - doe \div 146096) \div 365

(* civil_from_days *)
CivilFromDays(days) ==
  LET z   == days + 719468
      era == z \div 146097
      doe == z - era * 146097
      yoe == YearOfEra(doe)
      doy == doe - (365 * yoe + yoe \div 4 - yoe \div 100)
      mp  == (5 * doy + 2) \div 153
      m   == IF mp < 10 THEN mp + 3 ELSE mp - 9
      y   == yoe + era * 400
  IN  <<IF m <= 2 THEN y + 1 ELSE y, m, doy - (153 * mp + 2) \div 5 + 1>>

(* Months since March. *)
MonthIndex(m) == IF m > 2 THEN m - 3 ELSE m + 9

(* days_from_civil *)
DaysFromCivil(y, m, d) ==
  LET yy  == IF m <= 2 THEN y - 1 ELSE y
      era == yy \div 400
      yoe == yy - era * 400
      doy == (153 * MonthIndex(m) + 2) \div 5 + d - 1
      doe == yoe * 365 + yoe \div 4 - yoe \div 100 + doy
  IN  era * 146097 + doe - 719468

(* calendar_month_start_utc, in days: the first of the month of a day.  The *)
(* seconds of the day are divided away before and multiplied back after.    *)
MonthStart(days) ==
  LET date == CivilFromDays(days) IN DaysFromCivil(date[1], date[2], 1)

-----------------------------------------------------------------------------
Leap(y) == y % 4 = 0 /\ (y % 100 # 0 \/ y % 400 = 0)

DaysIn(m, y) ==
  IF m = 2 THEN IF Leap(y) THEN 29 ELSE 28
  ELSE IF m \in {4, 6, 9, 11} THEN 30 ELSE 31

(* The Gregorian calendar by counting: days before a year and a month of it. *)
DaysBeforeYear(y) == 365 * (y - 1970) + Cardinality({x \in 1970..(y - 1) : Leap(x)})
DaysBeforeMonth(m, y) == MapThenSumSet(LAMBDA x : DaysIn(x, y), 1..(m - 1))

FirstOfMonth(m, y) == DaysBeforeYear(y) + DaysBeforeMonth(m, y)

(* Years on whose every day the two conversions agree with the calendar. *)
YearsWithRightDates ==
  {y \in 1970..LastYear : \A m \in 1..12 :
     LET first == FirstOfMonth(m, y)
     IN  \A d \in 1..DaysIn(m, y) :
           /\ CivilFromDays(first + d - 1) = <<y, m, d>>
           /\ DaysFromCivil(y, m, d) = first + d - 1}

(* Years on whose every day the bucket is that of the day's month. *)
YearsWithRightBuckets ==
  {y \in 1970..LastYear : \A m \in 1..12 :
     LET first == FirstOfMonth(m, y)
     IN  \A d \in 1..DaysIn(m, y) : MonthStart(first + d - 1) = first}

=============================================================================
