------------------------------- MODULE MCBars -------------------------------
(* Two intervals, one bucket of the longer spanning two of the shorter, and *)
(* the calendar of the monthly interval over the years the clock goes       *)
(* through: its few ticks are stretched over 1970..LastYear.                *)
EXTENDS Bars, Calendar

MCInterval == {"1m", "2m"}
MCWidth == [i \in MCInterval |-> IF i = "1m" THEN 2 ELSE 4]

YearsSoFar == 1970..(1970 + (clock * (LastYear - 1970)) \div MaxTime)

(* The date computed for a day number is the calendar's, over leap years,   *)
(* centuries and the end of the 400-year era, and converts back to the day. *)
DateIsRight == YearsSoFar \subseteq YearsWithRightDates

(* Every day is put in the bucket that starts with the first of its month,  *)
(* so on_trade and close_expired agree on when a monthly bar ends: the      *)
(* bucket changes exactly when the calendar's month does.                   *)
MonthBucketStartsTheMonth == YearsSoFar \subseteq YearsWithRightBuckets

(* The day arithmetic of the monthly buckets is the calendar's. *)
CalendarIsRight == DateIsRight /\ MonthBucketStartsTheMonth

=============================================================================
