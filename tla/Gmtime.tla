------------------------------- MODULE Gmtime -------------------------------
(***************************************************************************)
(* art_gmtime of ark_core/times (art_times.c) against a calendar that is   *)
(* turned over day by day: one state for each day from January 1, 1970,    *)
(* and with it a second of the day.  The number of days is a time_t that   *)
(* the code stores in an art_u32_t; all that it computes from the day it   *)
(* has then cut off at the end of 9999 stays below 2^31, and no difference *)
(* but yday is negative.                                                   *)
(***************************************************************************)
EXTENDS Integers

CONSTANTS
  Word,      \* the number of values of an art_u32_t: 2^32, or fewer for a run
  LastDay    \* bound: the last day looked at

MaxDays == 2932896   \* December 31, 9999

ASSUME GmtimeAssumption == Word \in Nat /\ Word > MaxDays /\ LastDay \in Nat

VARIABLES
  day,   \* t / 86400
  date   \* the calendar: year, mon from 1, mday from 1, wday from Sunday, 0

-----------------------------------------------------------------------------
(* The code *)

\* What days holds of t / 86400.
Narrowed(t) == t % Word

Clamped(days) == IF days > MaxDays THEN MaxDays ELSE days

\* Days since March 1, 1 BC.
SinceMarch(days) == days - (31 + 28) + 719527

IsLeap(year) == year % 4 = 0 /\ (year % 100 # 0 \/ year % 400 = 0)

DaysBefore(year) == 365 * year + year \div 4 - year \div 100 + year \div 400

\* The days not adjusted (for the mutant runs).
YearUnadjusted(days) == (days * 400) \div (365 * 400 + 100 - 4 + 1)

YearGuess(days) == ((days + 2) * 400) \div (365 * 400 + 100 - 4 + 1)

\* The year that began on March 1, and the day in it: the guess, or when
\* that is a day too late the year before.
YearAndDay(days) ==
  LET year == YearGuess(days)
      yday == days - DaysBefore(year)
  IN  IF yday >= 0 THEN [year |-> year, yday |-> yday]
      ELSE [year |-> year - 1, yday |-> 365 + (IF IsLeap(year) THEN 1 ELSE 0) + yday]

Broken(t) ==
  LET days == Clamped(Narrowed(t))
      y == YearAndDay(SinceMarch(days))
      mon == ((y.yday + 31) * 10) \div 306
      mday == y.yday - ((367 * mon) \div 12 - 30) + 1
  IN  [year |-> IF y.yday >= 306 THEN y.year + 1 ELSE y.year,
       mon  |-> IF y.yday >= 306 THEN mon - 10 ELSE mon + 2,
       mday |-> mday,
       wday |-> (4 + days) % 7]

\* The second of day t, which is the last one when the day was cut off.
SecOf(t, sec) == IF Narrowed(t) > MaxDays THEN 86399 ELSE sec

TimeOfDay(t, sec) ==
  LET s == SecOf(t, sec)
  IN  [hour |-> s \div 3600, min |-> (s % 3600) \div 60, sec |-> (s % 3600) % 60]

-----------------------------------------------------------------------------
(* The calendar *)

MonthLength(year, mon) ==
  CASE mon = 2              -> IF IsLeap(year) THEN 29 ELSE 28
    [] mon \in {4, 6, 9, 11} -> 30
    [] OTHER                -> 31

End == [year |-> 9999, mon |-> 12, mday |-> 31, wday |-> 5]

Following(d) ==
  LET last == d.mday = MonthLength(d.year, d.mon)
      turn == last /\ d.mon = 12
  IN  IF d = End THEN End
      ELSE [year |-> IF turn THEN d.year + 1 ELSE d.year,
            mon  |-> IF turn THEN 1 ELSE IF last THEN d.mon + 1 ELSE d.mon,
            mday |-> IF last THEN 1 ELSE d.mday + 1,
            wday |-> (d.wday + 1) % 7]

FirstDay == day = 0 /\ date = [year |-> 1970, mon |-> 1, mday |-> 1, wday |-> 4]

NextDay == day < LastDay /\ day' = day + 1 /\ date' = Following(date)

Calendar == FirstDay /\ [][NextDay]_<<day, date>>

-----------------------------------------------------------------------------
(* Properties *)

\* Of the days that an art_u32_t can count, art_gmtime's date is the
\* calendar's for every one to December 31, 9999, by Gauss' formula and its
\* correction around the end of February, and stays there, four digits wide,
\* from then on; so does the time of day, of which each day has another second.
GmtimeIsRight ==
  LET sec == day % 86400
      t == TimeOfDay(day, sec)
  IN  day < Word =>
        /\ Broken(day) = date
        /\ t.hour \in 0..23 /\ t.min \in 0..59 /\ t.sec \in 0..59
        /\ t.hour * 3600 + t.min * 60 + t.sec = IF date = End /\ day > MaxDays
                                                THEN 86399 ELSE sec

=============================================================================
