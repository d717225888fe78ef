------------------------------- MODULE Dates -------------------------------
(***************************************************************************)
(* Dates as the program computes with them.  dateOnly strips the time of   *)
(* day and every date is at midnight UTC, so a date is a whole number of   *)
(* days since 1 January 1970.  The first part stands for the proleptic     *)
(* Gregorian calendar of Go's time package, the second translates week.go  *)
(* and the ISO weeks of the reports.                                       *)
(***************************************************************************)
EXTENDS Integers

(***************************************************************************)
(* Go's time package, from 1970 on.  Weekdays are numbered as in Go:       *)
(* Sunday is 0.  A month is numbered 12 * year + (month - 1), so that the  *)
(* month after December is the January of the next year.                   *)
(***************************************************************************)
Weekdays   == 0 .. 6
Weekday(d) == (d + 4) % 7

Leap(y)      == y % 4 = 0 /\ (y % 100 # 0 \/ y % 400 = 0)
NewYear(y)   == 365 * (y - 1970) + (y - 1969) \div 4 - (y - 1901) \div 100
                                 + (y - 1601) \div 400
DaysBefore   == <<0, 31, 59, 90, 120, 151, 181, 212, 243, 273, 304, 334>>
MonthNo(y, m) == 12 * y + m - 1

FirstOf(mn) ==
  LET y == mn \div 12
      m == (mn % 12) + 1
  IN  NewYear(y) + DaysBefore[m] + (IF m > 2 /\ Leap(y) THEN 1 ELSE 0)

Date(y, m, day) == FirstOf(MonthNo(y, m)) + day - 1

\* The mean length of a year is 146097 / 400 days: the quotient is the year, or
\* the one before or after it.
Year(d) ==
  LET y == 1970 + (400 * d) \div 146097
  IN  IF d < NewYear(y) THEN y - 1
      ELSE IF d >= NewYear(y + 1) THEN y + 1 ELSE y

\* Likewise, dividing the day of the year by 32 gives the month or the one before.
MonthOf(d) ==
  LET y  == Year(d)
      mn == 12 * y + (d - NewYear(y)) \div 32
  IN  IF d >= FirstOf(mn + 1) THEN mn + 1 ELSE mn

Day(d)     == d - FirstOf(MonthOf(d)) + 1

MonthStart(d) == FirstOf(MonthOf(d))
MonthEnd(d)   == FirstOf(MonthOf(d) + 1) - 1

daysInMonth(mn) == FirstOf(mn + 1) - FirstOf(mn)

Earlier(a, b) == IF a <= b THEN a ELSE b
Later(a, b)   == IF a <= b THEN b ELSE a

(***************************************************************************)
(* services/week.go                                                        *)
(***************************************************************************)

\* Mutation: the weekday is not wrapped round.
WeekStartUnwrapped(day, startDay) == day - (Weekday(day) - startDay)

WeekStartFor(day, startDay) == day - ((Weekday(day) - startDay + 7) % 7)

WeekEndFor(day, startDay) == WeekStartFor(day, startDay) + 6

\* The dates of the history window, as a set: they are consecutive.
WeekDatesForHistory(today, startDay, weeks, includeToday) ==
  LET start == WeekStartFor(today, startDay) - 7 * (Later(weeks, 1) - 1)
      end   == IF includeToday THEN today ELSE today - 1
  IN  start .. end

\* The column heads of the calendar, which start from a Sunday of 2026.
WeekdayLabels(startDay) == [i \in 1 .. 7 |-> Weekday(Date(2026, 1, 4) + startDay + i - 1)]

(***************************************************************************)
(* The ISO weeks of reports.go.  Go's ISOWeek numbers a day by the year    *)
(* and the position in that year of the Thursday of its week.              *)
(***************************************************************************)
ISOWeek(d) ==
  LET thursday == WeekStartFor(d, 1) + 3
  IN  [year |-> Year(thursday), week |-> (thursday - NewYear(Year(thursday))) \div 7 + 1]

isoMondayWeekStartFor(day) == day - ((Weekday(day) + 6) % 7)

isoWeekStart(year, week) == isoMondayWeekStartFor(Date(year, 1, 4)) + (week - 1) * 7

validISOWeek(year, week) ==
  week \in 1 .. 53 /\ ISOWeek(isoWeekStart(year, week)) = [year |-> year, week |-> week]

\* Mutation: the week is named after the day it starts on.
WeekValueOfStart(start) == ISOWeek(start)

reportWeekValue(start) == ISOWeek(start + 2)
=============================================================================
