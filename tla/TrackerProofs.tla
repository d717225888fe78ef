---------------------------- MODULE TrackerProofs ----------------------------
(***************************************************************************)
(* The calendar, and the dates on which a task is due: occurrenceDates     *)
(* gives exactly the dates of the range on which the task repeats.         *)
(*                                                                         *)
(* A recursive function is the CHOOSE of its equation.  For each loop a    *)
(* function is exhibited that solves the equation; the loop's own function *)
(* solves it too, both agree from some month or year on (where the loop    *)
(* stops), and from there downwards.                                       *)
(*                                                                         *)
(* The tables: each SQL statement keeps the types and the keys, and the    *)
(* history of the schedules only grows, so they hold in every state of     *)
(* Tracker.  ORDER BY lists each row once.                                 *)
(***************************************************************************)
EXTENDS Tracker, FiniteSetTheorems, WellFoundedInduction, TLAPS

\* Every set of numbers has a least one: < is well founded, as the library proves.
LEMMA LeastNat ==
  ASSUME NEW S, S \subseteq Nat, S # {}
  PROVE  \E n \in S : \A m \in S : n <= m
<1>1. \A m, n \in Nat : <<m, n>> \in OpToRel(<, Nat) <=> m < n
  BY DEF OpToRel
<1>2. PICK R : IsWellFoundedOn(R, Nat) /\ \A m, n \in Nat : <<m, n>> \in R <=> m < n
  BY <1>1, NatLessThanWellFounded, Zenon
<1>3. IsWellFoundedOn(R, Nat)
  BY <1>2
<1>4. \E n \in S : \A m \in S : <<m, n>> \notin R
  BY <1>3, WFMin
<1>5. PICK n \in S : \A m \in S : <<m, n>> \notin R
  BY <1>4
<1>6. ASSUME NEW m \in S PROVE n <= m
  <2>1. m \in Nat /\ n \in Nat
    OBVIOUS
  <2>2. ~ (m < n)
    BY <1>2, <1>5, <2>1
  <2> QED
    BY <2>1, <2>2
<1> QED
  BY <1>6

-----------------------------------------------------------------------------
(***************************************************************************)
(* Years, months and days.                                                 *)
(***************************************************************************)
\* A year has 365 days, or 366.
LEMMA NewYearStep ==
  ASSUME NEW y \in Int
  PROVE  NewYear(y + 1) = NewYear(y) + (IF Leap(y) THEN 366 ELSE 365)
BY DEF NewYear, Leap

\* New years come in the order of the years.
LEMMA NewYears ==
  ASSUME NEW y \in Int, NEW z \in Int
  PROVE  NewYear(y) \in Int /\ (y < z => NewYear(y + 1) <= NewYear(z))
BY DEF NewYear

\* Year gives the year in which a day lies, for every day past or future.
LEMMA YearOf ==
  ASSUME NEW d \in Int
  PROVE  Year(d) \in Int /\ NewYear(Year(d)) <= d /\ d < NewYear(Year(d) + 1)
<1> DEFINE k == (400 * d) \div 146097
<1>1. k \in Int /\ 146097 * k <= 400 * d /\ 400 * d < 146097 * (k + 1)
  OBVIOUS
<1>2. 400 * NewYear(1970 + k + 2) >= 146097 * (k + 1)
  BY <1>1 DEF NewYear
<1>3. 400 * NewYear(1970 + k - 1) <= 146097 * k
  BY <1>1 DEF NewYear
<1> HIDE DEF k
<1>4. NewYear(1970 + k - 1) <= d /\ d < NewYear(1970 + k + 2)
  BY <1>1, <1>2, <1>3, NewYears
<1> DEFINE y == 1970 + k
<1>6. y \in Int /\ Year(d) = IF d < NewYear(y) THEN y - 1
                             ELSE IF d >= NewYear(y + 1) THEN y + 1 ELSE y
  BY <1>1 DEF Year, k
<1>7. NewYear(y - 1) <= d /\ d < NewYear(y + 2)
  BY <1>1, <1>4
<1> HIDE DEF y
<1>8. (y - 1) + 1 = y /\ (y + 1) + 1 = y + 2
  BY <1>6
<1>9. NewYear(y) \in Int /\ NewYear(y + 1) \in Int
  BY <1>6, NewYears
<1> QED  BY <1>6, <1>7, <1>8, <1>9

\* A day lies in one year only.
LEMMA YearIs ==
  ASSUME NEW d \in Int, NEW y \in Int, NewYear(y) <= d, d < NewYear(y + 1)
  PROVE  Year(d) = y
<1>1. y < Year(d) => NewYear(y + 1) <= NewYear(Year(d))
  BY YearOf, NewYears
<1>2. Year(d) < y => NewYear(Year(d) + 1) <= NewYear(y)
  BY YearOf, NewYears
<1>3. NewYear(y) \in Int /\ NewYear(y + 1) \in Int /\ Year(d) \in Int
  BY YearOf, NewYears
<1>4. NewYear(Year(d)) \in Int /\ NewYear(Year(d) + 1) \in Int
  BY <1>3, NewYears
<1> QED
  BY <1>1, <1>2, <1>3, <1>4, YearOf

\* The days of a year before a month.
Offset(y, m) == DaysBefore[m] + (IF m > 2 /\ Leap(y) THEN 1 ELSE 0)

\* How many days of the year precede each month, and how long the month is.
LEMMA Offsets ==
  ASSUME NEW y \in Int, NEW m \in 1 .. 12
  PROVE  /\ Offset(y, m) \in Int
         /\ 32 * (m - 2) <= Offset(y, m) /\ Offset(y, m) <= 32 * (m - 1)
         /\ m = 1 => Offset(y, m) = 0
         /\ m < 12 => Offset(y, m + 1) - Offset(y, m) \in 28 .. 31
         /\ m = 12 => NewYear(y + 1) - NewYear(y) - Offset(y, m) = 31
<1>1. Offset(y, m) \in Int
  BY DEF Offset, DaysBefore
<1>2. 32 * (m - 2) <= Offset(y, m) /\ Offset(y, m) <= 32 * (m - 1) /\ (m = 1 => Offset(y, m) = 0)
  BY DEF Offset, DaysBefore
<1>3. m < 12 => Offset(y, m + 1) - Offset(y, m) \in 28 .. 31
  BY DEF Offset, DaysBefore
<1>4. m = 12 => Offset(y, m) = IF Leap(y) THEN 335 ELSE 334
  BY DEF Offset, DaysBefore
<1>5. NewYear(y + 1) = NewYear(y) + (IF Leap(y) THEN 366 ELSE 365) /\ NewYear(y) \in Int
  BY NewYearStep, NewYears
<1> QED
  BY <1>1, <1>2, <1>3, <1>4, <1>5

\* The months of a year come one after another.
LEMMA OffsetsInOrder ==
  ASSUME NEW y \in Int, NEW m \in 1 .. 12, NEW n \in 1 .. 12, m < n
  PROVE  Offset(y, m + 1) <= Offset(y, n)
BY DEF Offset, DaysBefore

\* FirstOf, from the year and the month.
LEMMA FirstIs ==
  ASSUME NEW y \in Int, NEW m \in 1 .. 12, NEW mn, mn = 12 * y + m - 1
  PROVE  /\ mn \in Int /\ mn \div 12 = y /\ mn % 12 = m - 1
         /\ FirstOf(mn) = NewYear(y) + Offset(y, m)
<1>1. mn \in Int /\ mn \div 12 = y /\ mn % 12 = m - 1
  OBVIOUS
<1>2. DaysBefore[m] \in Int
  BY DEF DaysBefore
<1>3. NewYear(y) \in Int
  BY NewYears
<1>4. (mn % 12) + 1 = m
  BY <1>1
<1>5. FirstOf(mn) = NewYear(y) + DaysBefore[m] + (IF m > 2 /\ Leap(y) THEN 1 ELSE 0)
  BY <1>1, <1>4 DEF FirstOf
<1> QED
  BY <1>1, <1>2, <1>3, <1>5 DEF Offset

\* A month number stands for a month of a year.
LEMMA MonthParts ==
  ASSUME NEW mn \in Int
  PROVE  \E y \in Int, m \in 1 .. 12 : mn = 12 * y + m - 1
<1>1. /\ mn \div 12 \in Int /\ (mn % 12) + 1 \in 1 .. 12
      /\ mn = 12 * (mn \div 12) + ((mn % 12) + 1) - 1
  OBVIOUS
<1> QED
  BY <1>1

\* The first of the next month.
LEMMA NextFirst ==
  ASSUME NEW y \in Int, NEW m \in 1 .. 12, NEW mn, mn = 12 * y + m - 1
  PROVE  FirstOf(mn + 1) = IF m = 12 THEN NewYear(y + 1) ELSE NewYear(y) + Offset(y, m + 1)
<1>1. CASE m = 12
  <2>1. y + 1 \in Int /\ 1 \in 1 .. 12 /\ mn + 1 = 12 * (y + 1) + 1 - 1
    BY <1>1
  <2>2. FirstOf(mn + 1) = NewYear(y + 1) + Offset(y + 1, 1)
    BY <2>1, FirstIs
  <2> QED  BY <1>1, <2>1, <2>2, Offsets, NewYears
<1>2. CASE m < 12
  <2>1. m + 1 \in 1 .. 12 /\ mn + 1 = 12 * y + (m + 1) - 1
    BY <1>2
  <2>2. FirstOf(mn + 1) = NewYear(y) + Offset(y, m + 1)
    BY <2>1, FirstIs
  <2> QED  BY <1>2, <2>2
<1> QED  BY <1>1, <1>2

\* A month has 28 to 31 days.
LEMMA MonthLengths ==
  ASSUME NEW mn \in Int
  PROVE  /\ FirstOf(mn) \in Int /\ FirstOf(mn + 1) \in Int
         /\ daysInMonth(mn) \in 28 .. 31 /\ FirstOf(mn + 1) = FirstOf(mn) + daysInMonth(mn)
<1>1. PICK y \in Int, m \in 1 .. 12 : mn = 12 * y + m - 1
  BY MonthParts
<1>2. FirstOf(mn) = NewYear(y) + Offset(y, m)
  BY <1>1, FirstIs
<1>3. FirstOf(mn + 1) = IF m = 12 THEN NewYear(y + 1) ELSE NewYear(y) + Offset(y, m + 1)
  BY <1>1, NextFirst
<1>4. /\ NewYear(y) \in Int /\ NewYear(y + 1) \in Int
      /\ Offset(y, m) \in Int /\ (m < 12 => Offset(y, m + 1) \in Int)
      /\ m < 12 => Offset(y, m + 1) - Offset(y, m) \in 28 .. 31
      /\ m = 12 => NewYear(y + 1) - NewYear(y) - Offset(y, m) = 31
  <2>1. NewYear(y) \in Int /\ NewYear(y + 1) \in Int
    BY NewYears
  <2>2. m < 12 => m + 1 \in 1 .. 12
    OBVIOUS
  <2> QED
    BY <2>1, <2>2, Offsets
<1> QED
  BY <1>2, <1>3, <1>4 DEF daysInMonth

\* Months do not overlap, in whatever years they are.
LEMMA MonthsInOrder ==
  ASSUME NEW mn \in Int, NEW mo \in Int, mn < mo
  PROVE  FirstOf(mn + 1) <= FirstOf(mo)
<1>1. PICK y \in Int, m \in 1 .. 12 : mn = 12 * y + m - 1
  BY MonthParts
<1>2. PICK z \in Int, n \in 1 .. 12 : mo = 12 * z + n - 1
  BY MonthParts
<1>3. /\ FirstOf(mn + 1) = IF m = 12 THEN NewYear(y + 1) ELSE NewYear(y) + Offset(y, m + 1)
      /\ FirstOf(mo) = NewYear(z) + Offset(z, n)
  <2>1. FirstOf(mo) = NewYear(z) + Offset(z, n)
    BY <1>2, FirstIs
  <2>2. FirstOf(mn + 1) = IF m = 12 THEN NewYear(y + 1) ELSE NewYear(y) + Offset(y, m + 1)
    BY <1>1, NextFirst
  <2> QED
    BY <2>1, <2>2
<1>4. y < z \/ (y = z /\ m < n)
  <2>1. 12 * y + m < 12 * z + n
    BY <1>1, <1>2
  <2>2. z < y => 12 * z + n < 12 * y + m
    OBVIOUS
  <2> QED
    BY <2>1, <2>2
<1>5. /\ NewYear(y) \in Int /\ NewYear(y + 1) \in Int /\ NewYear(z) \in Int
      /\ Offset(z, n) \in Int /\ Offset(z, n) >= 0 /\ (m < 12 => Offset(y, m + 1) \in Int)
  <2>1. NewYear(y) \in Int /\ NewYear(y + 1) \in Int /\ NewYear(z) \in Int
    BY NewYears
  <2>2. 1 \in 1 .. 12 /\ Offset(z, 1) = 0
    BY Offsets
  <2>3. n = 1 \/ Offset(z, 1 + 1) <= Offset(z, n)
    BY <2>2, OffsetsInOrder
  <2>4. Offset(z, 1) \in Int /\ Offset(z, 1 + 1) - Offset(z, 1) \in 28 .. 31
        /\ Offset(z, 1 + 1) \in Int
    BY <2>2, Offsets
  <2>5. Offset(z, n) \in Int
    BY Offsets
  <2>6. Offset(z, n) >= 0
    BY <2>2, <2>3, <2>4, <2>5
  <2>7. m < 12 => m + 1 \in 1 .. 12
    OBVIOUS
  <2>8. m < 12 => Offset(y, m + 1) \in Int
    BY <2>7, Offsets
  <2> QED  BY <2>1, <2>5, <2>6, <2>8
<1>6. CASE y = z /\ m < n
  BY <1>3, <1>5, <1>6, OffsetsInOrder
<1>7. CASE y < z
  <2>1. NewYear(y + 1) <= NewYear(z)
    BY <1>7, NewYears
  <2>2. m < 12 => NewYear(y) + Offset(y, m + 1) <= NewYear(y + 1)
    <3> SUFFICES ASSUME m < 12 PROVE NewYear(y) + Offset(y, m + 1) <= NewYear(y + 1)
      OBVIOUS
    <3>1. m < 12 /\ 12 \in 1 .. 12 /\ m + 1 \in 1 .. 12
      OBVIOUS
    <3>2. Offset(y, 12) \in Int /\ NewYear(y + 1) - NewYear(y) - Offset(y, 12) = 31
      BY <3>1, Offsets
    <3>3. Offset(y, m + 1) <= Offset(y, 12)
      BY <3>1, OffsetsInOrder
    <3>4. Offset(y, m + 1) \in Int
      BY <3>1, Offsets
    <3> QED  BY <1>5, <3>2, <3>3, <3>4
  <2> QED  BY <1>3, <1>5, <2>1, <2>2
<1> QED  BY <1>4, <1>6, <1>7

\* A day lies in one month only.
LEMMA MonthIs ==
  ASSUME NEW d \in Int, NEW mn \in Int, NEW mo \in Int,
         FirstOf(mn) <= d, d < FirstOf(mn + 1), FirstOf(mo) <= d, d < FirstOf(mo + 1)
  PROVE  mn = mo
<1>1. FirstOf(mn) \in Int /\ FirstOf(mo) \in Int
      /\ FirstOf(mn + 1) \in Int /\ FirstOf(mo + 1) \in Int
  BY MonthLengths
<1>2. mn < mo => FirstOf(mn + 1) <= FirstOf(mo)
  BY MonthsInOrder
<1>3. mo < mn => FirstOf(mo + 1) <= FirstOf(mn)
  BY MonthsInOrder
<1> QED
  BY <1>1, <1>2, <1>3

\* MonthOf gives the month in which a day lies, and its year is the day's.
LEMMA MonthOfDay ==
  ASSUME NEW d \in Int
  PROVE  /\ MonthOf(d) \in Int /\ MonthOf(d) \div 12 = Year(d)
         /\ FirstOf(MonthOf(d)) <= d /\ d < FirstOf(MonthOf(d) + 1)
<1> DEFINE y  == Year(d)
           q  == (d - NewYear(y)) \div 32
           mn == 12 * y + q
<1>1. y \in Int /\ NewYear(y) <= d /\ d < NewYear(y + 1)
  BY YearOf
<1>2. MonthOf(d) = IF d >= FirstOf(mn + 1) THEN mn + 1 ELSE mn
  BY DEF MonthOf
<1> HIDE DEF y
<1>3. NewYear(y) \in Int /\ NewYear(y + 1) \in Int /\ NewYear(y + 1) <= NewYear(y) + 366
  <2>1. NewYear(y) \in Int
    BY <1>1, NewYears
  <2>2. NewYear(y + 1) = NewYear(y) + (IF Leap(y) THEN 366 ELSE 365)
    BY <1>1, NewYearStep
  <2> QED  BY <2>1, <2>2
<1>4. q \in 0 .. 11 /\ 32 * q <= d - NewYear(y) /\ d - NewYear(y) < 32 * (q + 1)
  BY <1>1, <1>3
<1> HIDE DEF q
<1>5. q + 1 \in 1 .. 12 /\ mn = 12 * y + (q + 1) - 1 /\ mn \in Int /\ mn \div 12 = y
  BY <1>1, <1>4
<1> HIDE DEF mn
<1>6. FirstOf(mn) = NewYear(y) + Offset(y, q + 1)
  BY <1>1, <1>5, FirstIs
<1>7. Offset(y, q + 1) \in Int /\ Offset(y, q + 1) <= 32 * ((q + 1) - 1)
  BY <1>1, <1>5, Offsets
<1>8. FirstOf(mn) <= d
  BY <1>1, <1>3, <1>4, <1>6, <1>7
<1>9. CASE q = 11
  <2>1. FirstOf(mn + 1) = NewYear(y + 1)
    <3>1. 12 \in 1 .. 12 /\ mn = 12 * y + 12 - 1
      BY <1>1, <1>5, <1>9
    <3> QED  BY <1>1, <3>1, NextFirst
  <2> QED  BY <1>1, <1>2, <1>3, <1>5, <1>8, <2>1 DEF y
<1>10. CASE q < 11
  <2>1. q + 2 \in 1 .. 12 /\ mn + 1 = 12 * y + (q + 2) - 1 /\ (mn + 1) \div 12 = y
        /\ mn + 1 \in Int
    BY <1>1, <1>4, <1>5, <1>10
  <2>2. FirstOf((mn + 1) + 1) = IF q + 2 = 12 THEN NewYear(y + 1)
                                ELSE NewYear(y) + Offset(y, (q + 2) + 1)
    BY <1>1, <2>1, NextFirst
  <2>3. d < FirstOf((mn + 1) + 1)
    <3>1. CASE q + 2 = 12
      BY <1>1, <2>2, <3>1
    <3>2. CASE q + 2 # 12
      <4>1. (q + 2) + 1 \in 1 .. 12
        BY <2>1, <3>2
      <4>2. Offset(y, (q + 2) + 1) \in Int /\ 32 * (((q + 2) + 1) - 2) <= Offset(y, (q + 2) + 1)
        BY <1>1, <4>1, Offsets
      <4> QED  BY <1>3, <1>4, <2>2, <3>2, <4>2
    <3> QED  BY <3>1, <3>2
  <2>4. FirstOf(mn + 1) \in Int
    BY <1>5, MonthLengths
  <2> QED  BY <1>2, <1>5, <1>8, <2>1, <2>3, <2>4 DEF y
<1> QED  BY <1>4, <1>9, <1>10

\* The day of the month, and the day from it.
LEMMA DayOfMonth ==
  ASSUME NEW d \in Int
  PROVE  Day(d) \in 1 .. daysInMonth(MonthOf(d)) /\ d = FirstOf(MonthOf(d)) + Day(d) - 1
<1>1. /\ MonthOf(d) \in Int /\ FirstOf(MonthOf(d)) <= d /\ d < FirstOf(MonthOf(d) + 1)
  BY MonthOfDay
<1>2. /\ FirstOf(MonthOf(d)) \in Int /\ daysInMonth(MonthOf(d)) \in 28 .. 31
      /\ FirstOf(MonthOf(d) + 1) = FirstOf(MonthOf(d)) + daysInMonth(MonthOf(d))
  BY <1>1, MonthLengths
<1> QED
  BY <1>1, <1>2 DEF Day

\* A day of a month that has it is a date with that day and that month.
LEMMA DateIs ==
  ASSUME NEW mn \in Int, NEW day \in 1 .. daysInMonth(mn), NEW d, d = FirstOf(mn) + day - 1
  PROVE  d \in Int /\ MonthOf(d) = mn /\ Day(d) = day
<1>1. /\ FirstOf(mn) \in Int /\ daysInMonth(mn) \in 28 .. 31
      /\ FirstOf(mn + 1) = FirstOf(mn) + daysInMonth(mn)
  BY MonthLengths
<1>2. d \in Int /\ FirstOf(mn) <= d /\ d < FirstOf(mn + 1)
  BY <1>1
<1>3. MonthOf(d) = mn
  BY <1>2, MonthIs, MonthOfDay
<1> QED
  BY <1>1, <1>2, <1>3 DEF Day

\* A later day is not in an earlier month.
LEMMA MonthsOfDays ==
  ASSUME NEW d \in Int, NEW e \in Int, d <= e
  PROVE  MonthOf(d) <= MonthOf(e)
<1>1. /\ MonthOf(d) \in Int /\ FirstOf(MonthOf(d)) <= d /\ d < FirstOf(MonthOf(d) + 1)
      /\ MonthOf(e) \in Int /\ FirstOf(MonthOf(e)) <= e /\ e < FirstOf(MonthOf(e) + 1)
  BY MonthOfDay
<1>2. FirstOf(MonthOf(d)) \in Int /\ FirstOf(MonthOf(e) + 1) \in Int
  BY <1>1, MonthLengths
<1>3. MonthOf(e) < MonthOf(d) => FirstOf(MonthOf(e) + 1) <= FirstOf(MonthOf(d))
  BY <1>1, MonthsInOrder
<1> QED  BY <1>1, <1>2, <1>3

-----------------------------------------------------------------------------
(***************************************************************************)
(* Weeks.                                                                  *)
(***************************************************************************)

\* A week starts on the last such weekday up to the day.
LEMMA WeekStarts ==
  ASSUME NEW d \in Int, NEW startDay \in Weekdays
  PROVE  /\ WeekStartFor(d, startDay) \in Int
         /\ d - 6 <= WeekStartFor(d, startDay) /\ WeekStartFor(d, startDay) <= d
         /\ Weekday(WeekStartFor(d, startDay)) = startDay
BY DEF WeekStartFor, Weekday, Weekdays

LEMMA WeekStartIs ==
  ASSUME NEW d \in Int, NEW startDay \in Weekdays, NEW start \in Int,
         d - 6 <= start, start <= d, Weekday(start) = startDay
  PROVE  WeekStartFor(d, startDay) = start
BY DEF WeekStartFor, Weekday, Weekdays

\* The number of the week of a day is a legal one, and stands for that week.
LEMMA ISOWeekStands ==
  ASSUME NEW d \in Int, NEW year, NEW week, ISOWeek(d) = [year |-> year, week |-> week]
  PROVE  validISOWeek(year, week) /\ isoWeekStart(year, week) = WeekStartFor(d, 1)
<1>1. PICK monday \in Int : monday = WeekStartFor(d, 1) /\ Weekday(monday) = 1
  BY WeekStarts DEF Weekdays
<1>2. PICK y \in Int, first \in Int, next \in Int :
        /\ y = Year(monday + 3) /\ first = NewYear(y) /\ next = NewYear(y + 1)
        /\ first <= monday + 3 /\ monday + 3 < next /\ next <= first + 366
  <2>1. /\ Year(monday + 3) \in Int /\ NewYear(Year(monday + 3)) <= monday + 3
        /\ monday + 3 < NewYear(Year(monday + 3) + 1)
    BY YearOf
  <2>2. /\ NewYear(Year(monday + 3)) \in Int
        /\ NewYear(Year(monday + 3) + 1)
             = NewYear(Year(monday + 3)) + (IF Leap(Year(monday + 3)) THEN 366 ELSE 365)
    BY <2>1, NewYears, NewYearStep
  <2> QED
    BY <2>1, <2>2
<1>3. PICK k \in 0 .. 52 : k = (monday + 3 - first) \div 7
  BY <1>2
<1>4. year = y /\ week = k + 1
  BY <1>1, <1>2, <1>3 DEF ISOWeek
<1>5. Date(year, 1, 4) = first + 3
  <2>1. 1 \in 1 .. 12 /\ MonthNo(y, 1) = 12 * y + 1 - 1
    BY DEF MonthNo
  <2>2. FirstOf(MonthNo(y, 1)) = NewYear(y) + Offset(y, 1) /\ Offset(y, 1) = 0
    BY <2>1, FirstIs, Offsets
  <2> QED
    BY <1>2, <1>4, <2>2 DEF Date
<1>6. isoWeekStart(year, week) = monday
  <2>1. PICK r \in 0 .. 6 : r = (first + 13) % 7
    OBVIOUS
  <2>2. isoMondayWeekStartFor(first + 3) = first + 3 - r
    BY <2>1 DEF isoMondayWeekStartFor, Weekday
  <2>3. first + 3 - r + k * 7 = monday
    <3>1. PICK p \in Int : monday = 7 * p + 4
      <4>1. monday = 7 * ((monday - 4) \div 7) + 4
        BY <1>1 DEF Weekday
      <4> QED  BY <4>1
    <3>2. PICK q \in Int : q = (first + 13) \div 7 /\ first + 13 = 7 * q + r
      BY <2>1
    <3>3. monday + 3 - first = 7 * (p - q + 2) + (6 - r)
      BY <3>1, <3>2
    <3>4. k = p - q + 2
      BY <1>3, <3>3
    <3> QED
      BY <3>1, <3>2, <3>4
  <2> QED
    BY <1>4, <1>5, <2>2, <2>3 DEF isoWeekStart
<1>7. ISOWeek(monday) = [year |-> year, week |-> week]
  <2>1. WeekStartFor(monday, 1) = monday
    BY <1>1, WeekStartIs DEF Weekdays
  <2> QED
    BY <1>1, <2>1 DEF ISOWeek
<1> QED
  BY <1>1, <1>4, <1>6, <1>7 DEF validISOWeek

-----------------------------------------------------------------------------
(***************************************************************************)
(* The loops of occurrenceDates.                                           *)
(***************************************************************************)
\* Functions that agree from n on, and below it whenever they agree one further up,
\* agree everywhere.
LEMMA Downwards ==
  ASSUME NEW f, NEW g, NEW n \in Int,
         \A m \in Int : m >= n => f[m] = g[m],
         \A m \in Int : f[m + 1] = g[m + 1] => f[m] = g[m]
  PROVE  \A m \in Int : f[m] = g[m]
<1> DEFINE S == {k \in Nat : f[n - k] # g[n - k]}
<1>1. ASSUME S # {} PROVE FALSE
  <2>1. S \subseteq Nat
    OBVIOUS
  <2>2. PICK k \in S : \A j \in S : k <= j
    BY <1>1, <2>1, LeastNat
  <2>3. k \in Nat /\ k # 0 /\ f[n - k] # g[n - k]
    BY <2>2
  <2>4. k - 1 \in Nat /\ k - 1 \notin S
    BY <2>2, <2>3
  <2>5. f[n - (k - 1)] = g[n - (k - 1)]
    BY <2>4
  <2>6. n - k \in Int /\ n - (k - 1) = (n - k) + 1
    BY <2>3
  <2> QED
    BY <2>3, <2>5, <2>6
<1>2. ASSUME NEW m \in Int PROVE f[m] = g[m]
  <2>1. CASE m < n
    <3>1. n - m \in Nat /\ n - (n - m) = m
      BY <2>1
    <3> QED
      BY <1>1, <3>1
  <2> QED
    BY <2>1
<1> QED
  BY <1>2

\* A date of a month that comes later is later.
LEMMA LaterMonth ==
  ASSUME NEW d \in Int, NEW mn \in Int, MonthOf(d) >= mn + 1
  PROVE  FirstOf(mn + 1) <= d
<1>1. MonthOf(d) \in Int /\ FirstOf(MonthOf(d)) <= d /\ FirstOf(MonthOf(d)) \in Int
      /\ FirstOf(mn + 1) \in Int /\ mn + 1 \in Int /\ FirstOf((mn + 1) + 1) \in Int
      /\ FirstOf((mn + 1) + 1) >= FirstOf(mn + 1)
  <2>1. MonthOf(d) \in Int /\ FirstOf(MonthOf(d)) <= d
    BY MonthOfDay
  <2>2. FirstOf(MonthOf(d)) \in Int
    BY <2>1, MonthLengths
  <2>3. mn + 1 \in Int /\ FirstOf(mn + 1) \in Int
    BY MonthLengths
  <2>4. FirstOf((mn + 1) + 1) = FirstOf(mn + 1) + daysInMonth(mn + 1)
        /\ daysInMonth(mn + 1) \in 28 .. 31
    BY <2>3, MonthLengths
  <2> QED  BY <2>1, <2>2, <2>3, <2>4
<1>2. CASE MonthOf(d) = mn + 1
  BY <1>1, <1>2
<1>3. CASE MonthOf(d) > mn + 1
  BY <1>1, <1>3, MonthsInOrder
<1> QED  BY <1>1, <1>2, <1>3

\* One turn of a loop over months or years: the date of this one, if there is
\* such a date and it lies in the range, and those of the later ones.
Turn(rs, re, day, length, cand, next, later) ==
  IF day <= length /\ cand > re THEN {}
  ELSE IF next > re THEN IF day <= length /\ cand >= rs THEN {cand} ELSE {}
  ELSE (IF day <= length /\ cand >= rs THEN {cand} ELSE {}) \cup later

\* The loop over months yields the dates with the day of the start date.
LEMMA MonthlyRepeats ==
  ASSUME NEW start \in Int, NEW rs \in Int, NEW re \in Int, rs <= re
  PROVE  MonthlyDates(start, rs, re) = {d \in rs .. re : Day(d) = Day(start)}
<1>2. PICK day \in Int : day = Day(start) /\ day >= 1
  <2>1. Day(start) \in 1 .. daysInMonth(MonthOf(start)) /\ MonthOf(start) \in Int
    BY DayOfMonth, MonthOfDay
  <2>2. daysInMonth(MonthOf(start)) \in 28 .. 31
    BY <2>1, MonthLengths
  <2> QED  BY <2>1, <2>2
<1> DEFINE cand(mn) == FirstOf(mn) + day - 1
           exists(mn) == day <= daysInMonth(mn)
           here(mn) == IF exists(mn) /\ cand(mn) >= rs THEN {cand(mn)} ELSE {}
           Step(g, mn) == IF exists(mn) /\ cand(mn) > re THEN {}
                          ELSE IF FirstOf(mn + 1) > re THEN here(mn)
                          ELSE here(mn) \cup g[mn + 1]
           from == CHOOSE g : g = [mn \in Int |-> Step(g, mn)]
           sol == [mn \in Int |-> {d \in rs .. re : Day(d) = day /\ MonthOf(d) >= mn}]
<1>1. MonthlyDates(start, rs, re) = from[MonthOf(rs)]
  BY <1>2 DEF MonthlyDates
<1>3. ASSUME NEW mn \in Int PROVE sol[mn] = Step(sol, mn)
  <2>1. /\ FirstOf(mn) \in Int /\ FirstOf(mn + 1) \in Int /\ daysInMonth(mn) \in 28 .. 31
        /\ FirstOf(mn + 1) = FirstOf(mn) + daysInMonth(mn) /\ mn + 1 \in Int
    BY MonthLengths
  <2>2. ASSUME NEW d \in Int
        PROVE  MonthOf(d) = mn /\ Day(d) = day <=> exists(mn) /\ d = cand(mn)
    <3>1. CASE MonthOf(d) = mn /\ Day(d) = day
      BY <3>1, DayOfMonth
    <3>2. CASE exists(mn) /\ d = cand(mn)
      <4>1. day \in 1 .. daysInMonth(mn)
        BY <1>2, <2>1, <3>2
      <4> QED  BY <3>2, <4>1, DateIs
    <3> QED  BY <3>1, <3>2
  <2>3. exists(mn) => cand(mn) < FirstOf(mn + 1) /\ cand(mn) \in Int
    BY <1>2, <2>1
  <2>4. \A d \in Int : MonthOf(d) \in Int /\ (MonthOf(d) >= mn + 1 => FirstOf(mn + 1) <= d)
    BY MonthOfDay, LaterMonth
  <2> HIDE DEF cand
  <2>5. \A d \in Int : MonthOf(d) >= mn <=> MonthOf(d) = mn \/ MonthOf(d) >= mn + 1
    BY <2>4
  <2>6. sol[mn] = {d \in rs .. re : Day(d) = day /\ MonthOf(d) >= mn}
        /\ sol[mn + 1] = {d \in rs .. re : Day(d) = day /\ MonthOf(d) >= mn + 1}
    BY <2>1
  <2> HIDE DEF sol
  <2>7. ASSUME NEW d
        PROVE  d \in sol[mn] <=>
                 d \in rs .. re /\ ((exists(mn) /\ d = cand(mn)) \/ d \in sol[mn + 1])
    <3>1. CASE d \in rs .. re
      <4>1. d \in Int
        BY <3>1
      <4>2. MonthOf(d) = mn /\ Day(d) = day <=> exists(mn) /\ d = cand(mn)
        BY <2>2, <4>1
      <4>3. MonthOf(d) >= mn <=> MonthOf(d) = mn \/ MonthOf(d) >= mn + 1
        BY <2>5, <4>1
      <4>4. d \in sol[mn] <=> Day(d) = day /\ MonthOf(d) >= mn
        BY <2>6, <3>1
      <4>5. d \in sol[mn + 1] <=> Day(d) = day /\ MonthOf(d) >= mn + 1
        BY <2>6, <3>1
      <4> HIDE DEF exists, cand
      <4> QED
        BY <3>1, <4>2, <4>3, <4>4, <4>5
    <3>2. CASE d \notin rs .. re
      BY <2>6, <3>2
    <3> QED  BY <3>1, <3>2
  <2>8. \A d \in sol[mn + 1] : d \in rs .. re /\ FirstOf(mn + 1) <= d
    BY <2>4, <2>6
  <2>9. exists(mn) \in BOOLEAN /\ cand(mn) \in Int
    BY <1>2, <2>1 DEF cand
  <2>10. PICK c \in Int, next \in Int, len \in Int :
           c = cand(mn) /\ next = FirstOf(mn + 1) /\ len = daysInMonth(mn)
    BY <1>2, <2>1, <2>9
  <2> DEFINE later == sol[mn + 1]
  <2>11. \A d \in later : d \in rs .. re /\ next <= d
    BY <2>8, <2>10
  <2>12. \A d : d \in sol[mn] <=> d \in rs .. re /\ ((day <= len /\ d = c) \/ d \in later)
    BY <2>7, <2>10
  <2>13. day <= len => c < next
    BY <2>3, <2>10
  <2> HIDE DEF later
  <2>14. \A d : d \in Turn(rs, re, day, len, c, next, later)
               <=> d \in rs .. re /\ ((day <= len /\ d = c) \/ d \in later)
    BY <1>2, <2>10, <2>11, <2>13 DEF Turn
  <2>15. \A d : d \in sol[mn] <=> d \in Turn(rs, re, day, len, c, next, later)
    BY <2>12, <2>14
  <2>16. sol[mn] = Turn(rs, re, day, len, c, next, later)
    BY <2>15
  <2> QED  BY <2>10, <2>16 DEF Turn, later
<1>4. sol = [mn \in Int |-> Step(sol, mn)]
  BY <1>3
<1>5. from = [mn \in Int |-> Step(from, mn)]
  BY <1>4
<1>6. MonthOf(re) \in Int /\ MonthOf(rs) \in Int /\ MonthOf(rs) <= MonthOf(re)
  BY MonthOfDay, MonthsOfDays
<1> HIDE DEF from, sol, cand, exists
<1>7. ASSUME NEW mn \in Int, mn >= MonthOf(re) PROVE from[mn] = sol[mn]
  <2>1. FirstOf(mn + 1) > re
    <3>1. /\ re < FirstOf(MonthOf(re) + 1) /\ FirstOf(MonthOf(re) + 1) \in Int
          /\ FirstOf(mn) \in Int /\ FirstOf(mn + 1) \in Int /\ FirstOf(mn) <= FirstOf(mn + 1)
      <4>1. re < FirstOf(MonthOf(re) + 1)
        BY MonthOfDay
      <4>2. FirstOf(mn) \in Int /\ FirstOf(mn + 1) = FirstOf(mn) + daysInMonth(mn)
            /\ daysInMonth(mn) \in 28 .. 31
        BY MonthLengths
      <4>3. FirstOf(MonthOf(re) + 1) \in Int
        BY <1>6, MonthLengths
      <4> QED  BY <4>1, <4>2, <4>3
    <3>2. CASE mn = MonthOf(re)
      BY <3>1, <3>2
    <3>3. CASE MonthOf(re) < mn
      BY <1>6, <3>1, <3>3, MonthsInOrder
    <3> QED  BY <1>6, <1>7, <3>2, <3>3
  <2> QED  BY <1>4, <1>5, <2>1
<1>8. \A mn \in Int : from[mn + 1] = sol[mn + 1] => from[mn] = sol[mn]
  BY <1>4, <1>5
<1>9. from[MonthOf(rs)] = sol[MonthOf(rs)]
  BY <1>6, <1>7, <1>8, Downwards
<1>10. \A d \in rs .. re : MonthOf(d) >= MonthOf(rs)
  BY MonthOfDay, MonthsOfDays
<1> QED
  BY <1>1, <1>6, <1>9, <1>2, <1>10 DEF sol

\* The loop over years yields the dates with the day and the month of the start date.
LEMMA YearlyRepeats ==
  ASSUME NEW start \in Int, NEW rs \in Int, NEW re \in Int, rs <= re
  PROVE  YearlyDates(start, rs, re)
           = {d \in rs .. re : Day(d) = Day(start) /\ MonthOf(d) % 12 = MonthOf(start) % 12}
<1>1. PICK day \in Int : day = Day(start) /\ day >= 1
  <2>1. Day(start) \in 1 .. daysInMonth(MonthOf(start)) /\ MonthOf(start) \in Int
    BY DayOfMonth, MonthOfDay
  <2>2. daysInMonth(MonthOf(start)) \in 28 .. 31
    BY <2>1, MonthLengths
  <2> QED  BY <2>1, <2>2
<1>2. PICK month \in 0 .. 11 : month = MonthOf(start) % 12
  <2>1. PICK mn \in Int : mn = MonthOf(start)
    BY MonthOfDay
  <2>2. mn % 12 \in 0 .. 11
    OBVIOUS
  <2> QED  BY <2>1, <2>2
<1> DEFINE Month(y) == 12 * y + month
           cand(y) == FirstOf(Month(y)) + day - 1
           exists(y) == day <= daysInMonth(Month(y))
           here(y) == IF exists(y) /\ cand(y) >= rs THEN {cand(y)} ELSE {}
           Step(g, y) == IF exists(y) /\ cand(y) > re THEN {}
                         ELSE IF FirstOf(Month(y) + 12) > re THEN here(y)
                         ELSE here(y) \cup g[y + 1]
           from == CHOOSE g : g = [y \in Int |-> Step(g, y)]
           Right(d) == Day(d) = day /\ MonthOf(d) % 12 = month
           sol == [y \in Int |-> {d \in rs .. re : Right(d) /\ MonthOf(d) >= Month(y)}]
<1>3. YearlyDates(start, rs, re) = from[Year(rs)]
  BY <1>1, <1>2 DEF YearlyDates
<1>4. ASSUME NEW y \in Int PROVE sol[y] = Step(sol, y)
  <2>1. PICK mn \in Int : mn = Month(y)
    OBVIOUS
  <2>2. PICK c \in Int, len \in Int, next \in Int :
          /\ c = cand(y) /\ len = daysInMonth(mn) /\ next = FirstOf(mn + 12)
          /\ day <= len => c < next
    <3>1. /\ FirstOf(mn) \in Int /\ FirstOf(mn + 1) \in Int /\ daysInMonth(mn) \in 28 .. 31
          /\ FirstOf(mn + 1) = FirstOf(mn) + daysInMonth(mn)
      BY MonthLengths
    <3>2. mn + 12 \in Int /\ mn < mn + 12
      OBVIOUS
    <3>3. FirstOf(mn + 12) \in Int /\ FirstOf(mn + 1) <= FirstOf(mn + 12)
      BY <3>2, MonthLengths, MonthsInOrder
    <3> QED  BY <1>1, <2>1, <3>1, <3>3
  <2>3. ASSUME NEW d \in Int
        PROVE  /\ MonthOf(d) \in Int
               /\ MonthOf(d) = mn /\ Day(d) = day <=> day <= len /\ d = c
               /\ MonthOf(d) >= mn + 12 => next <= d
    <3>1. MonthOf(d) \in Int
      BY MonthOfDay
    <3>2. ASSUME MonthOf(d) = mn, Day(d) = day PROVE day <= len /\ d = c
      BY <2>1, <2>2, <3>2, DayOfMonth
    <3>3. ASSUME day <= len, d = c PROVE MonthOf(d) = mn /\ Day(d) = day
      <4>1. day \in 1 .. daysInMonth(mn)
        BY <1>1, <2>2, <3>3
      <4> QED  BY <2>1, <2>2, <3>3, <4>1, DateIs
    <3>4. ASSUME MonthOf(d) >= mn + 12 PROVE next <= d
      <4>1. mn + 11 \in Int /\ (mn + 11) + 1 = mn + 12 /\ MonthOf(d) >= (mn + 11) + 1
        BY <3>4
      <4>2. FirstOf((mn + 11) + 1) <= d
        BY <4>1, LaterMonth
      <4> QED  BY <2>2, <4>1, <4>2
    <3> QED  BY <3>1, <3>2, <3>3, <3>4
  <2>4. ASSUME NEW d \in Int
        PROVE  /\ MonthOf(d) = mn => MonthOf(d) % 12 = month
               /\ MonthOf(d) >= mn /\ MonthOf(d) % 12 = month
                    => MonthOf(d) = mn \/ MonthOf(d) >= mn + 12
    BY <2>1, <2>3
  <2> DEFINE later == sol[y + 1]
  <2>5. later = {d \in rs .. re : Right(d) /\ MonthOf(d) >= mn + 12}
    BY <2>1
  <2>6. sol[y] = {d \in rs .. re : Right(d) /\ MonthOf(d) >= mn}
    BY <2>1
  <2>7. \A d \in later : d \in rs .. re /\ next <= d
    BY <2>3, <2>5
  <2> HIDE DEF sol, later, Month, cand
  <2>8. ASSUME NEW d
        PROVE  d \in sol[y] <=> d \in rs .. re /\ ((day <= len /\ d = c) \/ d \in later)
    <3>1. CASE d \in rs .. re
      <4>1. d \in Int
        BY <3>1
      <4>2. MonthOf(d) \in Int /\ (MonthOf(d) = mn /\ Day(d) = day <=> day <= len /\ d = c)
        BY <2>3, <4>1
      <4>3. /\ MonthOf(d) = mn => MonthOf(d) % 12 = month
            /\ MonthOf(d) >= mn /\ MonthOf(d) % 12 = month
                 => MonthOf(d) = mn \/ MonthOf(d) >= mn + 12
        BY <2>4, <4>1
      <4>4. d \in sol[y] <=> Right(d) /\ MonthOf(d) >= mn
        BY <2>6, <3>1
      <4>5. d \in later <=> Right(d) /\ MonthOf(d) >= mn + 12
        BY <2>5, <3>1
      <4>6. /\ MonthOf(d) = mn => MonthOf(d) >= mn
            /\ MonthOf(d) >= mn + 12 => MonthOf(d) >= mn
        BY <4>2
      <4> QED  BY <3>1, <4>2, <4>3, <4>4, <4>5, <4>6
    <3>2. CASE d \notin rs .. re
      BY <2>6, <3>2
    <3> QED  BY <3>1, <3>2
  <2>9. \A d : d \in Turn(rs, re, day, len, c, next, later)
               <=> d \in rs .. re /\ ((day <= len /\ d = c) \/ d \in later)
    BY <1>1, <2>2, <2>7 DEF Turn
  <2>10. \A d : d \in sol[y] <=> d \in Turn(rs, re, day, len, c, next, later)
    BY <2>8, <2>9
  <2>11. sol[y] = Turn(rs, re, day, len, c, next, later)
    BY <2>10
  <2> QED  BY <2>1, <2>2, <2>11 DEF Turn, later
<1>5. sol = [y \in Int |-> Step(sol, y)]
  BY <1>4
<1>6. from = [y \in Int |-> Step(from, y)]
  BY <1>5
<1>7. Year(re) \in Int /\ Year(rs) \in Int
  BY YearOf
<1>8. ASSUME NEW y \in Int, y >= Year(re) PROVE FirstOf(Month(y) + 12) > re
  <2>1. /\ re < FirstOf(MonthOf(re) + 1) /\ MonthOf(re) \in Int /\ MonthOf(re) \div 12 = Year(re)
    BY MonthOfDay
  <2>2. MonthOf(re) < Month(y) + 12 /\ Month(y) + 12 \in Int
    BY <1>7, <1>8, <2>1
  <2>3. FirstOf(MonthOf(re) + 1) <= FirstOf(Month(y) + 12)
    BY <2>1, <2>2, MonthsInOrder
  <2>4. FirstOf(MonthOf(re) + 1) \in Int /\ FirstOf(Month(y) + 12) \in Int
    BY <2>1, <2>2, MonthLengths
  <2> QED  BY <2>1, <2>3, <2>4
<1> HIDE DEF from, sol, cand, exists, Month
<1>9. ASSUME NEW y \in Int, y >= Year(re) PROVE from[y] = sol[y]
  <2>1. FirstOf(Month(y) + 12) > re
    BY <1>8, <1>9
  <2>2. sol[y] = Step(sol, y) /\ from[y] = Step(from, y)
    BY <1>5, <1>6
  <2> QED  BY <2>1, <2>2
<1>10. \A y \in Int : from[y + 1] = sol[y + 1] => from[y] = sol[y]
  BY <1>5, <1>6
<1>11. from[Year(rs)] = sol[Year(rs)]
  BY <1>7, <1>9, <1>10, Downwards
<1>12. ASSUME NEW d \in rs .. re, MonthOf(d) % 12 = month PROVE MonthOf(d) >= Month(Year(rs))
  <2>1. /\ MonthOf(d) \in Int /\ MonthOf(rs) \in Int /\ MonthOf(rs) <= MonthOf(d)
        /\ MonthOf(rs) \div 12 = Year(rs)
    BY MonthOfDay, MonthsOfDays
  <2> QED  BY <1>7, <1>12, <2>1 DEF Month
<1> QED
  BY <1>1, <1>2, <1>3, <1>7, <1>11, <1>12 DEF sol

\* The loop over weeks yields the dates with the weekday of the start date.
LEMMA WeeklyRepeats ==
  ASSUME NEW start \in Int, NEW rs \in Int, NEW re \in Int
  PROVE  WeeklyDates(start, rs, re) = {d \in rs .. re : (d - start) % 7 = 0}
<1>1. PICK first \in Int :
        /\ first = IF (rs - start) % 7 = 0 THEN rs ELSE rs + 7 - ((rs - start) % 7)
        /\ (first - start) % 7 = 0 /\ first >= rs /\ first < rs + 7
  <2>1. PICK mod \in 0 .. 6 : mod = (rs - start) % 7
    OBVIOUS
  <2>2. (rs - start - mod) % 7 = 0 /\ ((rs + 7 - mod) - start) % 7 = 0
    BY <2>1
  <2>3. CASE mod = 0
    BY <2>1, <2>2, <2>3
  <2>4. CASE mod # 0
    <3>1. rs + 7 - mod \in Int /\ rs + 7 - mod >= rs /\ rs + 7 - mod < rs + 7
      BY <2>4
    <3> QED
      BY <2>1, <2>2, <2>4, <3>1
  <2> QED
    BY <2>3, <2>4
<1>2. WeeklyDates(start, rs, re) = {first + 7 * k : k \in 0 .. (re - first) \div 7}
  BY <1>1 DEF WeeklyDates
<1>3. ASSUME NEW k \in 0 .. (re - first) \div 7
      PROVE  first + 7 * k \in rs .. re /\ (first + 7 * k - start) % 7 = 0
  BY <1>1
<1>4. ASSUME NEW d \in rs .. re, (d - start) % 7 = 0
      PROVE  \E k \in 0 .. (re - first) \div 7 : d = first + 7 * k
  <2>1. (d - first) \div 7 \in 0 .. (re - first) \div 7 /\ d = first + 7 * ((d - first) \div 7)
    BY <1>1, <1>4
  <2> QED  BY <2>1
<1>5. ASSUME NEW d, d \in WeeklyDates(start, rs, re)
      PROVE  d \in rs .. re /\ (d - start) % 7 = 0
  <2>1. PICK k \in 0 .. (re - first) \div 7 : d = first + 7 * k
    BY <1>2, <1>5
  <2> QED  BY <1>3, <2>1
<1>6. ASSUME NEW d \in rs .. re, (d - start) % 7 = 0
      PROVE  d \in WeeklyDates(start, rs, re)
  BY <1>2, <1>4, <1>6
<1> QED
  BY <1>5, <1>6

\* occurrenceDates yields exactly the dates of the range on which the task is due
\* (of WeeklyDates, see the bound there).
THEOREM OccurrencesAreDue ==
  ASSUME NEW t \in Task, NEW from \in Int, NEW to \in Int
  PROVE  occurrenceDates(t, from, to) = {d \in from .. to : DueOn(t, d)}
<1> DEFINE re == IF t.end = NULL THEN to ELSE Earlier(t.end, to)
           rs == Later(from, t.start)
<1>1. t.start \in Int /\ t.freq \in Frequencies /\ (t.end = NULL \/ t.end \in Int)
  BY DEF Task
<1>2. rs \in Int /\ re \in Int
  BY <1>1 DEF Earlier, Later
<1>3. \A d : d \in rs .. re <=> d \in from .. to /\ d >= t.start /\ (t.end = NULL \/ d <= t.end)
  BY <1>1 DEF Earlier, Later
<1>4. ASSUME NEW d, d \in rs .. re
      PROVE  (MonthOf(d) - MonthOf(t.start)) % 12 = 0 <=> MonthOf(d) % 12 = MonthOf(t.start) % 12
  <2>1. d \in Int
    BY <1>2, <1>4
  <2>2. MonthOf(d) \in Int /\ MonthOf(t.start) \in Int
    BY <1>1, <2>1, MonthOfDay
  <2> QED  BY <2>2
<1>5. occurrenceDates(t, from, to)
        = IF rs > re THEN {}
          ELSE CASE t.freq = "daily"   -> DailyDates(rs, re)
                 [] t.freq = "weekly"  -> WeeklyDates(t.start, rs, re)
                 [] t.freq = "monthly" -> MonthlyDates(t.start, rs, re)
                 [] t.freq = "yearly"  -> YearlyDates(t.start, rs, re)
  BY DEF occurrenceDates
<1> HIDE DEF rs, re
<1>6. CASE rs > re
  <2>1. \A d : d \notin rs .. re
    BY <1>2, <1>6
  <2>2. \A d \in from .. to : ~DueOn(t, d)
    BY <1>3, <2>1 DEF DueOn
  <2> QED  BY <1>5, <1>6, <2>2
<1>7. CASE ~(rs > re)
  <2>1. rs <= re
    BY <1>2, <1>7
  <2>2. CASE t.freq = "daily"
    <3>1. occurrenceDates(t, from, to) = rs .. re
      BY <1>5, <1>7, <2>2 DEF DailyDates
    <3>2. \A d \in from .. to : DueOn(t, d) <=> d >= t.start /\ (t.end = NULL \/ d <= t.end)
      BY <2>2 DEF DueOn
    <3> QED  BY <1>3, <3>1, <3>2
  <2>3. CASE t.freq = "weekly"
    <3>1. occurrenceDates(t, from, to) = {d \in rs .. re : (d - t.start) % 7 = 0}
      BY <1>1, <1>2, <1>5, <1>7, <2>3, WeeklyRepeats
    <3>2. \A d \in from .. to :
            DueOn(t, d) <=> d >= t.start /\ (t.end = NULL \/ d <= t.end) /\ (d - t.start) % 7 = 0
      BY <2>3 DEF DueOn
    <3> QED  BY <1>3, <3>1, <3>2
  <2>4. CASE t.freq = "monthly"
    <3>1. occurrenceDates(t, from, to) = {d \in rs .. re : Day(d) = Day(t.start)}
      BY <1>1, <1>2, <1>5, <1>7, <2>1, <2>4, MonthlyRepeats
    <3>2. \A d \in from .. to :
            DueOn(t, d) <=> d >= t.start /\ (t.end = NULL \/ d <= t.end) /\ Day(d) = Day(t.start)
      BY <2>4 DEF DueOn
    <3> QED  BY <1>3, <3>1, <3>2
  <2>5. CASE t.freq = "yearly"
    <3>1. occurrenceDates(t, from, to)
            = {d \in rs .. re : Day(d) = Day(t.start) /\ MonthOf(d) % 12 = MonthOf(t.start) % 12}
      BY <1>1, <1>2, <1>5, <1>7, <2>1, <2>5, YearlyRepeats
    <3>2. \A d \in from .. to :
            DueOn(t, d) <=> /\ d >= t.start /\ (t.end = NULL \/ d <= t.end)
                            /\ Day(d) = Day(t.start)
                            /\ (MonthOf(d) - MonthOf(t.start)) % 12 = 0
      BY <2>5 DEF DueOn
    <3> QED  BY <1>3, <1>4, <3>1, <3>2
  <2> QED  BY <1>1, <2>2, <2>3, <2>4, <2>5 DEF Frequencies
<1> QED  BY <1>6, <1>7

-----------------------------------------------------------------------------
(***************************************************************************)
(* Places.  A strict order of a finite set, given as the set R of its      *)
(* pairs, gives each element a place: as many elements are below it.       *)
(***************************************************************************)
Below(R, S, x) == {y \in S : <<y, x>> \in R}

StrictlyOrders(R, S) ==
  /\ \A x \in S : <<x, x>> \notin R
  /\ \A x, y \in S : x # y => <<x, y>> \in R \/ <<y, x>> \in R
  /\ \A x, y, z \in S : <<x, y>> \in R /\ <<y, z>> \in R => <<x, z>> \in R

LEMMA LowerPlace ==
  ASSUME NEW S, IsFiniteSet(S), NEW R, StrictlyOrders(R, S)
  PROVE  /\ \A x \in S : Cardinality(Below(R, S, x)) \in 0 .. Cardinality(S) - 1
         /\ \A x, y \in S : <<x, y>> \in R => Cardinality(Below(R, S, x)) < Cardinality(Below(R, S, y))
<1>1. Cardinality(S) \in Nat
  BY FS_CardinalityType
<1>2. ASSUME NEW x \in S
      PROVE  /\ IsFiniteSet(Below(R, S, x)) /\ Cardinality(Below(R, S, x)) \in Nat
             /\ Cardinality(Below(R, S, x)) <= Cardinality(S)
             /\ Cardinality(Below(R, S, x)) # Cardinality(S)
  <2>1. Below(R, S, x) \in SUBSET S /\ x \notin Below(R, S, x)
    BY DEF Below, StrictlyOrders
  <2> QED
    BY <2>1, FS_Subset, FS_CardinalityType
<1>3. ASSUME NEW x \in S, NEW y \in S, <<x, y>> \in R
      PROVE  Cardinality(Below(R, S, x)) < Cardinality(Below(R, S, y))
  <2>1. Below(R, S, x) \in SUBSET Below(R, S, y)
    BY <1>3 DEF Below, StrictlyOrders
  <2>2. x \in Below(R, S, y) /\ x \notin Below(R, S, x)
    BY <1>3 DEF Below, StrictlyOrders
  <2>3. IsFiniteSet(Below(R, S, y))
    BY <1>2
  <2>4. /\ Cardinality(Below(R, S, x)) <= Cardinality(Below(R, S, y))
        /\ Cardinality(Below(R, S, x)) # Cardinality(Below(R, S, y))
    BY <2>1, <2>2, <2>3, FS_Subset
  <2> QED
    BY <1>2, <2>4
<1> QED
  BY <1>1, <1>2, <1>3

\* No two elements have the same place, and each place is taken.
LEMMA OrderedPlaces ==
  ASSUME NEW S, IsFiniteSet(S), NEW R, StrictlyOrders(R, S)
  PROVE  /\ \A x \in S : Cardinality(Below(R, S, x)) \in 0 .. Cardinality(S) - 1
         /\ \A x, y \in S : Cardinality(Below(R, S, x)) = Cardinality(Below(R, S, y)) => x = y
         /\ \A n \in 1 .. Cardinality(S) : \E x \in S : Cardinality(Below(R, S, x)) = n - 1
<1> DEFINE N == Cardinality(S)
           place == [x \in S |-> Cardinality(Below(R, S, x))]
<1>1. N \in Nat /\ IsFiniteSet(0 .. N - 1) /\ Cardinality(0 .. N - 1) = N
  <2>1. PICK n \in Nat : n = N
    BY FS_CardinalityType
  <2>2. IsFiniteSet(0 .. n - 1) /\ Cardinality(0 .. n - 1) = n
    BY FS_Interval
  <2> QED
    BY <2>1, <2>2
<1>2. /\ \A x \in S : Cardinality(Below(R, S, x)) \in 0 .. N - 1
      /\ \A x, y \in S : <<x, y>> \in R => Cardinality(Below(R, S, x)) < Cardinality(Below(R, S, y))
  BY LowerPlace
<1>3. \A x, y \in S : Cardinality(Below(R, S, x)) = Cardinality(Below(R, S, y)) => x = y
  <2> SUFFICES ASSUME NEW x \in S, NEW y \in S,
                      Cardinality(Below(R, S, x)) = Cardinality(Below(R, S, y)), x # y
               PROVE  FALSE
    OBVIOUS
  <2>1. Cardinality(Below(R, S, x)) \in Int /\ Cardinality(Below(R, S, y)) \in Int
    BY <1>1, <1>2
  <2>2. <<x, y>> \in R \/ <<y, x>> \in R
    BY DEF StrictlyOrders
  <2> QED
    BY <1>2, <2>1, <2>2
<1>4. place \in Injection(S, 0 .. N - 1)
  BY <1>2, <1>3 DEF Injection, IsInjective
<1>5. place \in Surjection(S, 0 .. N - 1)
  BY <1>1, <1>4, FS_Injection
<1>6. ASSUME NEW n \in 1 .. N PROVE \E x \in S : Cardinality(Below(R, S, x)) = n - 1
  <2>1. n - 1 \in 0 .. N - 1
    BY <1>1
  <2>2. \E x \in S : place[x] = n - 1
    BY <1>5, <2>1 DEF Surjection
  <2> QED
    BY <2>2
<1> QED
  BY <1>2, <1>3, <1>6

\* A list that has at each place the element of that place is in order.
Placed(R, S, list) ==
  /\ list = [n \in 1 .. Cardinality(S) |-> list[n]]
  /\ \A n \in 1 .. Cardinality(S) : list[n] \in S /\ Cardinality(Below(R, S, list[n])) = n - 1

LEMMA InPlaces ==
  ASSUME NEW S, IsFiniteSet(S), NEW R, StrictlyOrders(R, S), NEW list, Placed(R, S, list)
  PROVE  /\ \A m, n \in 1 .. Cardinality(S) : m < n <=> <<list[m], list[n]>> \in R
         /\ \A x \in S : \E n \in 1 .. Cardinality(S) : list[n] = x
<1>0. \A n \in 1 .. Cardinality(S) : list[n] \in S /\ Cardinality(Below(R, S, list[n])) = n - 1
  BY DEF Placed
<1>1. ASSUME NEW m \in 1 .. Cardinality(S), NEW n \in 1 .. Cardinality(S)
      PROVE  m < n <=> <<list[m], list[n]>> \in R
  <2>1. Cardinality(S) \in Nat
    BY FS_CardinalityType
  <2>2. m < n <=> Cardinality(Below(R, S, list[m])) < Cardinality(Below(R, S, list[n]))
    BY <1>0, <2>1
  <2>3. <<list[m], list[n]>> \in R
          => Cardinality(Below(R, S, list[m])) < Cardinality(Below(R, S, list[n]))
    BY <1>0, LowerPlace
  <2>4. <<list[n], list[m]>> \in R
          => Cardinality(Below(R, S, list[n])) < Cardinality(Below(R, S, list[m]))
    BY <1>0, LowerPlace
  <2>5. list[m] = list[n] => m = n
    BY <1>0, <2>1
  <2>6. list[m] # list[n] => <<list[m], list[n]>> \in R \/ <<list[n], list[m]>> \in R
    BY <1>0 DEF StrictlyOrders
  <2>7. <<list[m], list[n]>> \in R => m < n
    BY <2>2, <2>3
  <2>8. <<list[n], list[m]>> \in R => n < m
    BY <1>0, <2>1, <2>4
  <2> QED
    BY <2>1, <2>5, <2>6, <2>7, <2>8
<1>2. ASSUME NEW x \in S PROVE \E n \in 1 .. Cardinality(S) : list[n] = x
  <2>1. PICK k \in 0 .. Cardinality(S) - 1 : k = Cardinality(Below(R, S, x))
    BY LowerPlace
  <2>2. PICK n \in 1 .. Cardinality(S) : n = k + 1
    BY <2>1, FS_CardinalityType
  <2>3. list[n] \in S /\ Cardinality(Below(R, S, list[n])) = Cardinality(Below(R, S, x))
    BY <1>0, <2>1, <2>2
  <2> QED
    BY <2>3, OrderedPlaces
<1> QED
  BY <1>1, <1>2

-----------------------------------------------------------------------------
(***************************************************************************)
(* The statements.                                                         *)
(***************************************************************************)
\* What a step preserves, and what requests rely on.
Kept ==
  /\ TablesTypeOK'
  /\ \A j \in TaskIds : schedules[j] \subseteq schedules'[j]
  /\ adopted \subseteq adopted'

\* A row that is entered has its schedule among those in force.
LEMMA RowInForce ==
  ASSUME NEW row \in Task
  PROVE  InForce(row) \subseteq Schedules
BY DEF InForce, ScheduleOf, Schedules, Task

\* A statement on the table tasks that leaves a well-typed row, or none.
LEMMA OverwriteTyped ==
  ASSUME TablesTypeOK, NEW i \in TaskIds, NEW row \in Task,
         tasks[i] # NULL, Overwrite(i, row),
         UNCHANGED <<today, members, completions, periods, settingVars>>
  PROVE  Kept
<1>1. row # NULL
  BY TablesAssumption
<1>2. tasks' \in [TaskIds -> Task \cup {NULL}]
  BY DEF Overwrite, TablesTypeOK
<1>3. schedules' \in [TaskIds -> SUBSET Schedules]
  BY RowInForce DEF Overwrite, TablesTypeOK
<1>4. ASSUME NEW j \in TaskIds
      PROVE  /\ schedules[j] \subseteq schedules'[j]
             /\ tasks'[j] # NULL <=> tasks[j] # NULL
             /\ tasks'[j] # NULL => InForce(tasks'[j]) \subseteq schedules'[j]
  <2>1. CASE j = i
    BY <1>1, <2>1 DEF Overwrite, TablesTypeOK
  <2>2. CASE j # i
    BY <2>2 DEF Overwrite, TablesTypeOK, Existing
  <2> QED  BY <2>1, <2>2
<1>5. \A j \in TaskIds : tasks'[j] # NULL => j <= lastTask'
  BY <1>4 DEF Overwrite, TablesTypeOK, Existing
<1>6. \A c \in completions' : c.user \in members' /\ tasks'[c.task] # NULL
  BY <1>4 DEF TablesTypeOK, Completion
<1>7. KeyHolds(completions)'
  BY DEF TablesTypeOK, KeyHolds
<1>8. lastTask' \in 0 .. MaxTasks
  BY DEF Overwrite, TablesTypeOK
<1>9. /\ today' \in Days /\ members' \in SUBSET Users /\ completions' \subseteq Completion
      /\ periods' \subseteq Period /\ settings' \in adopted' /\ adopted' \subseteq Settings
      /\ adopted \subseteq adopted'
  BY DEF TablesTypeOK, settingVars
<1> QED
  BY <1>2, <1>3, <1>4, <1>5, <1>6, <1>7, <1>8, <1>9 DEF TablesTypeOK, Existing, Kept

\* An INSERT takes the next id.
LEMMA CreateTyped ==
  ASSUME TablesTypeOK, NEW row \in Task, lastTask < MaxTasks, CreateTask(row),
         UNCHANGED <<today, members, completions, periods, settingVars>>
  PROVE  Kept
<1> DEFINE new == lastTask + 1
<1>1. new \in TaskIds /\ lastTask' = new /\ lastTask \in Nat /\ MaxTasks \in Nat
  BY TablesAssumption DEF CreateTask, TablesTypeOK, TaskIds
<1>2. tasks' \in [TaskIds -> Task \cup {NULL}]
  BY DEF CreateTask, TablesTypeOK
<1>3. schedules' \in [TaskIds -> SUBSET Schedules]
  BY RowInForce DEF CreateTask, TablesTypeOK
<1>4. ASSUME NEW j \in TaskIds
      PROVE  /\ schedules[j] \subseteq schedules'[j]
             /\ tasks[j] # NULL => tasks'[j] # NULL
             /\ tasks'[j] # NULL => j <= new /\ InForce(tasks'[j]) \subseteq schedules'[j]
  <2>1. CASE j = new
    BY <1>1, <2>1, TablesAssumption DEF CreateTask, TablesTypeOK
  <2>2. CASE j # new
    BY <1>1, <2>2 DEF CreateTask, TablesTypeOK, Existing, TaskIds
  <2> QED  BY <2>1, <2>2
<1>5. \A c \in completions' : c.user \in members' /\ tasks'[c.task] # NULL
  BY <1>4 DEF TablesTypeOK, Completion
<1>6. KeyHolds(completions)'
  BY DEF TablesTypeOK, KeyHolds
<1>7. lastTask' \in 0 .. MaxTasks
  BY <1>1 DEF TaskIds
<1>8. /\ today' \in Days /\ members' \in SUBSET Users /\ completions' \subseteq Completion
      /\ periods' \subseteq Period /\ settings' \in adopted' /\ adopted' \subseteq Settings
      /\ adopted \subseteq adopted'
  BY DEF TablesTypeOK, settingVars
<1> HIDE DEF new
<1> QED
  BY <1>1, <1>2, <1>3, <1>4, <1>5, <1>6, <1>7, <1>8 DEF TablesTypeOK, Existing, Kept

\* A DELETE takes the completions of the task with it.
LEMMA DeleteTyped ==
  ASSUME TablesTypeOK, NEW i \in TaskIds, DeleteTask(i),
         UNCHANGED <<today, members, periods, settingVars>>
  PROVE  Kept
<1>1. tasks' \in [TaskIds -> Task \cup {NULL}]
  BY DEF DeleteTask, TablesTypeOK
<1>2. \A j \in Existing' : j \in Existing /\ tasks'[j] = tasks[j]
  BY DEF DeleteTask, TablesTypeOK, Existing
<1>3. \A j \in Existing' : j <= lastTask' /\ InForce(tasks'[j]) \subseteq schedules'[j]
  BY <1>2 DEF DeleteTask, TablesTypeOK
<1>4. \A c \in completions' : c \in completions /\ c.task # i
  BY DEF DeleteTask
<1>5. \A c \in completions' : c.user \in members' /\ tasks'[c.task] # NULL
  BY <1>4 DEF DeleteTask, TablesTypeOK, Completion
<1>6. KeyHolds(completions')
  BY <1>4 DEF TablesTypeOK, KeyHolds
<1> QED
  BY <1>1, <1>3, <1>4, <1>5, <1>6 DEF TablesTypeOK, DeleteTask, KeyHolds, Kept, settingVars

\* The statements on the table task_completions.
LEMMA CompletionsTyped ==
  ASSUME TablesTypeOK, UNCHANGED <<today, members, taskVars, periods, settingVars>>,
         completions' \subseteq Completion,
         \A c \in completions' : c.user \in members /\ tasks[c.task] # NULL,
         KeyHolds(completions')
  PROVE  Kept
BY DEF TablesTypeOK, taskVars, settingVars, Existing, KeyHolds, Kept

LEMMA FewerCompletions ==
  ASSUME TablesTypeOK, UNCHANGED <<today, members, taskVars, periods, settingVars>>,
         completions' \subseteq completions
  PROVE  Kept
<1>1. KeyHolds(completions')
  BY DEF TablesTypeOK, KeyHolds
<1> QED
  BY <1>1, CompletionsTyped DEF TablesTypeOK

LEMMA MarkTyped ==
  ASSUME TablesTypeOK, NEW u \in members, NEW i \in TaskIds, tasks[i] # NULL, NEW due \in Int,
         MarkTaskComplete(u, i, due), UNCHANGED <<today, members, taskVars, periods, settingVars>>
  PROVE  Kept
<1> DEFINE row == [user |-> u, task |-> i, due |-> due, at |-> today]
<1>1. row \in Completion
  BY TablesAssumption DEF Completion, TablesTypeOK
<1>2. completions' = (completions \ CompletionsOf(u, i, due)) \cup {row}
  BY DEF MarkTaskComplete, Completed
<1>3. completions' \subseteq Completion
  BY <1>1, <1>2 DEF TablesTypeOK
<1>4. \A c \in completions' : c.user \in members /\ tasks[c.task] # NULL
  BY <1>2 DEF TablesTypeOK
<1>5. KeyHolds(completions')
  BY <1>2 DEF TablesTypeOK, KeyHolds, CompletionsOf
<1> QED
  BY <1>3, <1>4, <1>5, CompletionsTyped
\* A row that keeps its schedule, or leaves it, is a row.
LEMMA RowsTyped ==
  ASSUME TablesTypeOK, NEW i \in TaskIds, tasks[i] # NULL
  PROVE  /\ \A active \in BOOLEAN : [tasks[i] EXCEPT !.active = active] \in Task
         /\ \A seq \in Int : [tasks[i] EXCEPT !.seq = seq] \in Task
<1>1. tasks[i] \in Task
  BY DEF TablesTypeOK
<1> QED
  BY <1>1 DEF Task

\* The database at the start.
LEMMA InitTyped == TablesInit => TablesTypeOK
<1> SUFFICES ASSUME TablesInit PROVE TablesTypeOK
  OBVIOUS
<1>1. PICK c \in Catalogs :
        /\ today \in c.days
        /\ tasks = [i \in TaskIds |-> IF i <= Len(c.rows) THEN c.rows[i] ELSE NULL]
        /\ lastTask = Len(c.rows)
        /\ completions = c.done
  BY DEF TablesInit
<1>2. /\ c.days \subseteq Days /\ c.rows \in Seq(Task) /\ Len(c.rows) <= MaxTasks
      /\ c.done \subseteq [user : Users, task : 1 .. Len(c.rows), due : Int, at : Int]
      /\ KeyHolds(c.done)
      /\ MaxTasks \in Nat /\ NULL \notin Task
  BY TablesAssumption
<1>3. \A i \in TaskIds : IF i <= Len(c.rows) THEN tasks[i] \in Task ELSE tasks[i] = NULL
  BY <1>1, <1>2 DEF TaskIds
<1>4. tasks \in [TaskIds -> Task \cup {NULL}]
  BY <1>1, <1>3
<1>5. schedules \in [TaskIds -> SUBSET Schedules]
  BY <1>3, <1>4, RowInForce DEF TablesInit
<1>6. \A i \in Existing : i <= lastTask /\ InForce(tasks[i]) \subseteq schedules[i]
  BY <1>1, <1>3 DEF Existing, TablesInit
<1>7. lastTask \in 0 .. MaxTasks
  BY <1>1, <1>2
<1>8. completions \subseteq Completion
  BY <1>1, <1>2 DEF Completion, TaskIds
<1>9. \A d \in completions : d.user \in members /\ tasks[d.task] # NULL
  <2> SUFFICES ASSUME NEW d \in completions
               PROVE  d.user \in members /\ tasks[d.task] # NULL
    OBVIOUS
  <2>1. d.user \in Users /\ d.task \in 1 .. Len(c.rows)
    BY <1>1, <1>2
  <2>2. d.task \in TaskIds /\ d.task <= Len(c.rows)
    BY <1>2, <2>1 DEF TaskIds
  <2>3. tasks[d.task] \in Task
    BY <1>3, <2>2
  <2> QED
    BY <1>2, <2>1, <2>3 DEF TablesInit
<1>10. settings \in adopted /\ adopted \subseteq Settings /\ periods \subseteq Period /\ members \in SUBSET Users
  BY DEF TablesInit, Settings, Weekdays
<1>11. KeyHolds(completions) /\ today \in Days
  BY <1>1, <1>2
<1> QED
  BY <1>4, <1>5, <1>6, <1>7, <1>8, <1>9, <1>10, <1>11 DEF TablesTypeOK

-----------------------------------------------------------------------------
(***************************************************************************)
(* ORDER BY: the list has each task once, and its numbers alone decide on  *)
(* the place of a task when they differ.                                   *)
(***************************************************************************)
Preceding(i) == {j \in Existing : ListedBefore(j, i)}

Size == Cardinality(Existing)

\* A list that has each task once.
Lists(list) ==
  /\ list \in [1 .. Size -> Existing]
  /\ \A k, l \in 1 .. Size : list[k] = list[l] => k = l
  /\ \A i \in Existing : \E k \in 1 .. Size : list[k] = i

LEMMA ExistingFinite ==
  ASSUME TablesTypeOK
  PROVE  IsFiniteSet(Existing) /\ Size \in 0 .. MaxTasks /\ Existing \subseteq Int
<1>1. MaxTasks \in Nat /\ Existing \subseteq TaskIds
  BY TablesAssumption DEF Existing
<1>2. IsFiniteSet(TaskIds) /\ Cardinality(TaskIds) = MaxTasks
  BY <1>1, FS_Interval DEF TaskIds
<1>3. IsFiniteSet(Existing) /\ Size \in 0 .. MaxTasks
  BY <1>1, <1>2, FS_Subset, FS_CardinalityType DEF Size
<1> QED
  BY <1>1, <1>3 DEF TaskIds

\* Rows are listed in a strict order.
LEMMA StrictOrder ==
  ASSUME TablesTypeOK, NEW i \in Existing, NEW j \in Existing
  PROVE  /\ ~ListedBefore(i, i)
         /\ i # j => ListedBefore(i, j) \/ ListedBefore(j, i)
         /\ \A k \in Existing : ListedBefore(k, i) /\ ListedBefore(i, j) => ListedBefore(k, j)
<1>1. \A k \in Existing : k \in Int /\ tasks[k].seq \in Int
  BY ExistingFinite DEF TablesTypeOK, Existing, Task
<1> QED
  BY <1>1 DEF ListedBefore

\* As many rows precede one as its place says; no two have the same place, and
\* each place is taken.
LEMMA RowPlaces ==
  ASSUME TablesTypeOK
  PROVE  /\ \A i \in Existing : Cardinality(Preceding(i)) \in 0 .. Size - 1
         /\ \A i, j \in Existing : Cardinality(Preceding(i)) = Cardinality(Preceding(j)) => i = j
         /\ \A n \in 1 .. Size : \E i \in Existing : Cardinality(Preceding(i)) = n - 1
<1> DEFINE R == {x \in Existing \X Existing : ListedBefore(x[1], x[2])}
<1>1. StrictlyOrders(R, Existing)
  BY StrictOrder DEF StrictlyOrders
<1>2. \A i \in Existing : Below(R, Existing, i) = Preceding(i)
  BY DEF Below, Preceding
<1> HIDE DEF R
<1>3. /\ \A i \in Existing : Cardinality(Below(R, Existing, i)) \in 0 .. Cardinality(Existing) - 1
      /\ \A i, j \in Existing :
           Cardinality(Below(R, Existing, i)) = Cardinality(Below(R, Existing, j)) => i = j
      /\ \A n \in 1 .. Cardinality(Existing) :
           \E i \in Existing : Cardinality(Below(R, Existing, i)) = n - 1
  BY <1>1, ExistingFinite, OrderedPlaces
<1> QED
  BY <1>2, <1>3 DEF Size

LEMMA ListPlaces ==
  ASSUME TablesTypeOK
  PROVE  /\ ListTasks = [n \in 1 .. Size |-> ListTasks[n]]
         /\ \A n \in 1 .. Size : /\ ListTasks[n] \in Existing
                                 /\ Cardinality(Preceding(ListTasks[n])) = n - 1
<1> DEFINE place(n) == CHOOSE i \in Existing : Cardinality(Preceding(i)) = n - 1
           list == [n \in 1 .. Size |-> place(n)]
<1>1. \A n \in 1 .. Size : place(n) \in Existing /\ Cardinality(Preceding(place(n))) = n - 1
  BY RowPlaces
<1> HIDE DEF place
<1>2. Size \in Nat
  BY ExistingFinite
<1>3. list \in Seq(Existing)
  BY <1>1, <1>2
<1>4. << >> \o list = list
  BY <1>3
<1>5. ListTasks = list
  BY <1>4 DEF ListTasks, InOrder, Listed, Preceding, Size, place
<1> QED
  BY <1>1, <1>5

LEMMA ListTasksLists == TablesTypeOK => Lists(ListTasks)
<1> SUFFICES ASSUME TablesTypeOK PROVE Lists(ListTasks)
  OBVIOUS
<1>1. ListTasks \in [1 .. Size -> Existing]
  BY ListPlaces
<1>2. \A k, l \in 1 .. Size : ListTasks[k] = ListTasks[l] => k = l
  BY ListPlaces, ExistingFinite
<1>3. ASSUME NEW i \in Existing PROVE \E k \in 1 .. Size : ListTasks[k] = i
  <2> DEFINE k == Cardinality(Preceding(i)) + 1
  <2>1. k \in 1 .. Size /\ Cardinality(Preceding(i)) = k - 1
    BY RowPlaces, ExistingFinite
  <2> HIDE DEF k
  <2> QED
    BY <2>1, RowPlaces, ListPlaces
<1> QED
  BY <1>1, <1>2, <1>3 DEF Lists

\* Tasks that are numbered 10, 20, 30, ... are listed in that order.
LEMMA ListedAsNumbered ==
  ASSUME TablesTypeOK, NEW list, Lists(list),
         \A k \in 1 .. Size : tasks[list[k]].seq = 10 * k
  PROVE  ListTasks = list
<1>1. Size \in Nat
  BY ExistingFinite
<1>2. ASSUME NEW k \in 1 .. Size PROVE Cardinality(Preceding(list[k])) = k - 1
  <2> DEFINE front == [l \in 1 .. k - 1 |-> list[l]]
  <2>1. \A l \in 1 .. Size : ListedBefore(list[l], list[k]) <=> l < k
    <3> SUFFICES ASSUME NEW l \in 1 .. Size
                 PROVE  ListedBefore(list[l], list[k]) <=> l < k
      OBVIOUS
    <3>1. /\ tasks[list[l]].seq = 10 * l /\ tasks[list[k]].seq = 10 * k
          /\ list[k] \in Int
      BY ExistingFinite DEF Lists
    <3>2. CASE l = k
      BY <1>1, <3>1, <3>2 DEF ListedBefore
    <3>3. CASE l # k
      BY <1>1, <3>1, <3>3 DEF ListedBefore
    <3> QED  BY <3>2, <3>3
  <2>2. front \in Bijection(1 .. k - 1, Preceding(list[k]))
    <3>1. front \in [1 .. k - 1 -> Preceding(list[k])]
      BY <1>1, <2>1 DEF Preceding, Lists
    <3>2. \A l, m \in 1 .. k - 1 : front[l] = front[m] => l = m
      BY <1>1 DEF Lists
    <3>3. \A i \in Preceding(list[k]) : \E l \in 1 .. k - 1 : front[l] = i
      BY <1>1, <2>1 DEF Preceding, Lists
    <3> QED
      BY <3>1, <3>2, <3>3 DEF Bijection, Injection, IsInjective, Surjection
  <2>3. IsFiniteSet(1 .. k - 1) /\ Cardinality(1 .. k - 1) = k - 1
    BY <1>1, FS_Interval
  <2> QED
    BY <2>2, <2>3, FS_Bijection DEF ExistsBijection
<1>3. \A k \in 1 .. Size : ListTasks[k] = list[k]
  BY <1>2, RowPlaces, ListPlaces DEF Lists
<1> QED
  BY <1>3, ListPlaces DEF Lists

-----------------------------------------------------------------------------
(***************************************************************************)
(* The steps of Tracker.                                                   *)
(***************************************************************************)
\* Users' steps.
LEMMA UserStepTyped ==
  ASSUME TablesTypeOK, NEW u \in Users, UserStep(u)
  PROVE  Kept
<1>0. today \in Int /\ Back \in Nat /\ Ahead \in Nat
  BY TablesAssumption DEF TablesTypeOK
<1>1. ASSUME NEW i \in TaskIds, NEW due \in AskedLately, Toggle(u, i, due)
      PROVE  Kept
  <2>1. due \in Int
    BY <1>0 DEF AskedLately
  <2>2. CASE HasCompletion(u, i, due)
    BY <1>1, <2>2, FewerCompletions DEF Toggle, MarkTaskIncomplete, Uncompleted, Kept
  <2>3. CASE ~HasCompletion(u, i, due)
    BY <1>1, <2>1, <2>3, MarkTyped DEF Toggle, Kept
  <2> QED  BY <2>2, <2>3
<1>2. ASSUME NEW i \in TaskIds, NEW due \in AskedLately, Resubmit(u, i, due)
      PROVE  Kept
  <2>1. due \in Int
    BY <1>0 DEF AskedLately
  <2>2. u \in members /\ tasks[i] # NULL
    BY <1>2 DEF Resubmit, HasCompletion, CompletionsOf, TablesTypeOK
  <2> QED
    BY <1>2, <2>1, <2>2, MarkTyped DEF Resubmit, Kept
<1>3. ASSUME UNCHANGED <<today, members, taskVars, completions, settingVars>>,
             periods' \subseteq Period
      PROVE  Kept
  BY <1>3 DEF TablesTypeOK, taskVars, settingVars, Existing, KeyHolds, Kept
<1>4. PeriodForms(u) \subseteq Period
  BY <1>0 DEF PeriodForms, Period, Asked
<1>5. ASSUME NEW d \in PeriodForms(u),
             \/ RecordPeriod(u, d)
             \/ \E q \in periods : ChangePeriod(u, q, d)
      PROVE  Kept
  BY <1>3, <1>4, <1>5 DEF RecordPeriod, ChangePeriod, TablesTypeOK
<1>6. ASSUME NEW q \in periods, DeletePeriod(u, q)
      PROVE  Kept
  BY <1>3, <1>6 DEF DeletePeriod, TablesTypeOK
<1> QED
  BY <1>1, <1>2, <1>5, <1>6 DEF UserStep

\* Administrators' steps.
LEMMA AdminStepTyped ==
  ASSUME TablesTypeOK, AdminStep
  PROVE  Kept
<1>1. Forms \subseteq Task
  BY TablesAssumption
<1>2. ASSUME NEW row \in Forms, Create(row) PROVE Kept
  BY <1>1, <1>2, CreateTyped DEF Create, Kept
<1>3. ASSUME NEW row \in Forms, NEW i \in TaskIds, Update(i, row) PROVE Kept
  BY <1>1, <1>3, OverwriteTyped DEF Update, UpdateTask, Kept
<1>4. ASSUME NEW i \in TaskIds, Delete(i) PROVE Kept
  BY <1>4, DeleteTyped DEF Delete, Kept
<1>5. ASSUME NEW i \in TaskIds, NEW active \in BOOLEAN, SetActive(i, active) PROVE Kept
  BY <1>5, OverwriteTyped, RowsTyped DEF SetActive, SetTaskActive, Kept
<1>6. ASSUME NEW i \in TaskIds, NEW n \in TaskIds, Renumber(i, n) PROVE Kept
  BY <1>6, OverwriteTyped, RowsTyped DEF Renumber, SetTaskSequence, Kept, TaskIds
<1>7. ASSUME NEW u \in Users, RemoveUser(u) PROVE Kept
  BY <1>7 DEF RemoveUser, ForgetUser, TablesTypeOK, taskVars, settingVars, Existing, KeyHolds, Kept
<1>8. ASSUME NEW u \in Users, NEW dates, Reset(u, dates) PROVE Kept
  BY <1>8, FewerCompletions DEF Reset, DeleteCompletionsForUserOnDates, Kept
<1>9. ASSUME NEW row \in Settings, SaveSettings(row) PROVE Kept
  BY <1>9 DEF SaveSettings, TablesTypeOK, taskVars, settingVars, Existing, KeyHolds, Kept
<1> QED
  BY <1>2, <1>3, <1>4, <1>5, <1>6, <1>7, <1>8, <1>9 DEF AdminStep

LEMMA TrackerStepTyped ==
  ASSUME TablesTypeOK, [TrackerNext]_tableVars
  PROVE  Kept
<1>1. CASE UNCHANGED tableVars
  BY <1>1 DEF tableVars, taskVars, settingVars, TablesTypeOK, Existing, KeyHolds, Kept
<1>2. CASE MidnightPasses
  BY <1>2 DEF MidnightPasses, taskVars, settingVars, TablesTypeOK, Existing, KeyHolds, Kept
<1> QED
  BY <1>1, <1>2, UserStepTyped, AdminStepTyped DEF TrackerNext

\* In every state the pages are looked at in, rows have their types, and the
\* keys of the tables hold.
THEOREM TrackerTablesCorrect == TrackerSpec => []TablesTypeOK
<1>1. TrackerInit => TablesTypeOK
  BY InitTyped DEF TrackerInit
<1>2. TablesTypeOK /\ [TrackerNext]_tableVars => TablesTypeOK'
  BY TrackerStepTyped DEF Kept
<1> QED
  BY <1>1, <1>2, PTL DEF TrackerSpec
==============================================================================
