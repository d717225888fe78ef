------------------------------ MODULE Schedule ------------------------------
(***************************************************************************)
(* The pure core of services/tasks.go: on which dates a task is due, and   *)
(* the status of each of these occurrences for one user.                   *)
(*                                                                         *)
(* A task is a record with its frequency, first and last date, whether it  *)
(* is exempt during menses, its sequence and its title (a number: all the  *)
(* program does with a title is to compare it).  An occurrence is a record *)
(* of the task's id, the due date, the status and the date on which it was *)
(* completed.  Lists of occurrences are kept as sets, sorted only where a  *)
(* page shows their order: one task is due at most once a day.             *)
(***************************************************************************)
EXTENDS Dates, FiniteSets

CONSTANT NULL   \* SQL NULL, and an absent row

Frequencies == {"daily", "weekly", "monthly", "yearly"}
Statuses    == {"pending", "missed", "completed", "exempt"}

Task == [freq : Frequencies, start : Int, end : Int \cup {NULL}, active : BOOLEAN,
         exempt : BOOLEAN, seq : Int, title : Int]

(***************************************************************************)
(* occurrenceDates.  The loops are recursive functions of the month or the *)
(* year they have reached; each yields a date if that month has the day,   *)
(* and stops at the first date, or the first month, past the range.        *)
(***************************************************************************)
DailyDates(rangeStart, rangeEnd) == rangeStart .. rangeEnd

\* Bound: the range lies within 292 years of the start, as far as the
\* time.Duration between the two, which saturates, can tell.
WeeklyDates(start, rangeStart, rangeEnd) ==
  LET mod   == (rangeStart - start) % 7
      first == IF mod = 0 THEN rangeStart ELSE rangeStart + 7 - mod
  IN  {first + 7 * k : k \in 0 .. (rangeEnd - first) \div 7}

MonthlyDates(start, rangeStart, rangeEnd) ==
  LET day == Day(start)
      from[mn \in Int] ==
        LET cand   == FirstOf(mn) + day - 1
            exists == day <= daysInMonth(mn)
            here   == IF exists /\ cand >= rangeStart THEN {cand} ELSE {}
        IN  IF exists /\ cand > rangeEnd THEN {}
            ELSE IF FirstOf(mn + 1) > rangeEnd THEN here
            ELSE here \cup from[mn + 1]
  IN  from[MonthOf(rangeStart)]

\* Mutation: time.Date turns 29 February into 1 March when the year is not a leap year.
YearlyDatesOverflowing(start, rangeStart, rangeEnd) ==
  LET month == MonthOf(start) % 12
  IN  {d \in {FirstOf(12 * y + month) + Day(start) - 1 : y \in Year(rangeStart) .. Year(rangeEnd)} :
         d \in rangeStart .. rangeEnd}

YearlyDates(start, rangeStart, rangeEnd) ==
  LET day   == Day(start)
      month == MonthOf(start) % 12
      from[y \in Int] ==
        LET mn     == 12 * y + month
            cand   == FirstOf(mn) + day - 1
            exists == day <= daysInMonth(mn)
            here   == IF exists /\ cand >= rangeStart THEN {cand} ELSE {}
        IN  IF exists /\ cand > rangeEnd THEN {}
            ELSE IF FirstOf(mn + 12) > rangeEnd THEN here
            ELSE here \cup from[y + 1]
  IN  from[Year(rangeStart)]

occurrenceDates(t, from, to) ==
  LET rangeEnd   == IF t.end = NULL THEN to ELSE Earlier(t.end, to)
      rangeStart == Later(from, t.start)
  IN  IF rangeStart > rangeEnd THEN {}
      ELSE CASE t.freq = "daily"   -> DailyDates(rangeStart, rangeEnd)
             [] t.freq = "weekly"  -> WeeklyDates(t.start, rangeStart, rangeEnd)
             [] t.freq = "monthly" -> MonthlyDates(t.start, rangeStart, rangeEnd)
             [] t.freq = "yearly"  -> YearlyDates(t.start, rangeStart, rangeEnd)

(***************************************************************************)
(* buildOccurrences, for one user: `done' are the completion rows and      *)
(* `periods' the menses periods of that user.                              *)
(***************************************************************************)
dateInAnyPeriod(d, periods) ==
  \E p \in periods : p.start <= d /\ (p.end = NULL \/ d <= p.end)

Occurrence(t, id, d, done, periods, today) ==
  LET rows == {c \in done : c.task = id /\ c.due = d}
      status == IF t.exempt /\ dateInAnyPeriod(d, periods) THEN "exempt"
                ELSE IF rows # {} THEN "completed"
                ELSE IF d < today THEN "missed" ELSE "pending"
  IN  [task |-> id, due |-> d, status |-> status,
       at |-> IF status = "completed" THEN (CHOOSE c \in rows : TRUE).at ELSE NULL]

\* tasks: a function from the ids of the tasks to their rows.
buildOccurrences(tasks, done, periods, today, from, to) ==
  UNION {{Occurrence(tasks[id], id, d, done, periods, today) :
            d \in occurrenceDates(tasks[id], from, to)} : id \in DOMAIN tasks}

(***************************************************************************)
(* The order of the list: the due date, then the sequence, then the title; *)
(* the stable sort keeps ListActiveTasks' order otherwise, latest first.   *)
(***************************************************************************)
SortsBefore(tasks, a, b) ==
  LET s == tasks[a.task]
      t == tasks[b.task]
  IN  \/ a.due < b.due
      \/ a.due = b.due /\ s.seq < t.seq
      \/ a.due = b.due /\ s.seq = t.seq /\ s.title < t.title
      \/ a.due = b.due /\ s.seq = t.seq /\ s.title = t.title /\ a.task > b.task

(***************************************************************************)
(* What occurrenceDates promises (the comment above it and the tests): day *)
(* by day, a date is an occurrence if it repeats the start date, in months *)
(* and years that have such a day.                                         *)
(***************************************************************************)
DueOn(t, d) ==
  /\ d >= t.start
  /\ t.end = NULL \/ d <= t.end
  /\ CASE t.freq = "daily"   -> TRUE
       [] t.freq = "weekly"  -> (d - t.start) % 7 = 0
       [] t.freq = "monthly" -> Day(d) = Day(t.start)
       [] t.freq = "yearly"  -> Day(d) = Day(t.start)
                                /\ (MonthOf(d) - MonthOf(t.start)) % 12 = 0
=============================================================================
