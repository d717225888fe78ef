----------------------------- MODULE PagesProofs -----------------------------
(***************************************************************************)
(* The pages agree with each other in every state of Tracker, for any      *)
(* users, tasks and dates.  Each theorem is of one kind: what the property *)
(* says of a state follows from the types of the rows, which               *)
(* TrackerTablesCorrect establishes in every state.                        *)
(***************************************************************************)
EXTENDS Pages, TrackerProofs

\* Rows and the date, as the calendar computations need them.
LEMMA RowsAndDates ==
  ASSUME TablesTypeOK
  PROVE  /\ today \in Int
         /\ \A i \in Existing : tasks[i] \in Task
BY TablesAssumption DEF TablesTypeOK, Existing

-----------------------------------------------------------------------------
(***************************************************************************)
(* The dates of occurrences.                                               *)
(***************************************************************************)
LEMMA MatchSchedule == TablesTypeOK => OccurrencesMatchSchedule
<1> SUFFICES ASSUME TablesTypeOK,
                    NEW i \in Existing,
                    NEW from \in {today - 366, today - 1, today + 1},
                    NEW to \in {today, today + 31}
             PROVE  occurrenceDates(tasks[i], from, to) = {d \in from .. to : DueOn(tasks[i], d)}
  BY DEF OccurrencesMatchSchedule
<1>1. tasks[i] \in Task /\ from \in Int /\ to \in Int
  BY RowsAndDates
<1> QED
  BY <1>1, OccurrencesAreDue

\* In every state, for every task and range, occurrenceDates enumerates the
\* dates that repeat the start date, whatever month ends and leap days lie
\* between.
THEOREM SchedulesMatched == TrackerSpec => []OccurrencesMatchSchedule
BY TrackerTablesCorrect, MatchSchedule, PTL

-----------------------------------------------------------------------------
(***************************************************************************)
(* Weeks.                                                                  *)
(***************************************************************************)

\* The settings are legal, whatever the row.
LEMMA SettingsLegal ==
  ASSUME TablesTypeOK
  PROVE  AppSettings.weekStart \in Weekdays /\ AppSettings.weeks \in 1 .. 4
BY TablesAssumption DEF TablesTypeOK, AppSettings, Settings

\* The dates on which the program is looked at come after 1970.
LEMMA ClockLate == ASSUME TablesTypeOK PROVE today \in Int /\ today >= 365
<1>1. Date(1971, 1, 1) = 365
  <2>1. 1971 \in Int /\ 1 \in 1 .. 12 /\ MonthNo(1971, 1) = 12 * 1971 + 1 - 1
    BY DEF MonthNo
  <2>2. FirstOf(MonthNo(1971, 1)) = NewYear(1971) + Offset(1971, 1) /\ Offset(1971, 1) = 0
    BY <2>1, FirstIs, Offsets
  <2>3. NewYear(1971) = 365
    BY DEF NewYear
  <2> QED
    BY <2>2, <2>3 DEF Date
<1> QED
  BY <1>1, ClockAssumption, TablesAssumption DEF TablesTypeOK

\* The week of a date, from the first day of the week or from its name.
LEMMA WeekAskedAgain ==
  ASSUME NEW d \in Int, NEW startDay \in Weekdays, NEW start, start = WeekStartFor(d, startDay)
  PROVE  /\ start \in Int /\ d - 6 <= start /\ start <= d
         /\ WeekStartFor(start, startDay) = start
         /\ reportDateInputMin(startDay) = 3 + startDay
         /\ (start - reportDateInputMin(startDay)) % 7 = 0
         /\ startDay \in {6, 0, 1} =>
              WeekStartFor(WeekStartFor(start + 2, 1), startDay) = start
<1>1. start \in Int /\ d - 6 <= start /\ start <= d /\ Weekday(start) = startDay
  BY WeekStarts
<1>2. WeekStartFor(start, startDay) = start
  BY <1>1, WeekStartIs
<1>3. reportDateInputMin(startDay) = 3 + startDay
  <2>1. 1970 \in Int /\ 1 \in 1 .. 12 /\ MonthNo(1970, 1) = 12 * 1970 + 1 - 1
    BY DEF MonthNo
  <2>2. FirstOf(MonthNo(1970, 1)) = NewYear(1970) + Offset(1970, 1) /\ Offset(1970, 1) = 0
    BY <2>1, FirstIs, Offsets
  <2>3. NewYear(1970) = 0
    BY DEF NewYear
  <2> QED
    BY <2>2, <2>3 DEF reportDateInputMin, Date
<1>4. (start - (3 + startDay)) % 7 = 0
  BY <1>1 DEF Weekday, Weekdays
<1>5. ASSUME startDay \in {6, 0, 1}
      PROVE  WeekStartFor(WeekStartFor(start + 2, 1), startDay) = start
  <2>1. PICK monday \in Int :
          /\ monday = WeekStartFor(start + 2, 1) /\ Weekday(monday) = 1
          /\ start - 4 <= monday /\ monday <= start + 2
    <3>1. PICK late \in Int : late = start + 2 /\ 1 \in Weekdays
      BY <1>1 DEF Weekdays
    <3>2. /\ WeekStartFor(late, 1) \in Int /\ Weekday(WeekStartFor(late, 1)) = 1
          /\ late - 6 <= WeekStartFor(late, 1) /\ WeekStartFor(late, 1) <= late
      BY <3>1, WeekStarts
    <3> QED
      BY <1>1, <3>1, <3>2
  <2>2. start <= monday
    BY <1>1, <1>5, <2>1 DEF Weekday
  <2> QED
    BY <1>1, <2>1, <2>2, WeekStartIs
<1> QED
  BY <1>1, <1>2, <1>3, <1>4, <1>5

\* A week of a report is the week of some date, so it can be asked for again.
LEMMA PickerAgrees == TablesTypeOK => WeekPickerAgrees
<1> SUFFICES ASSUME TablesTypeOK,
                    NEW s \in {NoWeek} \cup {OnDate(today + 30 * k) : k \in -1 .. 1},
                    NEW startDay, startDay = AppSettings.weekStart,
                    NEW start, start = ReportWeek(s)
             PROVE  /\ ReportWeek(OnDate(start)) = start
                    /\ start >= reportDateInputMin(startDay)
                    /\ (start - reportDateInputMin(startDay)) % 7 = 0
                    /\ startDay \in {6, 0, 1} =>
                         ReportWeek(InWeek(reportWeekValue(start))) = start
  BY DEF WeekPickerAgrees
<1>1. startDay \in Weekdays
  BY SettingsLegal
<1>2. \A d : ReportWeek(OnDate(d)) = WeekStartFor(d, startDay)
  BY DEF ReportWeek, parseReportWeek, OnDate
<1>3. ReportWeek(NoWeek) = WeekStartFor(today, startDay)
  BY DEF ReportWeek, parseReportWeek, NoWeek
<1>4. PICK d \in Int : start = WeekStartFor(d, startDay) /\ d >= 300
  BY <1>2, <1>3, ClockLate
<1>5. /\ start \in Int /\ d - 6 <= start /\ start <= d
      /\ WeekStartFor(start, startDay) = start
      /\ reportDateInputMin(startDay) = 3 + startDay
      /\ (start - reportDateInputMin(startDay)) % 7 = 0
      /\ startDay \in {6, 0, 1} =>
           WeekStartFor(WeekStartFor(start + 2, 1), startDay) = start
  BY <1>1, <1>4, WeekAskedAgain
<1>6. ReportWeek(InWeek(reportWeekValue(start)))
        = WeekStartFor(WeekStartFor(start + 2, 1), startDay)
  <2>1. PICK year, week : ISOWeek(start + 2) = [year |-> year, week |-> week]
    BY DEF ISOWeek
  <2>2. validISOWeek(year, week) /\ isoWeekStart(year, week) = WeekStartFor(start + 2, 1)
    BY <1>5, <2>1, ISOWeekStands
  <2> QED
    BY <2>1, <2>2 DEF ReportWeek, parseReportWeek, InWeek, reportWeekValue
<1>7. start >= reportDateInputMin(startDay)
  BY <1>1, <1>4, <1>5 DEF Weekdays
<1> QED
  BY <1>2, <1>5, <1>6, <1>7

\* The week that a report displays can be asked for again, by its first day and
\* by its number, whenever weeks start.
THEOREM WeeksAskedAgain == TrackerSpec => []WeekPickerAgrees
BY TrackerTablesCorrect, PickerAgrees, PTL

-----------------------------------------------------------------------------
(***************************************************************************)
(* Occurrences, from whatever range they are listed.                       *)
(***************************************************************************)
Active == {i \in Existing : tasks[i].active}

\* The completions of a user in a range of dates, of all that are done; and the
\* occurrences of the range if those are.
DoneWithin(done, u, from, to) == {c \in done : c.user = u /\ c.due \in from .. to}

Given(done, u, from, to) ==
  IF to < from THEN {}
  ELSE buildOccurrences(ListActiveTasks, DoneWithin(done, u, from, to),
                        ListMensesPeriodsForUserInRange(u, from, to), today, from, to)

\* The occurrence of a task on a day, from all that a user has recorded in `done'.
OccurrenceIn(done, u, i, d) ==
  Occurrence(tasks[i], i, d, {c \in done : c.user = u}, {p \in periods : p.user = u}, today)

\* The rows of a range are all that matter for a day of it.
LEMMA GivenSuffices ==
  ASSUME TablesTypeOK, NEW done, NEW u, NEW i, NEW from \in Int, NEW to \in Int, NEW d \in from .. to
  PROVE  Occurrence(tasks[i], i, d, DoneWithin(done, u, from, to),
                    ListMensesPeriodsForUserInRange(u, from, to), today)
           = OccurrenceIn(done, u, i, d)
<1> DEFINE some == DoneWithin(done, u, from, to)
           mine == {c \in done : c.user = u}
           near == ListMensesPeriodsForUserInRange(u, from, to)
           all  == {p \in periods : p.user = u}
<1>1. {c \in some : c.task = i /\ c.due = d} = {c \in mine : c.task = i /\ c.due = d}
  BY DEF DoneWithin
<1>2. dateInAnyPeriod(d, near) <=> dateInAnyPeriod(d, all)
  <2>1. \A p \in periods : p.start \in Int /\ (p.end = NULL \/ p.end \in Int)
    BY DEF TablesTypeOK, Period
  <2> QED
    BY <2>1 DEF dateInAnyPeriod, ListMensesPeriodsForUserInRange
<1> HIDE DEF some, mine, near, all
<1>3. Occurrence(tasks[i], i, d, some, near, today) = Occurrence(tasks[i], i, d, mine, all, today)
  BY <1>1, <1>2, Zenon DEF Occurrence
<1> QED
  BY <1>3 DEF some, mine, near, all, OccurrenceIn

\* Given lists the due dates of the active tasks in the range.
LEMMA GivenAre ==
  ASSUME TablesTypeOK, NEW done, NEW u, NEW from \in Int, NEW to \in Int, NEW o
  PROVE  o \in Given(done, u, from, to)
           <=> \E i \in Active, d \in from .. to : DueOn(tasks[i], d) /\ o = OccurrenceIn(done, u, i, d)
<1>1. CASE to < from
  BY <1>1 DEF Given
<1>2. CASE ~(to < from)
  <2> DEFINE some == DoneWithin(done, u, from, to)
             near == ListMensesPeriodsForUserInRange(u, from, to)
             dates(i) == occurrenceDates(ListActiveTasks[i], from, to)
             occ(i, d) == Occurrence(ListActiveTasks[i], i, d, some, near, today)
  <2>1. DOMAIN ListActiveTasks = Active /\ \A i \in Active : ListActiveTasks[i] = tasks[i]
    BY DEF ListActiveTasks, Active
  <2>2. Given(done, u, from, to) = UNION {{occ(i, d) : d \in dates(i)} : i \in Active}
    BY <1>2, <2>1 DEF Given, buildOccurrences
  <2>3. ASSUME NEW i \in Active
        PROVE  dates(i) = {d \in from .. to : DueOn(tasks[i], d)}
    BY <2>1, RowsAndDates, OccurrencesAreDue DEF Active
  <2>4. ASSUME NEW i \in Active, NEW d \in from .. to
        PROVE  occ(i, d) = OccurrenceIn(done, u, i, d)
    BY <2>1, GivenSuffices
  <2> HIDE DEF occ, dates
  <2>5. o \in Given(done, u, from, to) <=> \E i \in Active : \E d \in dates(i) : o = occ(i, d)
    BY <2>2
  <2> QED
    BY <2>3, <2>4, <2>5
<1> QED
  BY <1>1, <1>2

\* An occurrence is known by its task and its date.
LEMMA OccurrenceInFields ==
  ASSUME NEW done, NEW u, NEW i, NEW d
  PROVE  /\ OccurrenceIn(done, u, i, d).task = i
         /\ OccurrenceIn(done, u, i, d).due = d
         /\ OccurrenceIn(done, u, i, d).status \in Statuses
BY DEF OccurrenceIn, Occurrence, Statuses

\* Those that the statements read, from the table as it is.
LEMMA GivenNow ==
  ASSUME NEW u, NEW from, NEW to
  PROVE  OccurrencesBetween(u, from, to) = Given(completions, u, from, to)
BY Zenon DEF OccurrencesBetween, Given, DoneWithin, ListCompletionsForUserInRange

OccurrenceOf(u, i, d) == OccurrenceIn(completions, u, i, d)

LEMMA OccurrenceFields ==
  ASSUME NEW u, NEW i, NEW d
  PROVE  OccurrenceOf(u, i, d).task = i /\ OccurrenceOf(u, i, d).due = d
BY OccurrenceInFields DEF OccurrenceOf

LEMMA OccurrencesAre ==
  ASSUME TablesTypeOK, NEW u, NEW from \in Int, NEW to \in Int, NEW o
  PROVE  o \in OccurrencesBetween(u, from, to)
           <=> \E i \in Active, d \in from .. to : DueOn(tasks[i], d) /\ o = OccurrenceOf(u, i, d)
BY GivenNow, GivenAre DEF OccurrenceOf

\* Occurrences are finitely many.
LEMMA GivenFinite ==
  ASSUME TablesTypeOK, NEW done, NEW u, NEW from \in Int, NEW to \in Int
  PROVE  IsFiniteSet(Given(done, u, from, to))
<1>1. IsFiniteSet(Active \X (from .. to))
  <2>1. IsFiniteSet(TaskIds)
    <3>1. MaxTasks \in Int
      BY TablesAssumption
    <3> QED
      BY <3>1, FS_Interval DEF TaskIds
  <2>2. Active \in SUBSET TaskIds
    BY DEF Active, Existing
  <2>3. IsFiniteSet(Active)
    BY <2>1, <2>2, FS_Subset
  <2>4. IsFiniteSet(from .. to)
    BY FS_Interval
  <2> QED
    BY <2>3, <2>4, FS_Product
<1> DEFINE f == [x \in Active \X (from .. to) |-> OccurrenceIn(done, u, x[1], x[2])]
           image == {f[x] : x \in Active \X (from .. to)}
<1>2. f \in Surjection(Active \X (from .. to), image)
  BY DEF Surjection
<1>3. IsFiniteSet(image)
  BY <1>1, <1>2, FS_Surjection
<1>4. \A o \in Given(done, u, from, to) : o \in image
  <2> SUFFICES ASSUME NEW o \in Given(done, u, from, to) PROVE o \in image
    OBVIOUS
  <2>1. PICK i \in Active, d \in from .. to : o = OccurrenceIn(done, u, i, d)
    BY GivenAre
  <2>2. <<i, d>> \in Active \X (from .. to) /\ o = f[<<i, d>>]
    BY <2>1
  <2> QED
    BY <2>2
<1>5. Given(done, u, from, to) \in SUBSET image
  BY <1>4
<1> QED
  BY <1>3, <1>5, FS_Subset

LEMMA OccurrencesFinite ==
  ASSUME TablesTypeOK, NEW u, NEW from \in Int, NEW to \in Int
  PROVE  IsFiniteSet(OccurrencesBetween(u, from, to))
BY GivenNow, GivenFinite

\* Those of a longer range that fall into a shorter one are those of the shorter.
LEMMA OccurrencesWithin ==
  ASSUME TablesTypeOK, NEW u, NEW from \in Int, NEW to \in Int,
         NEW a \in Int, NEW b \in Int, from <= a, b <= to
  PROVE  {o \in OccurrencesBetween(u, from, to) : o.due \in a .. b} = OccurrencesBetween(u, a, b)
<1>1. ASSUME NEW o
      PROVE  o \in OccurrencesBetween(u, from, to) /\ o.due \in a .. b
               <=> o \in OccurrencesBetween(u, a, b)
  <2>1. \A i, d : o = OccurrenceOf(u, i, d) => o.due = d
    BY OccurrenceFields
  <2>2. \A d : d \in a .. b <=> d \in from .. to /\ d \in a .. b
    OBVIOUS
  <2> QED
    BY <2>1, <2>2, OccurrencesAre
<1> QED
  BY <1>1

-----------------------------------------------------------------------------
(***************************************************************************)
(* The calendar.                                                           *)
(***************************************************************************)

\* Listed turns a function into the same sequence.
LEMMA ListedIs ==
  ASSUME NEW n \in Nat, NEW f, f = [k \in 1 .. n |-> f[k]]
  PROVE  Listed(f) = f /\ Len(f) = n /\ DOMAIN f = 1 .. n
<1>1. f \in Seq({f[k] : k \in 1 .. n}) /\ Len(f) = n /\ DOMAIN f = 1 .. n
  OBVIOUS
<1> QED
  BY <1>1 DEF Listed

\* The grid starts on the configured day, less than a week before the month,
\* and consists of whole weeks that end less than a week after it.
LEMMA GridSpans ==
  ASSUME NEW mn \in Int, NEW startDay \in Weekdays
  PROVE  /\ GridStart(mn, startDay) \in Int /\ GridEnd(mn, startDay) \in Int
         /\ Weekday(GridStart(mn, startDay)) = startDay
         /\ FirstOf(mn) - 6 <= GridStart(mn, startDay) /\ GridStart(mn, startDay) <= FirstOf(mn)
         /\ FirstOf(mn + 1) - 1 <= GridEnd(mn, startDay)
         /\ GridEnd(mn, startDay) <= FirstOf(mn + 1) + 5
         /\ (GridEnd(mn, startDay) - GridStart(mn, startDay) + 1) % 7 = 0
<1>1. PICK first \in Int, next \in Int : first = FirstOf(mn) /\ next = FirstOf(mn + 1)
  BY MonthLengths
<1>2. PICK start \in Int : start = GridStart(mn, startDay)
  BY <1>1 DEF GridStart, Weekday, Weekdays
<1>3. PICK end \in Int : end = GridEnd(mn, startDay)
  BY <1>1 DEF GridEnd, Weekday, Weekdays
<1>4. Weekday(start) = startDay /\ first - 6 <= start /\ start <= first
  BY <1>1, <1>2 DEF GridStart, Weekday, Weekdays
<1>5. (end + 4) % 7 = (startDay + 6) % 7 /\ next - 1 <= end /\ end <= next + 5
  BY <1>1, <1>3 DEF GridEnd, Weekday, Weekdays
<1>6. (end - start + 1) % 7 = 0
  BY <1>4, <1>5 DEF Weekday, Weekdays
<1> QED
  BY <1>1, <1>2, <1>3, <1>4, <1>5, <1>6

\* A day near a month is in it if it is in a month of that name.
LEMMA NearMonth ==
  ASSUME NEW mn \in Int, NEW d \in Int, FirstOf(mn) - 6 <= d, d <= FirstOf(mn + 1) + 5
  PROVE  MonthOf(d) % 12 = mn % 12 <=> d \in FirstOf(mn) .. FirstOf(mn + 1) - 1
<1>1. /\ FirstOf(mn - 1) \in Int /\ FirstOf(mn) \in Int /\ FirstOf(mn + 1) \in Int
      /\ FirstOf(mn + 2) \in Int
      /\ FirstOf(mn) >= FirstOf(mn - 1) + 28 /\ FirstOf(mn + 2) >= FirstOf(mn + 1) + 28
  <2>1. /\ mn - 1 \in Int /\ (mn - 1) + 1 = mn
        /\ mn + 1 \in Int /\ (mn + 1) + 1 = mn + 2
    OBVIOUS
  <2>2. /\ FirstOf(mn - 1) \in Int /\ daysInMonth(mn - 1) \in 28 .. 31
        /\ FirstOf((mn - 1) + 1) = FirstOf(mn - 1) + daysInMonth(mn - 1)
    BY <2>1, MonthLengths
  <2>3. /\ FirstOf(mn + 1) \in Int /\ daysInMonth(mn + 1) \in 28 .. 31
        /\ FirstOf((mn + 1) + 1) = FirstOf(mn + 1) + daysInMonth(mn + 1)
    BY <2>1, MonthLengths
  <2> QED
    BY <2>1, <2>2, <2>3
<1>2. PICK mo \in Int :
        mo = MonthOf(d) /\ FirstOf(mo) <= d /\ d < FirstOf(mo + 1)
          /\ FirstOf(mo) \in Int /\ FirstOf(mo + 1) \in Int
  BY MonthOfDay, MonthLengths
<1>3. mo >= mn - 1
  <2> SUFFICES ASSUME mo < mn - 1 PROVE FALSE
    BY <1>2
  <2>1. mn - 1 \in Int /\ FirstOf(mo + 1) <= FirstOf(mn - 1)
    BY <1>2, MonthsInOrder
  <2> QED
    BY <1>1, <1>2, <2>1
<1>4. mo <= mn + 1
  <2> SUFFICES ASSUME mn + 1 < mo PROVE FALSE
    BY <1>2
  <2>1. mn + 1 \in Int /\ FirstOf((mn + 1) + 1) <= FirstOf(mo)
    BY <1>2, MonthsInOrder
  <2>2. (mn + 1) + 1 = mn + 2
    OBVIOUS
  <2> QED
    BY <1>1, <1>2, <2>1, <2>2
<1>5. mo % 12 = mn % 12 <=> mo = mn
  BY <1>3, <1>4
<1>6. mo = mn <=> d \in FirstOf(mn) .. FirstOf(mn + 1) - 1
  <2>1. mo = mn => d \in FirstOf(mn) .. FirstOf(mn + 1) - 1
    BY <1>1, <1>2
  <2>2. ASSUME d \in FirstOf(mn) .. FirstOf(mn + 1) - 1 PROVE mo = mn
    <3>1. FirstOf(mn) <= d /\ d < FirstOf(mn + 1)
      BY <1>1, <2>2
    <3> QED
      BY <1>2, <3>1, MonthIs
  <2> QED
    BY <2>1, <2>2
<1> QED
  BY <1>2, <1>5, <1>6

\* The column heads are those of the weekdays.
LEMMA Heads ==
  ASSUME NEW startDay \in Weekdays, NEW k \in 1 .. 7
  PROVE  WeekdayLabels(startDay)[k] = (startDay + k - 1) % 7
<1>1. Date(2026, 1, 4) = 20457
  <2>1. 2026 \in Int /\ 1 \in 1 .. 12 /\ MonthNo(2026, 1) = 12 * 2026 + 1 - 1
    BY DEF MonthNo
  <2>2. FirstOf(MonthNo(2026, 1)) = NewYear(2026) + Offset(2026, 1) /\ Offset(2026, 1) = 0
    BY <2>1, FirstIs, Offsets
  <2>3. NewYear(2026) = 20454
    BY DEF NewYear
  <2> QED
    BY <2>2, <2>3 DEF Date
<1>2. WeekdayLabels(startDay)[k] = (20457 + startDay + k - 1 + 4) % 7
  BY <1>1 DEF WeekdayLabels, Weekday
<1> QED
  BY <1>2 DEF Weekdays

\* The same, with names for the four dates.
LEMMA GridSpan ==
  ASSUME NEW mn \in Int, NEW startDay \in Weekdays
  PROVE  \E start \in Int, end \in Int, first \in Int, next \in Int :
           /\ start = GridStart(mn, startDay) /\ end = GridEnd(mn, startDay)
           /\ first = FirstOf(mn) /\ next = FirstOf(mn + 1) /\ first < next
           /\ Weekday(start) = startDay /\ first - 6 <= start /\ start <= first
           /\ next - 1 <= end /\ end <= next + 5 /\ (end - start + 1) % 7 = 0
<1>1. /\ FirstOf(mn) \in Int /\ FirstOf(mn + 1) \in Int /\ daysInMonth(mn) \in 28 .. 31
      /\ FirstOf(mn + 1) = FirstOf(mn) + daysInMonth(mn)
  BY MonthLengths
<1>2. FirstOf(mn) < FirstOf(mn + 1)
  BY <1>1
<1> QED
  BY <1>1, <1>2, GridSpans

\* A grid of whole weeks from start to end.
Laid(u, mn, start, end, grid) ==
  LET cell(d) == Cell(u, mn, d, OccurrencesBetween(u, start, end))
      n       == (end - start + 1) \div 7
  IN  /\ n \in Nat /\ end - start + 1 = 7 * n
      /\ Len(grid.weeks) = n /\ DOMAIN grid.weeks = 1 .. n
      /\ \A w \in 1 .. n, k \in 1 .. 7 : grid.weeks[w][k] = cell(start + 7 * (w - 1) + k - 1)
      /\ \A c : c \in CellsOf(grid.weeks) <=> \E d \in start .. end : c = cell(d)

\* buildGrid lays out the days of that span, seven to a week.
LEMMA GridIs ==
  ASSUME TablesTypeOK, NEW u, NEW mn \in Int
  PROVE  Laid(u, mn, GridStart(mn, AppSettings.weekStart), GridEnd(mn, AppSettings.weekStart),
              buildGrid(u, mn))
<1> DEFINE grid == buildGrid(u, mn)
           cells == CellsOf(grid.weeks)
<1>1. PICK startDay \in Weekdays : startDay = AppSettings.weekStart
  BY SettingsLegal
<1>2. PICK start \in Int, end \in Int, first \in Int, next \in Int :
        /\ start = GridStart(mn, startDay) /\ end = GridEnd(mn, startDay)
        /\ first = FirstOf(mn) /\ next = FirstOf(mn + 1) /\ first < next
        /\ Weekday(start) = startDay /\ first - 6 <= start /\ start <= first
        /\ next - 1 <= end /\ end <= next + 5 /\ (end - start + 1) % 7 = 0
  BY <1>1, GridSpan
<1>3. PICK n \in Nat : n = (end - start + 1) \div 7 /\ end - start + 1 = 7 * n
  BY <1>2
<1> DEFINE cell(d) == Cell(u, mn, d, OccurrencesBetween(u, start, end))
           week(w) == [k \in 1 .. 7 |-> cell(start + 7 * (w - 1) + k - 1)]
<1>4. grid.weeks = Listed([w \in 1 .. n |-> Listed(week(w))])
  BY <1>1, <1>2, <1>3 DEF buildGrid
<1> HIDE DEF cell
<1>5. \A w : Listed(week(w)) = week(w)
  <2> SUFFICES ASSUME NEW w PROVE Listed(week(w)) = week(w)
    OBVIOUS
  <2>1. 7 \in Nat /\ week(w) = [k \in 1 .. 7 |-> week(w)[k]]
    OBVIOUS
  <2> HIDE DEF week
  <2> QED
    BY <2>1, ListedIs
<1> HIDE DEF week
<1>6. grid.weeks = [w \in 1 .. n |-> week(w)] /\ Len(grid.weeks) = n /\ DOMAIN grid.weeks = 1 .. n
  <2> DEFINE weeks == [w \in 1 .. n |-> week(w)]
  <2>1. grid.weeks = Listed(weeks)
    BY <1>4, <1>5
  <2>2. weeks = [w \in 1 .. n |-> weeks[w]]
    OBVIOUS
  <2> HIDE DEF weeks
  <2>3. Listed(weeks) = weeks /\ Len(weeks) = n /\ DOMAIN weeks = 1 .. n
    BY <2>2, ListedIs
  <2> QED
    BY <2>1, <2>3 DEF weeks
<1> HIDE DEF grid
<1>7. ASSUME NEW w \in 1 .. n, NEW k \in 1 .. 7
      PROVE  grid.weeks[w][k] = cell(start + 7 * (w - 1) + k - 1)
  BY <1>6 DEF week
<1>8. \A c : c \in cells <=> \E d \in start .. end : c = cell(d)
  <2> SUFFICES ASSUME NEW c PROVE c \in cells <=> \E d \in start .. end : c = cell(d)
    OBVIOUS
  <2>1. c \in cells <=> \E w \in 1 .. n : \E k \in 1 .. 7 : c = grid.weeks[w][k]
    BY <1>6 DEF CellsOf
  <2>2. ASSUME NEW w \in 1 .. n, NEW k \in 1 .. 7
        PROVE  start + 7 * (w - 1) + k - 1 \in start .. end
    BY <1>3
  <2>3. ASSUME NEW d \in start .. end
        PROVE  \E w \in 1 .. n : \E k \in 1 .. 7 : d = start + 7 * (w - 1) + k - 1
    <3>1. PICK w \in 1 .. n, k \in 1 .. 7 :
            w = (d - start) \div 7 + 1 /\ k = ((d - start) % 7) + 1
      BY <1>3
    <3>2. d = start + 7 * (w - 1) + k - 1
      BY <3>1
    <3> QED
      BY <3>2
  <2>4. ASSUME c \in cells PROVE \E d \in start .. end : c = cell(d)
    <3>1. PICK w \in 1 .. n, k \in 1 .. 7 : c = cell(start + 7 * (w - 1) + k - 1)
      BY <1>7, <2>1, <2>4
    <3> QED
      BY <2>2, <3>1
  <2>5. ASSUME NEW d \in start .. end, c = cell(d) PROVE c \in cells
    <3>1. PICK w \in 1 .. n, k \in 1 .. 7 : d = start + 7 * (w - 1) + k - 1
      BY <2>3
    <3>2. c = grid.weeks[w][k]
      BY <1>7, <2>5, <3>1
    <3> QED
      BY <2>1, <3>2
  <2> QED
    BY <2>4, <2>5
<1> QED
  BY <1>1, <1>2, <1>3, <1>6, <1>7, <1>8 DEF Laid, cells, cell, grid

\* So the grid has every day of the month, once and under its head.
LEMMA GridShows ==
  ASSUME TablesTypeOK, NEW u, NEW mn \in Int
  PROVE  GridShown(u, mn, buildGrid(u, mn))
<1> DEFINE grid == buildGrid(u, mn)
           cells == CellsOf(grid.weeks)
<1>1. PICK startDay \in Weekdays : startDay = AppSettings.weekStart
  BY SettingsLegal
<1>2. PICK start \in Int, end \in Int, first \in Int, next \in Int :
        /\ start = GridStart(mn, startDay) /\ end = GridEnd(mn, startDay)
        /\ first = FirstOf(mn) /\ next = FirstOf(mn + 1) /\ first < next
        /\ Weekday(start) = startDay /\ first - 6 <= start /\ start <= first
        /\ next - 1 <= end /\ end <= next + 5 /\ (end - start + 1) % 7 = 0
  BY <1>1, GridSpan
<1>3. PICK n \in Nat : n = (end - start + 1) \div 7 /\ end - start + 1 = 7 * n
  BY <1>2
<1> DEFINE cell(d) == Cell(u, mn, d, OccurrencesBetween(u, start, end))
<1>4. grid.weekdays = WeekdayLabels(startDay)
  BY <1>1 DEF buildGrid
<1>5. Laid(u, mn, start, end, grid)
  BY <1>1, <1>2, GridIs
<1>6. Len(grid.weeks) = n /\ DOMAIN grid.weeks = 1 .. n
  BY <1>3, <1>5 DEF Laid
<1>7. \A w \in 1 .. n, k \in 1 .. 7 : grid.weeks[w][k] = cell(start + 7 * (w - 1) + k - 1)
  BY <1>3, <1>5 DEF Laid
<1>8. \A d : cell(d).date = d /\ (cell(d).inMonth <=> MonthOf(d) % 12 = mn % 12)
  BY DEF Cell
<1>9. \A c : c \in cells <=> \E d \in start .. end : c = cell(d)
  BY <1>5 DEF Laid
<1> HIDE DEF cell, grid, cells
<1>10. \A d \in start .. end : cell(d).inMonth <=> d \in first .. next - 1
  BY <1>2, <1>8, NearMonth
<1>11. {c.date : c \in {x \in cells : x.inMonth}} = first .. next - 1
  <2>1. \A d \in first .. next - 1 : d \in start .. end
    BY <1>2
  <2> QED
    BY <1>8, <1>9, <1>10, <2>1
<1>12. Cardinality(cells) = 7 * Len(grid.weeks)
  <2> DEFINE f == [d \in start .. end |-> cell(d)]
  <2>1. f \in Bijection(start .. end, cells)
    <3>1. f \in [start .. end -> cells]
      BY <1>9
    <3>2. \A d, e \in start .. end : f[d] = f[e] => d = e
      BY <1>8
    <3>3. \A c \in cells : \E d \in start .. end : f[d] = c
      BY <1>9
    <3> QED
      BY <3>1, <3>2, <3>3 DEF Bijection, Injection, IsInjective, Surjection
  <2>2. IsFiniteSet(start .. end) /\ Cardinality(start .. end) = 7 * n
    <3>1. IsFiniteSet(start .. end)
          /\ Cardinality(start .. end) = IF start > end THEN 0 ELSE end - start + 1
      BY FS_Interval
    <3>2. ~(start > end)
      BY <1>2
    <3> QED
      BY <1>3, <3>1, <3>2
  <2> QED
    BY <1>6, <2>1, <2>2, FS_Bijection DEF ExistsBijection
<1>13. ASSUME NEW w \in DOMAIN grid.weeks, NEW k \in 1 .. 7
       PROVE  Weekday(grid.weeks[w][k].date) = grid.weekdays[k]
  <2>1. w \in 1 .. n /\ grid.weeks[w][k].date = start + 7 * (w - 1) + k - 1
    BY <1>6, <1>7, <1>8
  <2>2. grid.weekdays[k] = (startDay + k - 1) % 7
    BY <1>4, Heads DEF grid
  <2>3. PICK q \in Int : q = (start + 4) \div 7 /\ start + 4 = 7 * q + startDay
    <3>1. (start + 4) % 7 = startDay
      BY <1>2 DEF Weekday
    <3>2. start + 4 = 7 * ((start + 4) \div 7) + ((start + 4) % 7)
      OBVIOUS
    <3> QED
      BY <3>1, <3>2
  <2>4. start + 7 * (w - 1) + k - 1 + 4 = 7 * (q + w - 1) + (startDay + k - 1)
    BY <2>1, <2>3 DEF Weekdays
  <2>5. Weekday(start + 7 * (w - 1) + k - 1) = (startDay + k - 1) % 7
    BY <2>1, <2>4 DEF Weekday, Weekdays
  <2> QED
    BY <2>1, <2>2, <2>5
<1>14. ASSUME NEW c \in cells PROVE c.tally = buildDay(u, c.date).tally
  <2>1. PICK d \in start .. end : c = cell(d)
    BY <1>9
  <2>2. {o \in OccurrencesBetween(u, start, end) : o.due \in d .. d} = OccurrencesBetween(u, d, d)
    BY OccurrencesWithin
  <2>3. {o \in OccurrencesBetween(u, start, end) : o.due = d} = OccurrencesOn(u, d)
    BY <2>2 DEF OccurrencesOn
  <2>4. cell(d).tally = Tally(OccurrencesOn(u, d))
    BY <2>3 DEF cell, Cell
  <2> QED
    BY <1>8, <2>1, <2>4 DEF buildDay, calendarDayFromOccurrences
<1> QED
  BY <1>2, <1>11, <1>12, <1>13, <1>14 DEF GridShown, MonthShown, cells, grid

\* In every state, the grid of the calendar shows every day of the month once,
\* in weeks under the heads of their columns, and what its cells say of a day
\* is what the panel of the day says.
THEOREM GridsShowMonths == TrackerSpec => []GridShowsMonth
<1>1. TablesTypeOK => GridShowsMonth
  <2> SUFFICES ASSUME TablesTypeOK, NEW u \in members,
                      NEW mn \in {MonthOf(today), MonthOf(today + 1)}
               PROVE  GridShown(u, mn, buildGrid(u, mn))
    BY DEF GridShowsMonth
  <2>1. today \in Int /\ today + 1 \in Int
    BY RowsAndDates
  <2>2. mn \in Int
    BY <2>1, MonthOfDay
  <2> QED
    BY <2>2, GridShows
<1> QED
  BY <1>1, TrackerTablesCorrect, PTL

-----------------------------------------------------------------------------
(***************************************************************************)
(* The longest streak.  bestLeaderboardStreak looks at the days of a set P *)
(* (the perfect ones) from d to last, when c perfect days precede d: its   *)
(* value is the greatest of the lengths Runs.                              *)
(***************************************************************************)
AllIn(P, from, to) == \A x \in from .. to : x \in P

Runs(P, last, d, c) ==
  {n \in Nat : \/ \E k \in Nat : n = c + k /\ d + k <= Later(last + 1, d) /\ AllIn(P, d, d + k - 1)
               \/ \E e \in Int : d <= e /\ e + n <= last + 1 /\ AllIn(P, e, e + n - 1)}

Top(S) == CHOOSE n \in S : \A m \in S : m <= n

\* The largest of a set of numbers.
LEMMA TopIs ==
  ASSUME NEW S, S \subseteq Nat, NEW n \in S, \A m \in S : m <= n
  PROVE  Top(S) = n
<1>1. \A k \in S : (\A m \in S : m <= k) => k = n
  OBVIOUS
<1> QED
  BY <1>1 DEF Top

LEMMA TopExists ==
  ASSUME NEW S, S \subseteq Nat, S # {}, NEW bound \in Nat, \A m \in S : m <= bound
  PROVE  Top(S) \in S /\ \A m \in S : m <= Top(S)
<1> DEFINE Gaps == {k \in Nat : bound - k \in S}
<1>1. Gaps \subseteq Nat /\ Gaps # {}
  <2>1. PICK m \in S : TRUE
    OBVIOUS
  <2>2. bound - m \in Nat /\ bound - (bound - m) = m
    BY <2>1
  <2> QED
    BY <2>1, <2>2
<1>2. PICK k \in Gaps : \A j \in Gaps : k <= j
  BY <1>1, LeastNat
<1>3. bound - k \in S
  BY <1>2
<1>4. ASSUME NEW m \in S PROVE m <= bound - k
  <2>1. bound - m \in Nat /\ bound - (bound - m) = m
    OBVIOUS
  <2>2. bound - m \in Gaps
    BY <2>1
  <2>3. k <= bound - m /\ k \in Nat
    BY <1>2, <2>2
  <2> QED
    BY <2>3
<1> QED
  BY <1>3, <1>4 DEF Top

\* Runs has a longest one.
LEMMA RunsTop ==
  ASSUME NEW P, NEW last \in Int, NEW d \in Int, NEW c \in Nat
  PROVE  /\ Runs(P, last, d, c) \subseteq Nat
         /\ c \in Runs(P, last, d, c)
         /\ Top(Runs(P, last, d, c)) \in Runs(P, last, d, c)
         /\ \A m \in Runs(P, last, d, c) : m <= Top(Runs(P, last, d, c))
<1>1. Runs(P, last, d, c) \subseteq Nat
  BY DEF Runs
<1>2. c \in Runs(P, last, d, c)
  <2>1. 0 \in Nat /\ c = c + 0 /\ d + 0 <= Later(last + 1, d) /\ AllIn(P, d, d + 0 - 1)
    BY DEF AllIn, Later
  <2> QED
    BY <2>1 DEF Runs
<1>3. c + Later(last + 1 - d, 0) \in Nat
  BY DEF Later
<1>4. \A m \in Runs(P, last, d, c) : m <= c + Later(last + 1 - d, 0)
  BY DEF Runs, Later
<1> QED
  BY <1>1, <1>2, <1>3, <1>4, TopExists

\* What the loop of bestLeaderboardStreak adds to Runs at each day.
LEMMA RunsStep ==
  ASSUME NEW P, NEW last \in Int, NEW d \in Int, NEW c \in Nat
  PROVE  Top(Runs(P, last, d, c)) =
           IF d > last THEN c
           ELSE IF d \in P THEN Top(Runs(P, last, d + 1, c + 1))
           ELSE Later(c, Top(Runs(P, last, d + 1, 0)))
<1>1. /\ Runs(P, last, d, c) \subseteq Nat /\ c \in Runs(P, last, d, c)
  BY RunsTop
<1>2. CASE d > last
  <2>1. \A m \in Runs(P, last, d, c) : m <= c
    BY <1>2 DEF Runs, Later
  <2> QED
    BY <1>1, <1>2, <2>1, TopIs
<1>3. CASE d <= last /\ d \in P
  <2>1. PICK top \in Nat : /\ top = Top(Runs(P, last, d + 1, c + 1))
                           /\ top \in Runs(P, last, d + 1, c + 1)
                           /\ \A m \in Runs(P, last, d + 1, c + 1) : m <= top
                           /\ c + 1 <= top
    BY RunsTop
  <2>2. top \in Runs(P, last, d, c)
    <3>1. ASSUME NEW k \in Nat, top = c + 1 + k, d + 1 + k <= Later(last + 1, d + 1),
                 AllIn(P, d + 1, d + 1 + k - 1)
          PROVE  top \in Runs(P, last, d, c)
      <4>1. k + 1 \in Nat /\ top = c + (k + 1) /\ d + (k + 1) <= Later(last + 1, d)
            /\ AllIn(P, d, d + (k + 1) - 1)
        BY <1>3, <3>1 DEF Later, AllIn
      <4> QED
        BY <4>1 DEF Runs
    <3>2. ASSUME NEW e \in Int, d + 1 <= e, e + top <= last + 1, AllIn(P, e, e + top - 1)
          PROVE  top \in Runs(P, last, d, c)
      BY <3>2 DEF Runs
    <3> QED
      BY <2>1, <3>1, <3>2 DEF Runs
  <2>3. ASSUME NEW m \in Runs(P, last, d, c) PROVE m <= top
    <3>1. ASSUME NEW k \in Nat, m = c + k, d + k <= Later(last + 1, d), AllIn(P, d, d + k - 1)
          PROVE  m <= top
      <4>1. CASE k = 0
        BY <2>1, <3>1, <4>1
      <4>2. CASE k # 0
        <5>1. k - 1 \in Nat /\ m = (c + 1) + (k - 1) /\ (d + 1) + (k - 1) <= Later(last + 1, d + 1)
              /\ AllIn(P, d + 1, (d + 1) + (k - 1) - 1)
          BY <1>3, <3>1, <4>2 DEF Later, AllIn
        <5>2. m \in Runs(P, last, d + 1, c + 1)
          BY <1>1, <2>3, <5>1 DEF Runs
        <5> QED
          BY <2>1, <5>2
      <4> QED
        BY <4>1, <4>2
    <3>2. ASSUME NEW e \in Int, d <= e, e + m <= last + 1, AllIn(P, e, e + m - 1)
          PROVE  m <= top
      <4>0. m \in Nat
        BY <1>1, <2>3
      <4>1. CASE e = d /\ m = 0
        BY <2>1, <4>1
      <4>2. CASE e = d /\ m # 0
        <5>1. m - 1 \in Nat /\ c + m = (c + 1) + (m - 1)
              /\ (d + 1) + (m - 1) <= Later(last + 1, d + 1)
              /\ AllIn(P, d + 1, (d + 1) + (m - 1) - 1)
          BY <1>3, <3>2, <4>0, <4>2 DEF Later, AllIn
        <5>2. c + m \in Runs(P, last, d + 1, c + 1)
          BY <4>0, <5>1 DEF Runs
        <5> QED
          BY <2>1, <4>0, <5>2
      <4>3. CASE d + 1 <= e
        <5>1. m \in Runs(P, last, d + 1, c + 1)
          BY <3>2, <4>0, <4>3 DEF Runs
        <5> QED
          BY <2>1, <5>1
      <4> QED
        BY <3>2, <4>1, <4>2, <4>3
    <3> QED
      BY <2>3, <3>1, <3>2 DEF Runs
  <2> QED
    BY <1>1, <1>3, <2>1, <2>2, <2>3, TopIs
<1>4. CASE d <= last /\ d \notin P
  <2>1. PICK top \in Nat : /\ top = Top(Runs(P, last, d + 1, 0))
                           /\ top \in Runs(P, last, d + 1, 0)
                           /\ \A m \in Runs(P, last, d + 1, 0) : m <= top
    BY RunsTop
  <2>2. top \in Runs(P, last, d, c)
    <3>1. ASSUME NEW k \in Nat, top = 0 + k, d + 1 + k <= Later(last + 1, d + 1),
                 AllIn(P, d + 1, d + 1 + k - 1)
          PROVE  top \in Runs(P, last, d, c)
      <4>1. d + 1 \in Int /\ d <= d + 1 /\ (d + 1) + top <= last + 1
            /\ AllIn(P, d + 1, (d + 1) + top - 1)
        BY <1>4, <3>1 DEF Later
      <4> QED
        BY <4>1 DEF Runs
    <3>2. ASSUME NEW e \in Int, d + 1 <= e, e + top <= last + 1, AllIn(P, e, e + top - 1)
          PROVE  top \in Runs(P, last, d, c)
      BY <3>2 DEF Runs
    <3> QED
      BY <2>1, <3>1, <3>2 DEF Runs
  <2>3. ASSUME NEW m \in Runs(P, last, d, c) PROVE m <= c \/ m <= top
    <3>0. m \in Nat
      BY <1>1, <2>3
    <3>1. ASSUME NEW k \in Nat, m = c + k, d + k <= Later(last + 1, d), AllIn(P, d, d + k - 1)
          PROVE  m <= c
      <4>1. k = 0
        <5> SUFFICES ASSUME k # 0 PROVE FALSE
          OBVIOUS
        <5>1. d \in d .. d + k - 1
          OBVIOUS
        <5> QED
          BY <1>4, <3>1, <5>1 DEF AllIn
      <4> QED
        BY <3>1, <4>1
    <3>2. ASSUME NEW e \in Int, d <= e, e + m <= last + 1, AllIn(P, e, e + m - 1)
          PROVE  m <= c \/ m <= top
      <4>1. CASE m = 0
        BY <4>1
      <4>2. CASE m # 0
        <5>1. e # d
          <6> SUFFICES ASSUME e = d PROVE FALSE
            OBVIOUS
          <6>1. d \in d .. d + m - 1
            BY <3>0, <4>2
          <6> QED
            BY <1>4, <3>2, <6>1 DEF AllIn
        <5>2. m \in Runs(P, last, d + 1, 0)
          BY <3>0, <3>2, <5>1 DEF Runs
        <5> QED
          BY <2>1, <5>2
      <4> QED
        BY <4>1, <4>2
    <3> QED
      BY <2>3, <3>1, <3>2 DEF Runs
  <2>4. Later(c, top) \in Runs(P, last, d, c) /\ \A m \in Runs(P, last, d, c) : m <= Later(c, top)
    BY <1>1, <2>1, <2>2, <2>3 DEF Later
  <2> QED
    BY <1>1, <1>4, <2>1, <2>4, TopIs
<1> QED
  BY <1>2, <1>3, <1>4

\* bestLeaderboardStreak finds the longest run.
LEMMA BestStreakIs ==
  ASSUME NEW start \in Int, NEW end \in Int, NEW occs, today \in Int
  PROVE  bestLeaderboardStreak(start, end, occs)
           = Top(Runs({d \in Int : /\ \E o \in occs : o.due = d
                                   /\ \A o \in occs : o.due = d => IsCompleted(o)},
                      Earlier(end, today), start, 0))
<1> DEFINE P == {d \in Int : /\ \E o \in occs : o.due = d
                             /\ \A o \in occs : o.due = d => IsCompleted(o)}
           last == Earlier(end, today)
           Perfect(d) == LET due == {o \in occs : o.due = d}
                         IN  due # {} /\ \A o \in due : IsCompleted(o)
           Step(f) == [d \in Int |->
                         [current \in Nat |-> IF d > last THEN current
                                              ELSE IF Perfect(d) THEN f[d + 1][current + 1]
                                              ELSE Later(current, f[d + 1][0])]]
           best == CHOOSE f : f = Step(f)
           sol == [d \in Int |-> [c \in Nat |-> Top(Runs(P, last, d, c))]]
<1>1. last \in Int
  BY DEF Earlier
<1>2. \A d \in Int : Perfect(d) <=> d \in P
  OBVIOUS
<1> HIDE DEF P, last, Perfect
<1>3. sol = Step(sol)
  <2>1. ASSUME NEW d \in Int, NEW c \in Nat
        PROVE  sol[d][c] = IF d > last THEN c
                           ELSE IF Perfect(d) THEN sol[d + 1][c + 1]
                           ELSE Later(c, sol[d + 1][0])
    <3>1. d + 1 \in Int /\ c + 1 \in Nat /\ 0 \in Nat
      OBVIOUS
    <3> QED
      BY <1>1, <1>2, <3>1, RunsStep
  <2> HIDE DEF sol
  <2>2. sol = [d \in Int |-> [c \in Nat |-> sol[d][c]]]
    BY DEF sol
  <2> QED
    BY <2>1, <2>2
<1> HIDE DEF sol
<1>4. best = Step(best)
  BY <1>3
<1> HIDE DEF best
<1>5. \A d \in Int : best[d] = sol[d]
  <2>1. last + 1 \in Int
    BY <1>1
  <2>2. \A d \in Int : d >= last + 1 => best[d] = sol[d]
    BY <1>1, <1>3, <1>4
  <2>3. \A d \in Int : best[d + 1] = sol[d + 1] => best[d] = sol[d]
    BY <1>3, <1>4
  <2> HIDE DEF Step
  <2> QED
    BY <2>1, <2>2, <2>3, Downwards
<1>6. bestLeaderboardStreak(start, end, occs) = best[start][0]
  BY DEF bestLeaderboardStreak, best, last, Perfect
<1> QED
  BY <1>5, <1>6 DEF sol, P, last

-----------------------------------------------------------------------------
(***************************************************************************)
(* The leaderboard.                                                        *)
(***************************************************************************)

Arranged(R, S, N, list) ==
  /\ Listed(list) = list /\ Len(list) = N /\ DOMAIN list = 1 .. N
  /\ list = [n \in 1 .. N |-> list[n]]
  /\ \A n \in 1 .. N : list[n] \in S
  /\ \A m, n \in 1 .. N : m < n <=> <<list[m], list[n]>> \in R
  /\ \A x \in S : \E n \in 1 .. N : list[n] = x

\* A list in which each element has as many before it as its place says is sorted.
LEMMA Sorted ==
  ASSUME NEW S, IsFiniteSet(S), NEW R, StrictlyOrders(R, S), NEW list, Placed(R, S, list)
  PROVE  Arranged(R, S, Cardinality(S), list)
<1>1. PICK N \in Nat : N = Cardinality(S)
  BY FS_CardinalityType
<1>2. list = [n \in 1 .. N |-> list[n]]
  BY <1>1 DEF Placed
<1>3. Listed(list) = list /\ Len(list) = N /\ DOMAIN list = 1 .. N
  BY <1>1, <1>2, ListedIs
<1>4. \A n \in 1 .. N : list[n] \in S
  BY <1>1 DEF Placed
<1>5. /\ \A m, n \in 1 .. Cardinality(S) : m < n <=> <<list[m], list[n]>> \in R
      /\ \A x \in S : \E n \in 1 .. Cardinality(S) : list[n] = x
  BY InPlaces
<1> QED
  BY <1>1, <1>2, <1>3, <1>4, <1>5 DEF Arranged

LEMMA UpTo ==
  ASSUME NEW k \in Nat
  PROVE  IsFiniteSet(1 .. k) /\ Cardinality(1 .. k) = k
<1>1. 1 \in Int /\ k \in Int
  OBVIOUS
<1>2. IsFiniteSet(1 .. k) /\ Cardinality(1 .. k) = IF 1 > k THEN 0 ELSE k - 1 + 1
  BY <1>1, FS_Interval, Zenon
<1> QED
  BY <1>2

LEMMA PlacesUpTo ==
  ASSUME NEW k \in Nat, NEW R, StrictlyOrders(R, 1 .. k)
  PROVE  \A n \in 1 .. k : \E x \in 1 .. k : Cardinality(Below(R, 1 .. k, x)) = n - 1
<1> DEFINE S == 1 .. k
<1>1. IsFiniteSet(S) /\ StrictlyOrders(R, S)
  BY UpTo
<1>2. Cardinality(S) = k
  BY UpTo
<1> HIDE DEF S
<1>3. \A n \in 1 .. Cardinality(S) : \E x \in S : Cardinality(Below(R, S, x)) = n - 1
  BY <1>1, OrderedPlaces
<1> QED
  BY <1>2, <1>3 DEF S

\* If rows with the same score have the same rows above them, and any other row
\* has all that precede it above it, then a rank counts the rows above.
Follow(N, scores, B) ==
  /\ \A n \in 2 .. N : scores[n] = scores[n - 1]
       => \A m \in 1 .. N : <<m, n>> \in B <=> <<m, n - 1>> \in B
  /\ \A n \in 2 .. N : scores[n] # scores[n - 1]
       => \A m \in 1 .. N : <<m, n>> \in B <=> m < n
  /\ \A m \in 1 .. N : <<m, 1>> \notin B

RanksIn(N, rows, B) ==
  [n \in 1 .. N |-> [rank |-> 1 + Cardinality({m \in 1 .. N : <<m, n>> \in B}), row |-> rows[n]]]

\* assignLeaderboardRanks gives each row one more than the number of rows above it.
LEMMA RanksAre ==
  ASSUME NEW N \in Nat, NEW rows, rows = [n \in 1 .. N |-> rows[n]],
         NEW scores, NEW B, Follow(N, scores, B)
  PROVE  assignLeaderboardRanks(rows, scores) = RanksIn(N, rows, B)
<1> DEFINE above(n) == {m \in 1 .. N : <<m, n>> \in B}
           Step(f) == [n \in 1 .. N |->
                         IF n > 1 /\ scores[n] = scores[n - 1] THEN f[n - 1] ELSE n]
           rank == CHOOSE f : f = Step(f)
           sol == [n \in 1 .. N |-> 1 + Cardinality(above(n))]
<1>1. sol = Step(sol)
  <2>1. ASSUME NEW n \in 1 .. N, n > 1, scores[n] = scores[n - 1]
        PROVE  above(n) = above(n - 1) /\ n - 1 \in 1 .. N
    BY <2>1 DEF Follow
  <2>2. ASSUME NEW n \in 1 .. N, n > 1, scores[n] # scores[n - 1]
        PROVE  above(n) = 1 .. n - 1
    BY <2>2 DEF Follow
  <2>3. above(1) = {}
    BY DEF Follow
  <2> HIDE DEF above
  <2>4. ASSUME NEW n \in 1 .. N
        PROVE  sol[n] = IF n > 1 /\ scores[n] = scores[n - 1] THEN sol[n - 1] ELSE n
    <3>1. CASE n > 1 /\ scores[n] = scores[n - 1]
      BY <2>1, <3>1
    <3>2. CASE n > 1 /\ scores[n] # scores[n - 1]
      <4>1. PICK k \in Nat : k = n - 1
        BY <3>2
      <4>2. above(n) = 1 .. k
        BY <2>2, <3>2, <4>1
      <4>3. Cardinality(1 .. k) = k
        BY <4>1, UpTo
      <4> QED
        BY <3>2, <4>1, <4>2, <4>3
    <3>3. CASE ~(n > 1)
      <4>1. n = 1
        BY <3>3
      <4>2. Cardinality(above(n)) = 0
        BY <2>3, <4>1, FS_EmptySet
      <4> QED
        BY <4>1, <4>2
    <3> QED
      BY <3>1, <3>2, <3>3
  <2>5. sol = [n \in 1 .. N |-> sol[n]]
    OBVIOUS
  <2> HIDE DEF sol
  <2> QED
    BY <2>4, <2>5
<1> HIDE DEF sol, above
<1>2. rank = Step(rank)
  BY <1>1
<1> HIDE DEF rank
<1>3. \A n \in 1 .. N : rank[n] = sol[n]
  <2> DEFINE S == {n \in 1 .. N : rank[n] # sol[n]}
  <2>1. ASSUME S # {} PROVE FALSE
    <3>1. S \subseteq Nat
      OBVIOUS
    <3>2. PICK n \in S : \A m \in S : n <= m
      BY <2>1, <3>1, LeastNat
    <3>3. n > 1 => n - 1 \in 1 .. N /\ n - 1 \notin S
      BY <3>2
    <3>4. n > 1 => rank[n - 1] = sol[n - 1]
      BY <3>3
    <3>5. n \in 1 .. N /\ rank[n] # sol[n]
      BY <3>2
    <3> QED
      BY <1>1, <1>2, <3>4, <3>5
  <2> QED
    BY <2>1
<1>4. DOMAIN rows = 1 .. N
  OBVIOUS
<1> DEFINE ranked == [n \in 1 .. N |-> [rank |-> rank[n], row |-> rows[n]]]
<1>5. assignLeaderboardRanks(rows, scores) = Listed(ranked)
  BY <1>4 DEF assignLeaderboardRanks, rank
<1>6. ranked = [n \in 1 .. N |-> [rank |-> sol[n], row |-> rows[n]]]
  BY <1>3
<1>7. ranked = [n \in 1 .. N |-> ranked[n]]
  OBVIOUS
<1> HIDE DEF ranked
<1>8. Listed(ranked) = ranked
  BY <1>7, ListedIs
<1> QED
  BY <1>5, <1>6, <1>8 DEF sol, above, RanksIn

LEMMA PercentTyped ==
  ASSUME NEW done \in Nat, NEW total \in Nat
  PROVE  percent(done, total) \in Int
BY DEF percent

\* The rows of the leaderboard of a period.
BoardPeriod(kind) == parseLeaderboardPeriod(kind, NULL, AppSettings.weekStart)

BoardRow(kind, u) ==
  LET from  == BoardPeriod(kind).start
      until == BoardPeriod(kind).countUntil
  IN  leaderboardRowFromOccurrences(u, OccurrencesBetween(u, from, until), from, until)

LEMMA PeriodTyped ==
  ASSUME TablesTypeOK, NEW kind
  PROVE  /\ BoardPeriod(kind).start \in Int /\ BoardPeriod(kind).countUntil \in Int
         /\ BoardPeriod(kind).start <= today /\ BoardPeriod(kind).countUntil = today
         /\ kind = "month" => BoardPeriod(kind).start = MonthStart(today)
         /\ kind # "month" => BoardPeriod(kind).start = WeekStart
<1>1. today \in Int /\ AppSettings.weekStart \in Weekdays
  BY RowsAndDates, SettingsLegal
<1>2. WeekStart \in Int /\ WeekStart <= today /\ today <= WeekStart + 6
  BY <1>1, WeekStarts DEF WeekStart
<1>3. /\ MonthStart(today) \in Int /\ MonthEnd(today) \in Int
      /\ MonthStart(today) <= today /\ today <= MonthEnd(today)
  <2>1. PICK mn \in Int : mn = MonthOf(today) /\ FirstOf(mn) <= today /\ today < FirstOf(mn + 1)
    BY <1>1, MonthOfDay
  <2>2. FirstOf(mn) \in Int /\ FirstOf(mn + 1) \in Int
    BY MonthLengths
  <2> QED
    BY <1>1, <2>1, <2>2 DEF MonthStart, MonthEnd
<1>4. CASE kind = "month"
  BY <1>1, <1>3, <1>4 DEF BoardPeriod, parseLeaderboardPeriod, Earlier
<1>5. CASE kind # "month"
  BY <1>1, <1>2, <1>5 DEF BoardPeriod, parseLeaderboardPeriod, Earlier, WeekStart
<1> QED
  BY <1>4, <1>5

\* The numbers of a row of the leaderboard.
LEMMA BoardRowTyped ==
  ASSUME TablesTypeOK, NEW kind, NEW u
  PROVE  /\ BoardRow(kind, u).user = u
         /\ BoardRow(kind, u).completed \in Nat /\ BoardRow(kind, u).due \in Nat
         /\ BoardRow(kind, u).percent \in Int /\ BoardRow(kind, u).bestStreak \in Nat
<1> DEFINE from == BoardPeriod(kind).start
           until == BoardPeriod(kind).countUntil
           occs == OccurrencesBetween(u, from, until)
           counted == {o \in occs : /\ o.due \in from .. until /\ o.due <= today
                                    /\ o.status # "exempt"}
           done == {o \in counted : IsCompleted(o)}
<1>1. from \in Int /\ until \in Int /\ today \in Int
  BY PeriodTyped, RowsAndDates
<1>2. IsFiniteSet(occs)
  BY <1>1, OccurrencesFinite
<1>3. counted \in SUBSET occs /\ done \in SUBSET occs
  OBVIOUS
<1>4. BoardRow(kind, u) = [user       |-> u,
                           completed  |-> Cardinality(done),
                           due        |-> Cardinality(counted),
                           percent    |-> percent(Cardinality(done), Cardinality(counted)),
                           bestStreak |-> bestLeaderboardStreak(from, until, counted)]
  BY DEF BoardRow, leaderboardRowFromOccurrences
<1> HIDE DEF from, until, occs, counted, done
<1>5. Cardinality(counted) \in Nat /\ Cardinality(done) \in Nat
  BY <1>2, <1>3, FS_Subset, FS_CardinalityType
<1>6. percent(Cardinality(done), Cardinality(counted)) \in Int
  BY <1>5, PercentTyped
<1>7. bestLeaderboardStreak(from, until, counted) \in Nat
  <2>1. Earlier(until, today) \in Int
    BY <1>1 DEF Earlier
  <2>2. PICK P : bestLeaderboardStreak(from, until, counted)
                   = Top(Runs(P, Earlier(until, today), from, 0))
    <3> DEFINE P == {d \in Int : /\ \E o \in counted : o.due = d
                                 /\ \A o \in counted : o.due = d => IsCompleted(o)}
    <3>1. bestLeaderboardStreak(from, until, counted)
            = Top(Runs(P, Earlier(until, today), from, 0))
      BY <1>1, BestStreakIs
    <3> HIDE DEF P
    <3> QED
      BY <3>1
  <2>3. 0 \in Nat
    OBVIOUS
  <2> QED
    BY <1>1, <2>1, <2>2, <2>3, RunsTop
<1> QED
  BY <1>4, <1>5, <1>6, <1>7

\* The regular users, in the order of their names and then of their ids.
NameOrder ==
  {x \in Users \X Users : \/ ToLower(Name[x[1]]) < ToLower(Name[x[2]])
                          \/ ToLower(Name[x[1]]) = ToLower(Name[x[2]]) /\ x[1] < x[2]}

\* The list of users has each of them once.
LEMMA MembersListed ==
  ASSUME TablesTypeOK
  PROVE  /\ IsFiniteSet(members) /\ Cardinality(members) \in Nat
         /\ Arranged(NameOrder, members, Cardinality(members), ListActiveRegular)
<1>1. members \in SUBSET Users /\ \A u \in Users : u \in Int /\ ToLower(Name[u]) \in Int
  BY NamesAssumption DEF TablesTypeOK, ToLower
<1>2. IsFiniteSet(members) /\ Cardinality(members) \in Nat
  BY <1>1, NamesAssumption, FS_Subset, FS_CardinalityType
<1>3. StrictlyOrders(NameOrder, members)
  BY <1>1 DEF StrictlyOrders, NameOrder
<1>4. \A u \in members :
        {y \in members : \/ ToLower(Name[y]) < ToLower(Name[u])
                         \/ ToLower(Name[y]) = ToLower(Name[u]) /\ y < u}
          = Below(NameOrder, members, u)
  BY <1>1 DEF Below, NameOrder
<1> DEFINE N == Cardinality(members)
           place(n) == CHOOSE x \in members :
                         Cardinality({y \in members :
                            \/ ToLower(Name[y]) < ToLower(Name[x])
                            \/ ToLower(Name[y]) = ToLower(Name[x]) /\ y < x}) = n - 1
           list == [n \in 1 .. N |-> place(n)]
<1>5. ListActiveRegular = Listed(list)
  BY DEF ListActiveRegular, InOrder
<1>6. \A n \in 1 .. N : \E x \in members : Cardinality(Below(NameOrder, members, x)) = n - 1
  BY <1>2, <1>3, OrderedPlaces
<1>7. \A n \in 1 .. N :
        place(n) \in members /\ Cardinality(Below(NameOrder, members, place(n))) = n - 1
  <2> SUFFICES ASSUME NEW n \in 1 .. N
               PROVE  place(n) \in members
                      /\ Cardinality(Below(NameOrder, members, place(n))) = n - 1
    OBVIOUS
  <2>1. PICK x \in members : Cardinality(Below(NameOrder, members, x)) = n - 1
    BY <1>6
  <2>2. place(n) \in members
        /\ Cardinality({y \in members :
                           \/ ToLower(Name[y]) < ToLower(Name[place(n)])
                           \/ ToLower(Name[y]) = ToLower(Name[place(n)]) /\ y < place(n)}) = n - 1
    BY <1>4, <2>1
  <2> HIDE DEF place
  <2> QED
    BY <1>4, <2>2
<1> HIDE DEF place, N
<1>8. Placed(NameOrder, members, list)
  BY <1>7 DEF Placed, N
<1> HIDE DEF list
<1>9. Arranged(NameOrder, members, Cardinality(members), list)
  BY <1>2, <1>3, <1>8, Sorted
<1>10. Listed(list) = list
  BY <1>9 DEF Arranged
<1> QED
  BY <1>2, <1>5, <1>9, <1>10

LEMMA SetsAre ==
  ASSUME NEW N \in Nat, NEW users, users = [n \in 1 .. N |-> users[n]], NEW from, NEW to
  PROVE  SetsOf(users, from, to)
           = [k \in 1 .. N |-> [user |-> users[k],
                                occs |-> OccurrencesBetween(users[k], from, to)]]
<1> DEFINE f == [k \in 1 .. N |-> [user |-> users[k],
                                   occs |-> OccurrencesBetween(users[k], from, to)]]
<1>1. SetsOf(users, from, to) = Listed(f)
  BY DEF SetsOf
<1>2. f = [k \in 1 .. N |-> f[k]]
  OBVIOUS
<1> HIDE DEF f
<1> QED
  BY <1>1, <1>2, ListedIs DEF f

\* B: the pairs of rows of which the first is better.  Rows of the same score
\* keep their order.
Keeping(B, score, N) ==
  {x \in (1 .. N) \X (1 .. N) : x \in B \/ (score[x[1]] = score[x[2]] /\ x[1] < x[2])}

Scored(N, score, B) ==
  /\ \A m, n \in 1 .. N : score[m] = score[n] => <<m, n>> \notin B
  /\ \A m, n \in 1 .. N : score[m] # score[n] => <<m, n>> \in B \/ <<n, m>> \in B
  /\ \A k, m, n \in 1 .. N : score[m] = score[n] => (<<k, m>> \in B <=> <<k, n>> \in B)
  /\ \A k, m, n \in 1 .. N : score[m] = score[n] => (<<m, k>> \in B <=> <<n, k>> \in B)
  /\ \A k, m, n \in 1 .. N : <<k, m>> \in B /\ <<m, n>> \in B => <<k, n>> \in B

LEMMA KeepingOrders ==
  ASSUME NEW N \in Nat, NEW score, NEW B, Scored(N, score, B)
  PROVE  StrictlyOrders(Keeping(B, score, N), 1 .. N)
<1> DEFINE R == Keeping(B, score, N)
<1>1. \A m, n \in 1 .. N : <<m, n>> \in R <=> <<m, n>> \in B \/ (score[m] = score[n] /\ m < n)
  BY DEF Keeping
<1> HIDE DEF R
<1>2. \A m \in 1 .. N : <<m, m>> \notin R
  BY <1>1 DEF Scored
<1>3. ASSUME NEW m \in 1 .. N, NEW n \in 1 .. N, m # n
      PROVE  <<m, n>> \in R \/ <<n, m>> \in R
  <2>1. m < n \/ n < m
    BY <1>3
  <2>2. score[m] # score[n] => <<m, n>> \in B \/ <<n, m>> \in B
    BY DEF Scored
  <2> QED
    BY <1>1, <2>1, <2>2
<1>4. \A k, m, n \in 1 .. N : <<k, m>> \in R /\ <<m, n>> \in R => <<k, n>> \in R
  BY <1>1 DEF Scored
<1> QED
  BY <1>2, <1>3, <1>4 DEF StrictlyOrders, R

\* The same pairs, by place in a list.
Along(B, list, N) == {x \in (1 .. N) \X (1 .. N) : <<list[x[1]], list[x[2]]>> \in B}

\* Sorted and ranked rows, of which equals stand together.
LEMMA Ranked ==
  ASSUME NEW N \in Nat, NEW score, NEW B, Scored(N, score, B),
         NEW list, Placed(Keeping(B, score, N), 1 .. N, list),
         NEW sorted, sorted = [n \in 1 .. N |-> sorted[n]],
         NEW scores, \A n \in 1 .. N : scores[n] = score[list[n]]
  PROVE  /\ Arranged(Keeping(B, score, N), 1 .. N, N, list)
         /\ assignLeaderboardRanks(sorted, scores) = RanksIn(N, sorted, Along(B, list, N))
<1> DEFINE R == Keeping(B, score, N)
<1>1. IsFiniteSet(1 .. N) /\ Cardinality(1 .. N) = N
  BY UpTo
<1>2. StrictlyOrders(R, 1 .. N)
  BY KeepingOrders
<1>3. Arranged(R, 1 .. N, N, list)
  BY <1>1, <1>2, Sorted
<1> DEFINE C == Along(B, list, N)
<1>4. \A m, n \in 1 .. N : <<m, n>> \in C <=> <<list[m], list[n]>> \in B
  BY DEF Along
<1>5. \A n \in 1 .. N : scores[n] = score[list[n]]
  OBVIOUS
<1> HIDE DEF C
<1>6. \A n \in 1 .. N : list[n] \in 1 .. N
  BY <1>3 DEF Arranged
<1>7. ASSUME NEW m \in 1 .. N, NEW n \in 1 .. N
      PROVE  m < n <=> <<list[m], list[n]>> \in B
                         \/ (score[list[m]] = score[list[n]] /\ list[m] < list[n])
  <2>1. m < n <=> <<list[m], list[n]>> \in R
    BY <1>3 DEF Arranged
  <2> QED
    BY <1>6, <2>1 DEF Keeping
<1> HIDE DEF R
<1>8. ASSUME NEW n \in 2 .. N, scores[n] = scores[n - 1], NEW m \in 1 .. N
      PROVE  <<m, n>> \in C <=> <<m, n - 1>> \in C
  <2>1. PICK k \in 1 .. N : k = n - 1
    OBVIOUS
  <2>2. n \in 1 .. N /\ score[list[n]] = score[list[k]]
    BY <1>5, <1>8, <2>1
  <2>3. <<list[m], list[n]>> \in B <=> <<list[m], list[k]>> \in B
    BY <1>6, <2>2 DEF Scored
  <2> QED
    BY <1>4, <2>1, <2>2, <2>3
<1>9. ASSUME NEW n \in 2 .. N, scores[n] # scores[n - 1], NEW m \in 1 .. N
      PROVE  <<m, n>> \in C <=> m < n
  <2>1. PICK k \in 1 .. N : k = n - 1
    OBVIOUS
  <2>2. n \in 1 .. N /\ score[list[n]] # score[list[k]]
    BY <1>5, <1>9, <2>1
  <2>3. <<list[k], list[n]>> \in B
    BY <1>7, <2>1, <2>2
  <2>4. ASSUME m < k PROVE <<list[m], list[n]>> \in B
    <3>1. <<list[m], list[k]>> \in B \/ score[list[m]] = score[list[k]]
      BY <1>7, <2>4
    <3> QED
      BY <1>6, <2>2, <2>3, <3>1 DEF Scored
  <2>5. <<list[m], list[n]>> \in B => m < n
    BY <1>7, <2>2
  <2>6. m < n => m < k \/ m = k
    BY <2>1
  <2> QED
    BY <1>4, <2>2, <2>3, <2>4, <2>5, <2>6
<1>10. ASSUME NEW m \in 1 .. N PROVE <<m, 1>> \notin C
  <2>1. 1 \in 1 .. N /\ ~(m < 1)
    OBVIOUS
  <2> QED
    BY <1>4, <1>7, <2>1
<1>11. Follow(N, scores, C)
  BY <1>8, <1>9, <1>10 DEF Follow
<1>12. assignLeaderboardRanks(sorted, scores) = RanksIn(N, sorted, C)
  BY <1>11, RanksAre
<1> QED
  BY <1>3, <1>12 DEF R, C

BoardRows(kind) == [k \in 1 .. Cardinality(members) |-> BoardRow(kind, ListActiveRegular[k])]

\* The leaderboard has a row for each regular user.
LEMMA BoardRowsAre ==
  ASSUME TablesTypeOK, NEW kind
  PROVE  LET sets == SetsOf(ListActiveRegular, BoardPeriod(kind).start, BoardPeriod(kind).countUntil)
         IN  Listed([k \in DOMAIN sets |->
                       leaderboardRowFromOccurrences(sets[k].user, sets[k].occs,
                                                     BoardPeriod(kind).start,
                                                     BoardPeriod(kind).countUntil)])
               = BoardRows(kind)
<1> DEFINE from == BoardPeriod(kind).start
           until == BoardPeriod(kind).countUntil
           sets == SetsOf(ListActiveRegular, from, until)
<1>1. PICK N \in Nat : N = Cardinality(members)
  BY MembersListed
<1>2. ListActiveRegular = [n \in 1 .. N |-> ListActiveRegular[n]]
  BY <1>1, MembersListed DEF Arranged
<1>3. sets = [k \in 1 .. N |-> [user |-> ListActiveRegular[k],
                                occs |-> OccurrencesBetween(ListActiveRegular[k], from, until)]]
  BY <1>1, <1>2, SetsAre
<1> HIDE DEF sets
<1>4. BoardRows(kind)
        = [k \in DOMAIN sets |->
             leaderboardRowFromOccurrences(sets[k].user, sets[k].occs, from, until)]
  BY <1>1, <1>3 DEF BoardRows, BoardRow
<1>5. BoardRows(kind) = [k \in 1 .. N |-> BoardRows(kind)[k]]
  BY <1>1 DEF BoardRows
<1>6. Listed(BoardRows(kind)) = BoardRows(kind)
  BY <1>5, ListedIs
<1> QED
  BY <1>4, <1>6 DEF sets

LEMMA BoardRowsTyped ==
  ASSUME TablesTypeOK, NEW kind, NEW k \in 1 .. Cardinality(members)
  PROVE  /\ BoardRows(kind)[k].user = ListActiveRegular[k]
         /\ BoardRows(kind)[k].user \in members
         /\ BoardRows(kind)[k].user \in Nat /\ Name[BoardRows(kind)[k].user] \in Nat
         /\ ToLower(Name[BoardRows(kind)[k].user]) \in Int
         /\ BoardRows(kind)[k].completed \in Nat /\ BoardRows(kind)[k].due \in Nat
         /\ BoardRows(kind)[k].percent \in Int /\ BoardRows(kind)[k].bestStreak \in Nat
<1>1. BoardRows(kind)[k] = BoardRow(kind, ListActiveRegular[k])
  BY DEF BoardRows
<1>2. ListActiveRegular[k] \in members
  BY MembersListed DEF Arranged
<1>3. PICK u \in Users : u = ListActiveRegular[k]
  BY <1>2 DEF TablesTypeOK
<1>4. u \in Nat /\ Name[u] \in Nat /\ ToLower(Name[u]) \in Int
  BY NamesAssumption DEF ToLower
<1>5. /\ BoardRow(kind, u).user = u
      /\ BoardRow(kind, u).completed \in Nat /\ BoardRow(kind, u).due \in Nat
      /\ BoardRow(kind, u).percent \in Int /\ BoardRow(kind, u).bestStreak \in Nat
  BY BoardRowTyped
<1> QED
  BY <1>1, <1>2, <1>3, <1>4, <1>5

\* Rows of the same percentage are compared as their users are listed, or not at all.
LEMMA Ties ==
  ASSUME TablesTypeOK, NEW kind,
         NEW m \in 1 .. Cardinality(members), NEW n \in 1 .. Cardinality(members),
         NEW a, a = BoardRows(kind)[m], NEW b, b = BoardRows(kind)[n]
  PROVE  /\ a.percent > b.percent => leaderboardTieLess(a, b) /\ ~leaderboardTieLess(b, a)
         /\ a.percent = b.percent
              => (m < n <=> leaderboardTieLess(a, b) \/ (~leaderboardTieLess(b, a) /\ m < n))
<1>1. /\ a.user \in Nat /\ Name[a.user] \in Nat /\ ToLower(Name[a.user]) \in Int
      /\ a.percent \in Int /\ a.user = ListActiveRegular[m] /\ a.user \in members
  BY BoardRowsTyped
<1>2. /\ b.user \in Nat /\ Name[b.user] \in Nat /\ ToLower(Name[b.user]) \in Int
      /\ b.percent \in Int /\ b.user = ListActiveRegular[n] /\ b.user \in members
  BY BoardRowsTyped
<1>3. m < n <=> <<a.user, b.user>> \in NameOrder
  BY <1>1, <1>2, MembersListed DEF Arranged
<1>4. n < m <=> <<b.user, a.user>> \in NameOrder
  BY <1>1, <1>2, MembersListed DEF Arranged
<1>5. members \in SUBSET Users
  BY DEF TablesTypeOK
<1>6. m < n <=> \/ ToLower(Name[a.user]) < ToLower(Name[b.user])
                \/ ToLower(Name[a.user]) = ToLower(Name[b.user]) /\ a.user < b.user
  BY <1>1, <1>2, <1>3, <1>5 DEF NameOrder
<1>7. n < m <=> \/ ToLower(Name[b.user]) < ToLower(Name[a.user])
                \/ ToLower(Name[b.user]) = ToLower(Name[a.user]) /\ b.user < a.user
  BY <1>1, <1>2, <1>4, <1>5 DEF NameOrder
<1>8. Name[a.user] = Name[b.user] => ToLower(Name[a.user]) = ToLower(Name[b.user])
  OBVIOUS
<1> QED
  BY <1>1, <1>2, <1>6, <1>7, <1>8 DEF leaderboardTieLess

LEMMA CompletedOrder ==
  ASSUME TablesTypeOK, NEW kind,
         NEW m \in 1 .. Cardinality(members), NEW n \in 1 .. Cardinality(members),
         NEW a, a = BoardRows(kind)[m], NEW b, b = BoardRows(kind)[n]
  PROVE  /\ \/ CompletedBefore(a, b)
            \/ ~CompletedBefore(b, a) /\ m < n
         <=> Better(a, b) \/ (CompletedScore(a) = CompletedScore(b) /\ m < n)
<1>1. a.completed \in Nat /\ b.completed \in Nat /\ a.percent \in Int /\ b.percent \in Int
  BY BoardRowsTyped
<1>2. /\ a.percent > b.percent => leaderboardTieLess(a, b) /\ ~leaderboardTieLess(b, a)
      /\ a.percent = b.percent
           => (m < n <=> leaderboardTieLess(a, b) \/ (~leaderboardTieLess(b, a) /\ m < n))
  BY Ties
<1>3. b.percent > a.percent => leaderboardTieLess(b, a) /\ ~leaderboardTieLess(a, b)
  BY Ties
<1>4. CompletedScore(a) = CompletedScore(b) <=> a.completed = b.completed /\ a.percent = b.percent
  BY DEF CompletedScore
<1> QED
  BY <1>1, <1>2, <1>3, <1>4 DEF CompletedBefore, Better

LEMMA StreakOrder ==
  ASSUME TablesTypeOK, NEW kind,
         NEW m \in 1 .. Cardinality(members), NEW n \in 1 .. Cardinality(members),
         NEW a, a = BoardRows(kind)[m], NEW b, b = BoardRows(kind)[n]
  PROVE  /\ \/ StreakBefore(a, b)
            \/ ~StreakBefore(b, a) /\ m < n
         <=> Longer(a, b) \/ (StreakScore(a) = StreakScore(b) /\ m < n)
<1>1. a.bestStreak \in Nat /\ b.bestStreak \in Nat /\ a.completed \in Nat /\ b.completed \in Nat
      /\ a.percent \in Int /\ b.percent \in Int
  BY BoardRowsTyped
<1>2. CompletedBefore(a, b) \/ (~CompletedBefore(b, a) /\ m < n)
        <=> Better(a, b) \/ (CompletedScore(a) = CompletedScore(b) /\ m < n)
  BY CompletedOrder
<1>3. StreakScore(a) = StreakScore(b)
        <=> a.bestStreak = b.bestStreak /\ CompletedScore(a) = CompletedScore(b)
  BY DEF StreakScore, CompletedScore
<1> QED
  BY <1>1, <1>2, <1>3 DEF StreakBefore, Longer

\* A ranking has one row for each user.
Ranks(kind, ranking) ==
  /\ \A n \in DOMAIN ranking : \E u \in members : ranking[n].row = BoardRow(kind, u)
  /\ \A u \in members : \E n \in DOMAIN ranking : ranking[n].row = BoardRow(kind, u)

\* The rows sorted by a score, and their ranks by the pairs B of rows of which
\* the first has the better.
Sortable(kind, N, score, B, list, sorted, scores) ==
  /\ N = Cardinality(members) /\ Scored(N, score, B)
  /\ Placed(Keeping(B, score, N), 1 .. N, list)
  /\ sorted = [n \in 1 .. N |-> BoardRows(kind)[list[n]]]
  /\ \A n \in 1 .. N : scores[n] = score[list[n]]

RankedBy(kind, N, B, list, ranking) ==
  /\ Ranks(kind, ranking)
  /\ DOMAIN ranking = 1 .. N
  /\ \A n \in 1 .. N : /\ list[n] \in 1 .. N
                      /\ ranking[n].row = BoardRows(kind)[list[n]]
                      /\ ranking[n].rank
                           = 1 + Cardinality({m \in 1 .. N : <<list[m], list[n]>> \in B})

LEMMA RankingIs ==
  ASSUME TablesTypeOK, NEW kind, NEW N, NEW score, NEW B, NEW list, NEW sorted, NEW scores,
         Sortable(kind, N, score, B, list, sorted, scores)
  PROVE  RankedBy(kind, N, B, list, assignLeaderboardRanks(sorted, scores))
<1> DEFINE ranking == assignLeaderboardRanks(sorted, scores)
<1>0. /\ N = Cardinality(members) /\ Scored(N, score, B)
      /\ Placed(Keeping(B, score, N), 1 .. N, list)
      /\ sorted = [n \in 1 .. N |-> BoardRows(kind)[list[n]]]
      /\ \A n \in 1 .. N : scores[n] = score[list[n]]
  BY DEF Sortable
<1>1. N \in Nat
  BY <1>0, MembersListed
<1>2. sorted = [n \in 1 .. N |-> sorted[n]]
  BY <1>0
<1>3. /\ Arranged(Keeping(B, score, N), 1 .. N, N, list)
      /\ ranking = RanksIn(N, sorted, Along(B, list, N))
  BY <1>0, <1>1, <1>2, Ranked
<1> HIDE DEF ranking
<1>4. /\ \A n \in 1 .. N : list[n] \in 1 .. N
      /\ \A k \in 1 .. N : \E n \in 1 .. N : list[n] = k
  BY <1>3 DEF Arranged
<1>5. \A n \in 1 .. N :
        {m \in 1 .. N : <<m, n>> \in Along(B, list, N)} = {m \in 1 .. N : <<list[m], list[n]>> \in B}
  BY DEF Along
<1>6. DOMAIN ranking = 1 .. N
  BY <1>3 DEF RanksIn
<1>7. ASSUME NEW n \in 1 .. N
       PROVE  /\ ranking[n].row = BoardRows(kind)[list[n]]
              /\ ranking[n].rank = 1 + Cardinality({m \in 1 .. N : <<list[m], list[n]>> \in B})
  <2>1. /\ ranking[n].row = sorted[n]
        /\ ranking[n].rank = 1 + Cardinality({m \in 1 .. N : <<m, n>> \in Along(B, list, N)})
    BY <1>3 DEF RanksIn
  <2>2. sorted[n] = BoardRows(kind)[list[n]]
    BY <1>0
  <2> QED
    BY <1>5, <2>1, <2>2
<1>8. /\ \A n \in 1 .. N : BoardRows(kind)[n] = BoardRow(kind, ListActiveRegular[n])
      /\ \A n \in 1 .. N : ListActiveRegular[n] \in members
      /\ \A u \in members : \E n \in 1 .. N : ListActiveRegular[n] = u
  BY <1>0, MembersListed DEF BoardRows, Arranged
<1>9. Ranks(kind, ranking)
  <2>1. ASSUME NEW n \in DOMAIN ranking PROVE \E u \in members : ranking[n].row = BoardRow(kind, u)
    <3>1. n \in 1 .. N /\ list[n] \in 1 .. N
      BY <1>4, <1>6
    <3>2. ranking[n].row = BoardRow(kind, ListActiveRegular[list[n]])
      BY <1>7, <1>8, <3>1
    <3> QED
      BY <1>8, <3>1, <3>2
  <2>2. ASSUME NEW u \in members PROVE \E n \in DOMAIN ranking : ranking[n].row = BoardRow(kind, u)
    <3>1. PICK k \in 1 .. N : ListActiveRegular[k] = u
      BY <1>8
    <3>2. PICK n \in 1 .. N : list[n] = k
      BY <1>4
    <3>3. ranking[n].row = BoardRow(kind, u)
      BY <1>7, <1>8, <3>1, <3>2
    <3> QED
      BY <1>6, <3>3
  <2> QED
    BY <2>1, <2>2 DEF Ranks
<1> QED
  BY <1>4, <1>6, <1>7, <1>9 DEF RankedBy, ranking

\* Both rankings: a rank counts the rows of a better score.
LEMMA CompletedScored ==
  ASSUME TablesTypeOK, NEW kind, NEW N, N = Cardinality(members)
  PROVE  Scored(N, [k \in 1 .. N |-> CompletedScore(BoardRows(kind)[k])],
                {x \in (1 .. N) \X (1 .. N) : Better(BoardRows(kind)[x[1]], BoardRows(kind)[x[2]])})
<1> DEFINE r(k) == BoardRows(kind)[k]
           score == [k \in 1 .. N |-> CompletedScore(r(k))]
           B == {x \in (1 .. N) \X (1 .. N) : Better(r(x[1]), r(x[2]))}
<1>1. \A k \in 1 .. N : r(k).completed \in Nat /\ r(k).percent \in Int
  BY BoardRowsTyped
<1> HIDE DEF r
<1>2. \A m, n \in 1 .. N :
        score[m] = score[n] <=> r(m).completed = r(n).completed /\ r(m).percent = r(n).percent
  BY DEF CompletedScore
<1>3. \A m, n \in 1 .. N :
        <<m, n>> \in B <=> \/ r(m).completed > r(n).completed
                          \/ (r(m).completed = r(n).completed /\ r(m).percent > r(n).percent)
  BY DEF Better
<1> HIDE DEF score, B
<1>4. Scored(N, score, B)
  BY <1>1, <1>2, <1>3 DEF Scored
<1> QED
  BY <1>4 DEF score, B, r

LEMMA StreakScored ==
  ASSUME TablesTypeOK, NEW kind, NEW N, N = Cardinality(members)
  PROVE  Scored(N, [k \in 1 .. N |-> StreakScore(BoardRows(kind)[k])],
                {x \in (1 .. N) \X (1 .. N) : Longer(BoardRows(kind)[x[1]], BoardRows(kind)[x[2]])})
<1> DEFINE r(k) == BoardRows(kind)[k]
           score == [k \in 1 .. N |-> StreakScore(r(k))]
           B == {x \in (1 .. N) \X (1 .. N) : Longer(r(x[1]), r(x[2]))}
<1>1. \A k \in 1 .. N : r(k).completed \in Nat /\ r(k).percent \in Int /\ r(k).bestStreak \in Nat
  BY BoardRowsTyped
<1> HIDE DEF r
<1>2. \A m, n \in 1 .. N :
        score[m] = score[n] <=> /\ r(m).completed = r(n).completed /\ r(m).percent = r(n).percent
                                /\ r(m).bestStreak = r(n).bestStreak
  BY DEF StreakScore
<1>3. \A m, n \in 1 .. N :
        <<m, n>> \in B <=> \/ r(m).bestStreak > r(n).bestStreak
                          \/ /\ r(m).bestStreak = r(n).bestStreak
                             /\ \/ r(m).completed > r(n).completed
                                \/ (r(m).completed = r(n).completed /\ r(m).percent > r(n).percent)
  BY DEF Longer, Better
<1> HIDE DEF score, B
<1>4. Scored(N, score, B)
  BY <1>1, <1>2, <1>3 DEF Scored
<1> QED
  BY <1>4 DEF score, B, r

\* A ranking in which each rank is one more than the number of rows Above it.
Fair(kind, ranking, Above(_, _)) ==
  /\ Ranks(kind, ranking)
  /\ \A n \in DOMAIN ranking :
       ranking[n].rank = 1 + Cardinality({m \in DOMAIN ranking : Above(ranking[m].row, ranking[n].row)})

\* A board shows its rows in both orders.
LEMMA BoardShows ==
  ASSUME TablesTypeOK, NEW kind
  PROVE  /\ buildLeaderboard(kind, NULL).primary = primaryRows(BoardRows(kind))
         /\ buildLeaderboard(kind, NULL).streak = streakRows(BoardRows(kind))
<1> DEFINE from == BoardPeriod(kind).start
           until == BoardPeriod(kind).countUntil
           sets == SetsOf(ListActiveRegular, from, until)
           board == buildLeaderboardRows(sets, from, until)
<1>1. board.primary = primaryRows(BoardRows(kind)) /\ board.streak = streakRows(BoardRows(kind))
  BY BoardRowsAre DEF buildLeaderboardRows, Rankings
<1>2. buildLeaderboard(kind, NULL).primary = board.primary /\ buildLeaderboard(kind, NULL).streak = board.streak
  BY DEF buildLeaderboard, OverPeriod, BoardPeriod
<1> QED
  BY <1>1, <1>2

\* The ranking by what is completed.
LEMMA PrimaryFair ==
  ASSUME TablesTypeOK, NEW kind
  PROVE  Fair(kind, primaryRows(BoardRows(kind)), Better)
<1>1. PICK N \in Nat : N = Cardinality(members)
  BY MembersListed
<1> DEFINE rows == BoardRows(kind)
           score == [k \in 1 .. N |-> CompletedScore(rows[k])]
           B == {x \in (1 .. N) \X (1 .. N) : Better(rows[x[1]], rows[x[2]])}
           R == Keeping(B, score, N)
           P(y, x) == \/ CompletedBefore(rows[y], rows[x])
                      \/ ~CompletedBefore(rows[x], rows[y]) /\ y < x
           place(n) == CHOOSE x \in DOMAIN rows : Cardinality({y \in DOMAIN rows : P(y, x)}) = n - 1
           list == [n \in 1 .. Cardinality(DOMAIN rows) |-> place(n)]
           order == Listed(list)
           sorted == Listed([n \in DOMAIN order |-> rows[order[n]]])
           scores == Listed([n \in DOMAIN sorted |-> CompletedScore(sorted[n])])
<1>2. DOMAIN rows = 1 .. N /\ Cardinality(1 .. N) = N /\ IsFiniteSet(1 .. N)
  BY <1>1, UpTo DEF BoardRows
<1> HIDE DEF rows
<1>3. primaryRows(rows) = assignLeaderboardRanks(sorted, scores)
  BY DEF primaryRows, Ranking, InOrder
<1>4. \A x \in 1 .. N : {y \in DOMAIN rows : P(y, x)} = Below(R, 1 .. N, x)
  <2>1. ASSUME NEW x \in 1 .. N, NEW y \in 1 .. N
        PROVE  P(y, x) <=> <<y, x>> \in R
    <3>1. /\ \/ CompletedBefore(rows[y], rows[x])
             \/ ~CompletedBefore(rows[x], rows[y]) /\ y < x
          <=> Better(rows[y], rows[x])
                \/ (CompletedScore(rows[y]) = CompletedScore(rows[x]) /\ y < x)
      BY <1>1, CompletedOrder DEF rows
    <3> QED
      BY <3>1 DEF Keeping
  <2> HIDE DEF P, R
  <2> QED
    BY <1>2, <2>1 DEF Below
<1> HIDE DEF P
<1>5. Scored(N, score, B)
  BY <1>1, CompletedScored DEF rows
<1> HIDE DEF score, B
<1>6. StrictlyOrders(R, 1 .. N)
  BY <1>1, <1>5, KeepingOrders
<1> HIDE DEF R
<1>7. \A n \in 1 .. N : \E x \in 1 .. N : Cardinality(Below(R, 1 .. N, x)) = n - 1
  BY <1>6, PlacesUpTo
<1>8. \A n \in 1 .. N : place(n) \in 1 .. N /\ Cardinality(Below(R, 1 .. N, place(n))) = n - 1
  <2> SUFFICES ASSUME NEW n \in 1 .. N
               PROVE  place(n) \in 1 .. N /\ Cardinality(Below(R, 1 .. N, place(n))) = n - 1
    OBVIOUS
  <2>1. PICK x \in 1 .. N : Cardinality(Below(R, 1 .. N, x)) = n - 1
    BY <1>7
  <2>2. place(n) \in 1 .. N /\ Cardinality({y \in DOMAIN rows : P(y, place(n))}) = n - 1
    BY <1>2, <1>4, <2>1
  <2> HIDE DEF place
  <2> QED
    BY <1>4, <2>2
<1> HIDE DEF place
<1>9. Placed(R, 1 .. N, list) /\ list = [n \in 1 .. N |-> list[n]]
  BY <1>2, <1>8 DEF Placed
<1> HIDE DEF list
<1>10. Arranged(R, 1 .. N, N, list)
  BY <1>2, <1>6, <1>9, Sorted
<1>11. sorted = [n \in 1 .. N |-> rows[list[n]]]
  <2> DEFINE f == [n \in 1 .. N |-> rows[list[n]]]
  <2>1. sorted = Listed(f)
    BY <1>10 DEF Arranged
  <2>2. f = [n \in 1 .. N |-> f[n]]
    OBVIOUS
  <2> HIDE DEF f
  <2> QED
    BY <2>1, <2>2, ListedIs DEF f
<1> HIDE DEF sorted
<1>12. \A n \in 1 .. N : scores[n] = score[list[n]]
  <2> DEFINE f == [n \in 1 .. N |-> CompletedScore(sorted[n])]
  <2>1. scores = Listed(f)
    BY <1>11
  <2>2. f = [n \in 1 .. N |-> f[n]]
    OBVIOUS
  <2> HIDE DEF f
  <2>3. scores = f
    BY <2>1, <2>2, ListedIs
  <2> QED
    BY <1>10, <1>11, <2>3 DEF f, score, Arranged
<1> HIDE DEF scores
<1> DEFINE ranking == primaryRows(rows)
<1>13. Sortable(kind, N, score, B, list, sorted, scores)
  BY <1>1, <1>5, <1>9, <1>11, <1>12 DEF Sortable, R, rows
<1>14. RankedBy(kind, N, B, list, ranking)
  BY <1>3, <1>13, RankingIs
<1> HIDE DEF ranking
<1>15. ASSUME NEW n \in 1 .. N
       PROVE  {m \in DOMAIN ranking : Better(ranking[m].row, ranking[n].row)}
                = {m \in 1 .. N : <<list[m], list[n]>> \in B}
  BY <1>14 DEF B, RankedBy, rows
<1> QED
  BY <1>14, <1>15 DEF Fair, ranking, rows, RankedBy

\* The ranking by the longest streak.
LEMMA StreakFair ==
  ASSUME TablesTypeOK, NEW kind
  PROVE  Fair(kind, streakRows(BoardRows(kind)), Longer)
<1>1. PICK N \in Nat : N = Cardinality(members)
  BY MembersListed
<1> DEFINE rows == BoardRows(kind)
           score == [k \in 1 .. N |-> StreakScore(rows[k])]
           B == {x \in (1 .. N) \X (1 .. N) : Longer(rows[x[1]], rows[x[2]])}
           R == Keeping(B, score, N)
           P(y, x) == \/ StreakBefore(rows[y], rows[x])
                      \/ ~StreakBefore(rows[x], rows[y]) /\ y < x
           place(n) == CHOOSE x \in DOMAIN rows : Cardinality({y \in DOMAIN rows : P(y, x)}) = n - 1
           list == [n \in 1 .. Cardinality(DOMAIN rows) |-> place(n)]
           order == Listed(list)
           sorted == Listed([n \in DOMAIN order |-> rows[order[n]]])
           scores == Listed([n \in DOMAIN sorted |-> StreakScore(sorted[n])])
<1>2. DOMAIN rows = 1 .. N /\ Cardinality(1 .. N) = N /\ IsFiniteSet(1 .. N)
  BY <1>1, UpTo DEF BoardRows
<1> HIDE DEF rows
<1>3. streakRows(rows) = assignLeaderboardRanks(sorted, scores)
  BY DEF streakRows, Ranking, InOrder
<1>4. \A x \in 1 .. N : {y \in DOMAIN rows : P(y, x)} = Below(R, 1 .. N, x)
  <2>1. ASSUME NEW x \in 1 .. N, NEW y \in 1 .. N
        PROVE  P(y, x) <=> <<y, x>> \in R
    <3>1. /\ \/ StreakBefore(rows[y], rows[x])
             \/ ~StreakBefore(rows[x], rows[y]) /\ y < x
          <=> Longer(rows[y], rows[x])
                \/ (StreakScore(rows[y]) = StreakScore(rows[x]) /\ y < x)
      BY <1>1, StreakOrder DEF rows
    <3> QED
      BY <3>1 DEF Keeping
  <2> HIDE DEF P, R
  <2> QED
    BY <1>2, <2>1 DEF Below
<1> HIDE DEF P
<1>5. Scored(N, score, B)
  BY <1>1, StreakScored DEF rows
<1> HIDE DEF score, B
<1>6. StrictlyOrders(R, 1 .. N)
  BY <1>1, <1>5, KeepingOrders
<1> HIDE DEF R
<1>7. \A n \in 1 .. N : \E x \in 1 .. N : Cardinality(Below(R, 1 .. N, x)) = n - 1
  BY <1>6, PlacesUpTo
<1>8. \A n \in 1 .. N : place(n) \in 1 .. N /\ Cardinality(Below(R, 1 .. N, place(n))) = n - 1
  <2> SUFFICES ASSUME NEW n \in 1 .. N
               PROVE  place(n) \in 1 .. N /\ Cardinality(Below(R, 1 .. N, place(n))) = n - 1
    OBVIOUS
  <2>1. PICK x \in 1 .. N : Cardinality(Below(R, 1 .. N, x)) = n - 1
    BY <1>7
  <2>2. place(n) \in 1 .. N /\ Cardinality({y \in DOMAIN rows : P(y, place(n))}) = n - 1
    BY <1>2, <1>4, <2>1
  <2> HIDE DEF place
  <2> QED
    BY <1>4, <2>2
<1> HIDE DEF place
<1>9. Placed(R, 1 .. N, list) /\ list = [n \in 1 .. N |-> list[n]]
  BY <1>2, <1>8 DEF Placed
<1> HIDE DEF list
<1>10. Arranged(R, 1 .. N, N, list)
  BY <1>2, <1>6, <1>9, Sorted
<1>11. sorted = [n \in 1 .. N |-> rows[list[n]]]
  <2> DEFINE f == [n \in 1 .. N |-> rows[list[n]]]
  <2>1. sorted = Listed(f)
    BY <1>10 DEF Arranged
  <2>2. f = [n \in 1 .. N |-> f[n]]
    OBVIOUS
  <2> HIDE DEF f
  <2> QED
    BY <2>1, <2>2, ListedIs DEF f
<1> HIDE DEF sorted
<1>12. \A n \in 1 .. N : scores[n] = score[list[n]]
  <2> DEFINE f == [n \in 1 .. N |-> StreakScore(sorted[n])]
  <2>1. scores = Listed(f)
    BY <1>11
  <2>2. f = [n \in 1 .. N |-> f[n]]
    OBVIOUS
  <2> HIDE DEF f
  <2>3. scores = f
    BY <2>1, <2>2, ListedIs
  <2> QED
    BY <1>10, <1>11, <2>3 DEF f, score, Arranged
<1> HIDE DEF scores
<1> DEFINE ranking == streakRows(rows)
<1>13. Sortable(kind, N, score, B, list, sorted, scores)
  BY <1>1, <1>5, <1>9, <1>11, <1>12 DEF Sortable, R, rows
<1>14. RankedBy(kind, N, B, list, ranking)
  BY <1>3, <1>13, RankingIs
<1> HIDE DEF ranking
<1>15. ASSUME NEW n \in 1 .. N
       PROVE  {m \in DOMAIN ranking : Longer(ranking[m].row, ranking[n].row)}
                = {m \in 1 .. N : <<list[m], list[n]>> \in B}
  BY <1>14 DEF B, RankedBy, rows
<1> QED
  BY <1>14, <1>15 DEF Fair, ranking, rows, RankedBy

\* In every state a rank of the leaderboard is one more than the number of users
\* with a better score, in both of its rankings, however many users share a
\* score and whatever the stable sort does with names that differ in case only.
THEOREM RanksCountBetter == TrackerSpec => []RanksFair
<1>1. TablesTypeOK => RanksFair
  <2> SUFFICES ASSUME TablesTypeOK, NEW kind \in {"week", "month"}
               PROVE  RanksOf(buildLeaderboard(kind, NULL))
    BY DEF RanksFair
  <2>1. /\ Fair(kind, buildLeaderboard(kind, NULL).primary, Better)
        /\ Fair(kind, buildLeaderboard(kind, NULL).streak, Longer)
    BY BoardShows, PrimaryFair, StreakFair
  <2> QED
    BY <2>1 DEF Fair, RanksOf
<1> QED
  BY <1>1, TrackerTablesCorrect, PTL

-----------------------------------------------------------------------------
(***************************************************************************)
(* The streak of the dashboard.                                            *)
(***************************************************************************)

\* How many days in a row, from k days ago back, have been done: D holds the
\* distances of those that have.
InRow(D, k) == {n \in Nat : k + n <= 365 /\ AllIn(D, k, k + n - 1)}

LEMMA BackTop ==
  ASSUME NEW D, NEW k \in 0 .. 365
  PROVE  /\ InRow(D, k) \subseteq Nat
         /\ Top(InRow(D, k)) \in InRow(D, k)
         /\ \A m \in InRow(D, k) : m <= Top(InRow(D, k))
<1>1. InRow(D, k) \subseteq Nat
  BY DEF InRow
<1>2. 0 \in InRow(D, k)
  BY DEF InRow, AllIn
<1>3. \A m \in InRow(D, k) : m <= 365
  BY DEF InRow
<1> QED
  BY <1>1, <1>2, <1>3, TopExists

\* One turn of the loop of the streak.
LEMMA BackStep ==
  ASSUME NEW D, NEW k \in 0 .. 365
  PROVE  Top(InRow(D, k)) = IF k = 365 THEN 0
                            ELSE IF k \in D THEN 1 + Top(InRow(D, k + 1)) ELSE 0
<1>1. InRow(D, k) \subseteq Nat /\ 0 \in InRow(D, k)
  BY DEF InRow, AllIn
<1>2. CASE k = 365
  <2>1. \A m \in InRow(D, k) : m <= 0
    BY <1>2 DEF InRow
  <2> QED
    BY <1>1, <1>2, <2>1, TopIs
<1>3. CASE k # 365 /\ k \in D
  <2>1. k + 1 \in 0 .. 365
    BY <1>3
  <2>2. PICK top \in Nat : /\ top = Top(InRow(D, k + 1)) /\ top \in InRow(D, k + 1)
                           /\ \A m \in InRow(D, k + 1) : m <= top
    BY <2>1, BackTop
  <2>3. 1 + top \in InRow(D, k)
    <3>1. k + 1 + top <= 365 /\ AllIn(D, k + 1, k + 1 + top - 1)
      BY <2>2 DEF InRow
    <3>2. AllIn(D, k, k + (1 + top) - 1)
      BY <1>3, <3>1 DEF AllIn
    <3> QED
      BY <3>1, <3>2 DEF InRow
  <2>4. ASSUME NEW m \in InRow(D, k) PROVE m <= 1 + top
    <3>0. m \in Nat /\ k + m <= 365 /\ AllIn(D, k, k + m - 1)
      BY DEF InRow
    <3>1. CASE m = 0
      BY <3>1
    <3>2. CASE m # 0
      <4>1. m - 1 \in Nat /\ (k + 1) + (m - 1) <= 365 /\ AllIn(D, k + 1, (k + 1) + (m - 1) - 1)
        BY <3>0, <3>2 DEF AllIn
      <4>2. m - 1 \in InRow(D, k + 1)
        BY <4>1 DEF InRow
      <4>3. m - 1 <= top
        BY <2>2, <4>2
      <4> QED
        BY <3>0, <4>3
    <3> QED
      BY <3>1, <3>2
  <2>5. Top(InRow(D, k)) = 1 + top
    BY <1>1, <2>3, <2>4, TopIs
  <2> QED
    BY <1>3, <2>2, <2>5
<1>4. CASE k # 365 /\ k \notin D
  <2>1. \A m \in InRow(D, k) : m <= 0
    <3> SUFFICES ASSUME NEW m \in InRow(D, k), m > 0 PROVE FALSE
      BY <1>1
    <3>1. k \in k .. k + m - 1
      BY <1>1
    <3> QED
      BY <1>4, <3>1 DEF InRow, AllIn
  <2> QED
    BY <1>1, <1>4, <2>1, TopIs
<1> QED
  BY <1>2, <1>3, <1>4

\* The streak consists of done days, up to today or, if today is not done,
\* up to yesterday.
LEMMA StreakIs ==
  ASSUME NEW u
  PROVE  /\ Streak(u) \in Nat
         /\ AllDone(OccurrencesOn(u, today - 0))
              => \A k \in 0 .. Streak(u) - 1 : AllDone(OccurrencesOn(u, today - k))
         /\ ~AllDone(OccurrencesOn(u, today - 0))
              => \A k \in 1 .. Streak(u) : AllDone(OccurrencesOn(u, today - k))
<1> DEFINE done(k) == AllDone(OccurrencesOn(u, today - k))
           D == {k \in 0 .. 365 : done(k)}
           Step(f) == [offset \in 0 .. 365 |->
                         IF offset = 365 THEN 0
                         ELSE IF done(offset) THEN 1 + f[offset + 1]
                         ELSE IF offset = 0 THEN f[1]
                         ELSE 0]
           from == CHOOSE f : f = Step(f)
           sol == [k \in 0 .. 365 |-> IF k = 0 /\ k \notin D THEN Top(InRow(D, 1))
                                      ELSE Top(InRow(D, k))]
<1>1. Streak(u) = from[0]
  BY DEF Streak
<1> HIDE DEF done
<1>2. \A k \in 0 .. 365 : k \in D <=> done(k)
  OBVIOUS
<1> DEFINE T(k) == Top(InRow(D, k))
<1>3. \A k \in 0 .. 365 : T(k) = IF k = 365 THEN 0
                                 ELSE IF k \in D THEN 1 + T(k + 1) ELSE 0
  <2> HIDE DEF D
  <2> QED
    BY BackStep
<1>4. sol = [k \in 0 .. 365 |-> IF k = 0 /\ k \notin D THEN T(1) ELSE T(k)]
  OBVIOUS
<1>5. \A k \in 0 .. 365 : T(k) \in Nat /\ T(k) \in InRow(D, k)
  <2> HIDE DEF D
  <2> QED
    BY BackTop
<1> HIDE DEF T, sol, D
<1>6. sol = Step(sol)
  <2>1. ASSUME NEW k \in 0 .. 365
        PROVE  sol[k] = IF k = 365 THEN 0
                        ELSE IF done(k) THEN 1 + sol[k + 1]
                        ELSE IF k = 0 THEN sol[1]
                        ELSE 0
    <3>1. k # 365 => k + 1 \in 0 .. 365 /\ k + 1 # 0
      OBVIOUS
    <3>2. 1 \in 0 .. 365 /\ 1 # 0
      OBVIOUS
    <3> QED
      BY <1>2, <1>3, <1>4, <3>1, <3>2
  <2>2. sol = [k \in 0 .. 365 |-> sol[k]]
    BY <1>4
  <2>3. \A k \in 0 .. 365 : sol[k] = Step(sol)[k]
    BY <2>1
  <2>4. Step(sol) = [k \in 0 .. 365 |-> Step(sol)[k]]
    OBVIOUS
  <2> HIDE DEF Step
  <2> QED
    BY <2>2, <2>3, <2>4
<1>7. from = Step(from)
  <2> HIDE DEF Step
  <2> QED
    BY <1>6
<1> HIDE DEF from
<1>8. \A k \in 0 .. 365 :
         /\ from[k] = IF k = 365 THEN 0
                      ELSE IF done(k) THEN 1 + from[k + 1]
                      ELSE IF k = 0 THEN from[1]
                      ELSE 0
         /\ sol[k] = IF k = 365 THEN 0
                     ELSE IF done(k) THEN 1 + sol[k + 1]
                     ELSE IF k = 0 THEN sol[1]
                     ELSE 0
  BY <1>6, <1>7
<1> HIDE DEF Step
<1>9. \A k \in 0 .. 365 : from[k] = sol[k]
  <2> DEFINE S == {n \in 0 .. 365 : from[365 - n] # sol[365 - n]}
  <2>1. ASSUME S # {} PROVE FALSE
    <3>1. S \subseteq Nat
      OBVIOUS
    <3>2. PICK n \in S : \A m \in S : n <= m
      BY <2>1, <3>1, LeastNat
    <3>2a. n \in 0 .. 365 /\ from[365 - n] # sol[365 - n]
      OBVIOUS
    <3>1a. \A m \in 0 .. 365 : m \notin S => from[365 - m] = sol[365 - m]
      OBVIOUS
    <3> HIDE DEF S
    <3>3. n # 0 => n - 1 \in 0 .. 365 /\ n - 1 \notin S
      <4> SUFFICES ASSUME n # 0, n - 1 \in S PROVE FALSE
        BY <3>2a
      <4> QED
        BY <3>2a, <3>2
    <3>4. n # 0 => from[365 - (n - 1)] = sol[365 - (n - 1)]
      BY <3>3, <3>1a
    <3>5. PICK k \in 0 .. 365 : k = 365 - n /\ from[k] # sol[k]
      BY <3>2a
    <3>6. k # 365 => from[k + 1] = sol[k + 1]
      <4>1. k # 365 => n # 0 /\ 365 - (n - 1) = k + 1
        BY <3>2a, <3>5
      <4> QED
        BY <3>4, <4>1
    <3>7. k # 0
      <4>1. ASSUME k = 0 PROVE FALSE
        <5>1. from[1] = sol[1]
          BY <3>6, <4>1
        <5> QED
          BY <1>8, <3>5, <4>1, <5>1
      <4> QED
        BY <4>1
    <3>8. /\ from[k] = IF k = 365 THEN 0 ELSE IF done(k) THEN 1 + from[k + 1] ELSE 0
          /\ sol[k]  = IF k = 365 THEN 0 ELSE IF done(k) THEN 1 + sol[k + 1] ELSE 0
      BY <1>8, <3>7
    <3> QED
      BY <3>5, <3>6, <3>8
  <2>2. S = {}
    BY <2>1
  <2> HIDE DEF S
  <2>3. ASSUME NEW k \in 0 .. 365 PROVE from[k] = sol[k]
    <3>1. 365 - k \in 0 .. 365 /\ 365 - (365 - k) = k
      OBVIOUS
    <3>2. 365 - k \notin S
      BY <2>2
    <3> QED
      BY <3>1, <3>2 DEF S
  <2> QED
    BY <2>3
<1>10. Streak(u) = IF 0 \in D THEN T(0) ELSE T(1)
  BY <1>1, <1>4, <1>9
<1>11. /\ T(0) \in Nat /\ 0 + T(0) <= 365 /\ AllIn(D, 0, 0 + T(0) - 1)
       /\ T(1) \in Nat /\ 1 + T(1) <= 365 /\ AllIn(D, 1, 1 + T(1) - 1)
  <2>1. 0 \in 0 .. 365 /\ 1 \in 0 .. 365
    OBVIOUS
  <2> QED
    BY <1>5, <2>1 DEF InRow
<1>12. D \subseteq 0 .. 365 /\ (0 \in D <=> done(0))
  <2>1. D \subseteq 0 .. 365
    BY DEF D
  <2> QED
    BY <1>2, <2>1
<1>13. \A k \in D : done(k)
  BY <1>2, <1>12
<1>14. CASE 0 \in D
  <2>1. \A k \in 0 .. T(0) - 1 : k \in D
    BY <1>11 DEF AllIn
  <2> QED
    BY <1>10, <1>11, <1>12, <1>13, <1>14, <2>1 DEF done
<1>15. CASE 0 \notin D
  <2>1. \A k \in 1 .. T(1) : k \in D
    BY <1>11 DEF AllIn
  <2> QED
    BY <1>10, <1>11, <1>12, <1>13, <1>15, <2>1 DEF done
<1> QED
  BY <1>14, <1>15

\* The row of a user is found in either ranking.
LEMMA RowFound ==
  ASSUME TablesTypeOK, NEW kind, NEW ranking, Ranks(kind, ranking), NEW u \in members
  PROVE  RowOfUser(ranking, u) = BoardRow(kind, u)
<1> DEFINE n == CHOOSE m \in DOMAIN ranking : ranking[m].row.user = u
<1>1. \E m \in DOMAIN ranking : ranking[m].row.user = u
  <2>1. PICK m \in DOMAIN ranking : ranking[m].row = BoardRow(kind, u)
    BY DEF Ranks
  <2> QED
    BY <2>1, BoardRowTyped
<1>2. n \in DOMAIN ranking /\ ranking[n].row.user = u
  BY <1>1
<1>3. RowOfUser(ranking, u) = ranking[n].row
  BY DEF RowOfUser
<1> HIDE DEF n
<1>4. PICK v \in members : ranking[n].row = BoardRow(kind, v)
  BY <1>2 DEF Ranks
<1>5. BoardRow(kind, v).user = v
  BY BoardRowTyped
<1> QED
  BY <1>2, <1>3, <1>4, <1>5

\* The occurrences that the leaderboard counts.
Counted(u, from, until) ==
  {o \in OccurrencesBetween(u, from, until) : /\ o.due \in from .. until /\ o.due <= today
                                              /\ o.status # "exempt"}

\* A day on which something was due is perfect if the dashboard takes it as done.
LEMMA DonePerfect ==
  ASSUME TablesTypeOK, NEW u, NEW from \in Int, NEW d \in from .. today,
         AllDone(OccurrencesOn(u, d)), ~ExemptOnly(OccurrencesOn(u, d))
  PROVE  /\ \E o \in Counted(u, from, today) : o.due = d
         /\ \A o \in Counted(u, from, today) : o.due = d => IsCompleted(o)
<1>1. today \in Int
  BY RowsAndDates
<1>2. {o \in OccurrencesBetween(u, from, today) : o.due \in d .. d} = OccurrencesOn(u, d)
  BY <1>1, OccurrencesWithin DEF OccurrencesOn
<1>3. PICK o \in OccurrencesOn(u, d) : o.status # "exempt"
  BY DEF AllDone, ExemptOnly, Exempt
<1>4. o \in Counted(u, from, today) /\ o.due = d
  BY <1>1, <1>2, <1>3 DEF Counted
<1>5. ASSUME NEW p \in Counted(u, from, today), p.due = d PROVE IsCompleted(p)
  <2>1. p \in OccurrencesOn(u, d) /\ p.status # "exempt"
    BY <1>1, <1>2, <1>5 DEF Counted
  <2> QED
    BY <2>1 DEF AllDone, Complete, Exempt, IsCompleted
<1> QED
  BY <1>4, <1>5

\* In every state, the streak on the dashboard of a user, as far as it lies in
\* the month, is a run that the leaderboard of the month finds, if no day of the
\* month has exempt occurrences only: the loops go over the same days in
\* opposite directions and agree on what a day that is done is.
THEOREM StreaksFound == TrackerSpec => []StreaksAgree
<1>1. ASSUME TablesTypeOK, NEW u \in members,
             \A d \in MonthStart(today) .. today : ~ExemptOnly(OccurrencesOn(u, d))
      PROVE  StreakFound(RowOfUser(buildLeaderboard("month", NULL).streak, u).bestStreak,
                         Streak(u), OccurrencesOn(u, today))
  <2> DEFINE s  == Streak(u)
             ms == MonthStart(today)
             counted == Counted(u, ms, today)
             P  == {d \in Int : /\ \E o \in counted : o.due = d
                                /\ \A o \in counted : o.due = d => IsCompleted(o)}
             best == Top(Runs(P, today, ms, 0))
             done(d) == AllDone(OccurrencesOn(u, d))
             extra == IF done(today) THEN 1 ELSE 0
             n == Earlier(s, today - ms + extra)
  <2>1. today \in Int /\ ms \in Int /\ ms <= today
    <3>1. BoardPeriod("month").start = ms /\ BoardPeriod("month").start \in Int
          /\ BoardPeriod("month").start <= today
      BY <1>1, PeriodTyped
    <3> QED
      BY <1>1, <3>1, RowsAndDates
  <2>2. RowOfUser(buildLeaderboard("month", NULL).streak, u).bestStreak = best
    <3>1. RowOfUser(buildLeaderboard("month", NULL).streak, u) = BoardRow("month", u)
      BY <1>1, BoardShows, StreakFair, RowFound DEF Fair
    <3>2. BoardPeriod("month").start = ms /\ BoardPeriod("month").countUntil = today
      BY <1>1, PeriodTyped
    <3>3. BoardRow("month", u).bestStreak = bestLeaderboardStreak(ms, today, counted)
      BY <3>2 DEF BoardRow, leaderboardRowFromOccurrences, Counted
    <3>4. Earlier(today, today) = today
      BY DEF Earlier
    <3> HIDE DEF counted, ms
    <3>5. bestLeaderboardStreak(ms, today, counted) = best
      BY <2>1, <3>4, BestStreakIs
    <3> QED
      BY <3>1, <3>3, <3>5
  <2>3. \A d \in ms .. today : done(d) => d \in P
    BY <1>1, <2>1, DonePerfect
  <2>4. /\ s \in Nat
        /\ done(today) => \A k \in 0 .. s - 1 : done(today - k)
        /\ ~done(today) => \A k \in 1 .. s : done(today - k)
    <3>1. today - 0 = today
      BY <2>1
    <3> QED
      BY <3>1, StreakIs
  <2> HIDE DEF P, done, s, ms, counted
  <2>5. n \in Nat /\ n <= s /\ n <= today - ms + extra /\ extra \in {0, 1}
    BY <2>1, <2>4 DEF Earlier
  <2> HIDE DEF n
  <2> DEFINE e == today - n + extra
  <2>6. e \in Int /\ ms <= e /\ e + n <= today + 1
    BY <2>1, <2>5
  <2>7. ASSUME NEW d \in e .. e + n - 1 PROVE d \in P
    <3>1. d \in ms .. today /\ today - d \in Int /\ today - (today - d) = d
      BY <2>1, <2>5, <2>6
    <3>2. CASE done(today)
      <4>1. today - d \in 0 .. s - 1
        BY <2>1, <2>4, <2>5, <2>6, <3>1, <3>2
      <4> QED
        BY <2>3, <2>4, <3>1, <3>2, <4>1
    <3>3. CASE ~done(today)
      <4>1. today - d \in 1 .. s
        BY <2>1, <2>4, <2>5, <2>6, <3>1, <3>3
      <4> QED
        BY <2>3, <2>4, <3>1, <3>3, <4>1
    <3> QED
      BY <3>2, <3>3
  <2> HIDE DEF e, best
  <2>8. n \in Runs(P, today, ms, 0)
    BY <2>1, <2>5, <2>6, <2>7 DEF Runs, AllIn
  <2>9. best >= n
    <3>1. 0 \in Nat
      OBVIOUS
    <3>2. Runs(P, today, ms, 0) \subseteq Nat /\ best \in Runs(P, today, ms, 0) /\ n <= best
      BY <2>1, <2>8, <3>1, RunsTop DEF best
    <3> QED
      BY <2>5, <3>2
  <2> QED
    BY <2>2, <2>9 DEF StreakFound, n, s, ms, done
<1>2. TablesTypeOK => StreaksAgree
  BY <1>1 DEF StreaksAgree
<1> QED
  BY <1>2, TrackerTablesCorrect, PTL

-----------------------------------------------------------------------------
(***************************************************************************)
(* Lists in order, of which an element is taken out, put in or replaced.   *)
(***************************************************************************)
\* A concatenation, place by place.
LEMMA Joined ==
  ASSUME NEW m \in Nat, NEW n \in Nat, NEW s, NEW t,
         s = [k \in 1 .. m |-> s[k]], t = [k \in 1 .. n |-> t[k]]
  PROVE  s \o t = [k \in 1 .. m + n |-> IF k <= m THEN s[k] ELSE t[k - m]]
<1>1. s \in Seq({s[k] : k \in 1 .. m} \cup {t[k] : k \in 1 .. n}) /\ Len(s) = m
  OBVIOUS
<1>2. t \in Seq({s[k] : k \in 1 .. m} \cup {t[k] : k \in 1 .. n}) /\ Len(t) = n
  OBVIOUS
<1> QED
  BY <1>1, <1>2

\* The first elements of a sequence, and those that follow.
LEMMA Prefix ==
  ASSUME NEW N \in Nat, NEW s, s = [k \in 1 .. N |-> s[k]], NEW n \in 0 .. N
  PROVE  /\ Len(s) = N
         /\ SubSeq(s, 1, n) = [k \in 1 .. n |-> s[k]]
         /\ SubSeq(s, n + 1, N) = [k \in 1 .. N - n |-> s[n + k]]
<1>1. s \in Seq({s[k] : k \in 1 .. N}) /\ Len(s) = N
  OBVIOUS
<1> QED
  BY <1>1

\* RemoveAt and InsertAt, place by place.
LEMMA Removed ==
  ASSUME NEW N \in Nat, NEW s, s = [k \in 1 .. N |-> s[k]], NEW n \in 1 .. N
  PROVE  RemoveAt(s, n) = [k \in 1 .. N - 1 |-> IF k < n THEN s[k] ELSE s[k + 1]]
<1>1. PICK a \in 0 .. N : a = n - 1
  OBVIOUS
<1>2. PICK b \in Nat : b = N - n
  OBVIOUS
<1> DEFINE front == SubSeq(s, 1, a)
           rear  == SubSeq(s, n + 1, N)
<1>3. Len(s) = N /\ front = [k \in 1 .. a |-> s[k]] /\ rear = [k \in 1 .. N - n |-> s[n + k]]
  BY Prefix
<1>4. front = [k \in 1 .. a |-> front[k]] /\ rear = [k \in 1 .. b |-> rear[k]]
  BY <1>2, <1>3
<1>5. RemoveAt(s, n) = front \o rear
  BY <1>1, <1>3 DEF RemoveAt
<1> HIDE DEF front, rear
<1>6. front \o rear = [k \in 1 .. a + b |-> IF k <= a THEN front[k] ELSE rear[k - a]]
  BY <1>4, Joined
<1>7. a + b = N - 1
  BY <1>1, <1>2
<1>8. ASSUME NEW k \in 1 .. N - 1
      PROVE  (IF k <= a THEN front[k] ELSE rear[k - a]) = (IF k < n THEN s[k] ELSE s[k + 1])
  <2>1. CASE k < n
    <3>1. k <= a /\ k \in 1 .. a
      BY <1>1, <2>1
    <3> QED
      BY <1>3, <2>1, <3>1
  <2>2. CASE ~(k < n)
    <3>1. ~(k <= a) /\ k - a \in 1 .. N - n /\ n + (k - a) = k + 1
      BY <1>1, <2>2
    <3> QED
      BY <1>3, <2>2, <3>1
  <2> QED
    BY <2>1, <2>2
<1> QED
  BY <1>5, <1>6, <1>7, <1>8

Widened(s, N, n, e) ==
  [k \in 1 .. N + 1 |-> IF k < n THEN s[k] ELSE IF k = n THEN e ELSE s[k - 1]]

\* InsertAt, place by place.
LEMMA Put ==
  ASSUME NEW N \in Nat, NEW s, s = [k \in 1 .. N |-> s[k]], NEW n \in 1 .. N + 1, NEW e
  PROVE  InsertAt(s, n, e) = Widened(s, N, n, e)
<1>1. PICK a \in 0 .. N : a = n - 1
  OBVIOUS
<1>2. PICK b \in Nat : b = N - a
  BY <1>1
<1> DEFINE front  == SubSeq(s, 1, a)
           rear   == SubSeq(s, n, N)
           middle == <<e>>
<1>3. Len(s) = N /\ front = [k \in 1 .. a |-> s[k]] /\ rear = [k \in 1 .. N - a |-> s[a + k]]
  <2>1. a + 1 = n
    BY <1>1
  <2> QED
    BY <2>1, Prefix
<1>4. /\ front = [k \in 1 .. a |-> front[k]] /\ rear = [k \in 1 .. b |-> rear[k]]
      /\ middle = [k \in 1 .. 1 |-> middle[k]] /\ middle[1] = e
  <2>1. front = [k \in 1 .. a |-> front[k]] /\ rear = [k \in 1 .. b |-> rear[k]]
    BY <1>2, <1>3
  <2>2. middle \in Seq({e}) /\ Len(middle) = 1 /\ middle[1] = e
    OBVIOUS
  <2>3. middle = [k \in 1 .. 1 |-> middle[k]]
    BY <2>2
  <2> QED
    BY <2>1, <2>2, <2>3
<1>5. InsertAt(s, n, e) = front \o middle \o rear
  BY <1>1, <1>3 DEF InsertAt
<1> HIDE DEF front, rear, middle
<1> DEFINE head == front \o middle
<1>6. head = [k \in 1 .. a + 1 |-> IF k <= a THEN front[k] ELSE middle[k - a]]
  BY <1>4, Joined
<1>7. PICK c \in Nat : c = a + 1
  BY <1>1
<1>8. head = [k \in 1 .. c |-> head[k]]
  BY <1>6, <1>7
<1> HIDE DEF head
<1>9. head \o rear = [k \in 1 .. c + b |-> IF k <= c THEN head[k] ELSE rear[k - c]]
  BY <1>4, <1>8, Joined
<1>10. c + b = N + 1
  BY <1>1, <1>2, <1>7
<1>11. ASSUME NEW k \in 1 .. N + 1
       PROVE  (IF k <= c THEN head[k] ELSE rear[k - c])
                = (IF k < n THEN s[k] ELSE IF k = n THEN e ELSE s[k - 1])
  <2>1. CASE k < n
    <3>1. k <= a /\ k \in 1 .. a /\ k <= c /\ k \in 1 .. a + 1
      BY <1>1, <1>7, <2>1
    <3> QED
      BY <1>3, <1>6, <2>1, <3>1
  <2>2. CASE k = n
    <3>0. a \in Int /\ k = a + 1
      BY <1>1, <2>2
    <3>1. ~(k <= a) /\ k <= c /\ k \in 1 .. a + 1 /\ k - a = 1
      BY <1>7, <3>0
    <3> QED
      BY <1>4, <1>6, <2>2, <3>1
  <2>3. CASE k > n
    <3>1. ~(k <= c) /\ ~(k < n) /\ k # n /\ k - c \in 1 .. N - a /\ a + (k - c) = k - 1
      BY <1>1, <1>7, <2>3
    <3> QED
      BY <1>3, <3>1
  <2> QED
    BY <2>1, <2>2, <2>3
<1> QED
  BY <1>5, <1>9, <1>10, <1>11 DEF head, Widened

\* There is one way to list a set in order.
LEMMA PlacedOnce ==
  ASSUME NEW S, IsFiniteSet(S), NEW R, StrictlyOrders(R, S),
         NEW a, NEW b, Placed(R, S, a), Placed(R, S, b)
  PROVE  a = b
<1>1. PICK N \in Nat : N = Cardinality(S)
  BY FS_CardinalityType
<1>2. /\ a = [n \in 1 .. N |-> a[n]]
      /\ b = [n \in 1 .. N |-> b[n]]
  BY <1>1 DEF Placed
<1>3. ASSUME NEW n \in 1 .. N PROVE a[n] = b[n]
  <2>1. /\ a[n] \in S /\ b[n] \in S
        /\ Cardinality(Below(R, S, a[n])) = Cardinality(Below(R, S, b[n]))
    BY <1>1 DEF Placed
  <2> QED
    BY <2>1, OrderedPlaces
<1> QED
  BY <1>2, <1>3

\* Without an element, the others are listed in the same order.
LEMMA PlacedWithout ==
  ASSUME NEW S, IsFiniteSet(S), NEW R, StrictlyOrders(R, S),
         NEW list, Placed(R, S, list), NEW n \in 1 .. Cardinality(S)
  PROVE  Placed(R, S \ {list[n]}, RemoveAt(list, n))
<1>1. PICK N \in Nat : N = Cardinality(S)
  BY FS_CardinalityType
<1> DEFINE r    == list[n]
           T    == S \ {r}
           rest == RemoveAt(list, n)
<1>2. list = [k \in 1 .. N |-> list[k]] /\ n \in 1 .. N
  BY <1>1 DEF Placed
<1>3. rest = [k \in 1 .. N - 1 |-> IF k < n THEN list[k] ELSE list[k + 1]]
  BY <1>2, Removed
<1>4. r \in S /\ IsFiniteSet(T) /\ Cardinality(T) = N - 1
  <2>1. r \in S
    BY DEF Placed
  <2> QED
    BY <1>1, <2>1, FS_RemoveElement
<1> HIDE DEF r, T, rest
<1>5. /\ \A k \in 1 .. N : list[k] \in S /\ Cardinality(Below(R, S, list[k])) = k - 1
      /\ \A k, m \in 1 .. N : k < m <=> <<list[k], list[m]>> \in R
  BY <1>1, InPlaces DEF Placed
<1>6. ASSUME NEW k \in 1 .. N, k # n
      PROVE  list[k] \in T /\ Cardinality(Below(R, T, list[k])) = IF k < n THEN k - 1 ELSE k - 2
  <2> DEFINE B == Below(R, S, list[k])
             C == Below(R, T, list[k])
  <2>1. IsFiniteSet(B) /\ Cardinality(B) = k - 1
    <3>1. B \in SUBSET S
      BY DEF Below
    <3> QED
      BY <1>5, <3>1, FS_Subset
  <2>2. C = B \ {r}
    BY DEF Below, T
  <2>3. r \in B <=> n < k
    BY <1>2, <1>4, <1>5 DEF Below, r
  <2>4. list[k] # r
    <3>1. k < n \/ n < k
      BY <1>2, <1>6
    <3>2. <<list[k], r>> \in R \/ <<r, list[k]>> \in R
      BY <1>2, <1>5, <3>1 DEF r
    <3> QED
      BY <1>4, <3>2 DEF StrictlyOrders
  <2>5. list[k] \in T
    BY <1>5, <2>4 DEF T
  <2> HIDE DEF B, C
  <2>6. Cardinality(C) = IF r \in B THEN k - 1 - 1 ELSE k - 1
    BY <2>1, <2>2, FS_RemoveElement
  <2>7. Cardinality(C) = IF k < n THEN k - 1 ELSE k - 2
    BY <1>6, <2>3, <2>6
  <2> QED
    BY <2>5, <2>7 DEF C
<1>7. ASSUME NEW k \in 1 .. N - 1
      PROVE  rest[k] \in T /\ Cardinality(Below(R, T, rest[k])) = k - 1
  <2>1. CASE k < n
    <3>1. rest[k] = list[k] /\ k \in 1 .. N /\ k # n
      BY <1>3, <2>1
    <3> QED
      BY <1>6, <2>1, <3>1
  <2>2. CASE ~(k < n)
    <3>1. PICK m \in 1 .. N : m = k + 1
      OBVIOUS
    <3>2. rest[k] = list[m] /\ m # n /\ ~(m < n) /\ m - 2 = k - 1
      BY <1>3, <2>2, <3>1
    <3> QED
      BY <1>6, <3>2
  <2> QED
    BY <2>1, <2>2
<1>8. rest = [k \in 1 .. N - 1 |-> rest[k]]
  BY <1>3
<1>9. Placed(R, T, rest)
  BY <1>4, <1>7, <1>8 DEF Placed
<1> QED
  BY <1>9 DEF rest, T, r

\* One element takes the place of another that stands to the others as it does.
LEMMA PlacedInstead ==
  ASSUME NEW S, IsFiniteSet(S), NEW R, StrictlyOrders(R, S),
         NEW list, Placed(R, S, list), NEW n \in 1 .. Cardinality(S),
         NEW x, x \notin S, StrictlyOrders(R, (S \ {list[n]}) \cup {x}),
         \A y \in S \ {list[n]} : <<y, x>> \in R <=> <<y, list[n]>> \in R
  PROVE  Placed(R, (S \ {list[n]}) \cup {x}, ReplaceAt(list, n, x))
<1>1. PICK N \in Nat : N = Cardinality(S)
  BY FS_CardinalityType
<1> DEFINE r    == list[n]
           T    == (S \ {r}) \cup {x}
           list2 == ReplaceAt(list, n, x)
<1>2. list = [k \in 1 .. N |-> list[k]] /\ n \in 1 .. N
  BY <1>1 DEF Placed
<1>3. list2 = [k \in 1 .. N |-> IF k = n THEN x ELSE list[k]]
  BY <1>2 DEF ReplaceAt
<1>4. r \in S /\ IsFiniteSet(T) /\ Cardinality(T) = N
  <2>1. r \in S
    BY DEF Placed
  <2>2. IsFiniteSet(S \ {r}) /\ Cardinality(S \ {r}) = N - 1 /\ x \notin S \ {r}
    BY <1>1, <2>1, FS_RemoveElement
  <2>3. IsFiniteSet(T) /\ Cardinality(T) = N - 1 + 1
    BY <2>2, FS_AddElement
  <2> QED
    BY <2>1, <2>3
<1>5. \A k \in 1 .. N : list[k] \in S /\ Cardinality(Below(R, S, list[k])) = k - 1
  BY <1>1 DEF Placed
<1>6. \A k, m \in 1 .. N : list[k] = list[m] => k = m
  BY <1>5
<1>7. \A y \in S \ {r} : /\ <<y, x>> \in R <=> <<y, r>> \in R
                         /\ <<x, y>> \in R <=> <<r, y>> \in R
  <2>1. \A y \in S \ {r} : <<y, x>> \in R <=> <<y, r>> \in R
    OBVIOUS
  <2>2. ASSUME NEW y \in S \ {r} PROVE <<x, y>> \in R <=> <<r, y>> \in R
    <3>1. x \in T /\ y \in T /\ x # y /\ y # r /\ y \in S
      OBVIOUS
    <3>2. <<y, x>> \in R \/ <<x, y>> \in R
      BY <3>1 DEF StrictlyOrders
    <3>3. ~(<<y, x>> \in R /\ <<x, y>> \in R)
      BY <3>1 DEF StrictlyOrders
    <3>4. <<y, r>> \in R \/ <<r, y>> \in R
      BY <1>4, <3>1 DEF StrictlyOrders
    <3>5. ~(<<y, r>> \in R /\ <<r, y>> \in R)
      BY <1>4, <3>1 DEF StrictlyOrders
    <3> QED
      BY <2>1, <3>2, <3>3, <3>4, <3>5
  <2> QED
    BY <2>1, <2>2
<1>8. <<x, x>> \notin R /\ <<r, r>> \notin R
  <2>1. x \in T
    OBVIOUS
  <2> QED
    BY <1>4, <2>1 DEF StrictlyOrders
<1>9. ASSUME NEW k \in 1 .. N
      PROVE  list2[k] \in T /\ Cardinality(Below(R, T, list2[k])) = k - 1
  <2>1. CASE k = n
    <3>1. list2[k] = x /\ x \in T
      BY <1>3, <2>1
    <3>2. Below(R, T, x) = Below(R, S, r)
      BY <1>7, <1>8 DEF Below
    <3>3. Cardinality(Below(R, S, r)) = k - 1
      BY <1>5, <2>1
    <3> QED
      BY <3>1, <3>2, <3>3
  <2>2. CASE k # n
    <3> DEFINE y == list[k]
               B == Below(R, S, y)
               C == Below(R, T, y)
    <3>1. list2[k] = y /\ y \in S /\ y # r /\ y \in T
      BY <1>2, <1>3, <1>5, <1>6, <2>2
    <3>2. IsFiniteSet(B) /\ Cardinality(B) = k - 1
      <4>1. B \in SUBSET S
        BY DEF Below
      <4> QED
        BY <1>5, <4>1, FS_Subset
    <3>5. r \in B <=> <<r, y>> \in R
      BY <1>4 DEF Below
    <3>6. C = IF <<r, y>> \in R THEN (B \ {r}) \cup {x} ELSE B
      BY <1>4, <1>7, <3>1 DEF Below
    <3>7. x \notin B
      BY DEF Below
    <3> HIDE DEF B, C, y, T
    <3>3. CASE <<r, y>> \in R
      <4>1. r \in B /\ C = (B \ {r}) \cup {x} /\ x \notin B \ {r}
        BY <3>3, <3>5, <3>6, <3>7
      <4>2. IsFiniteSet(B \ {r}) /\ Cardinality(B \ {r}) = k - 1 - 1
        BY <3>2, <4>1, FS_RemoveElement
      <4>3. Cardinality((B \ {r}) \cup {x}) = k - 1 - 1 + 1
        BY <4>1, <4>2, FS_AddElement
      <4>4. Cardinality(C) = k - 1
        BY <4>1, <4>3
      <4> QED
        BY <3>1, <4>4 DEF C
    <3>4. CASE <<r, y>> \notin R
      <4>1. C = B
        BY <3>4, <3>6
      <4> QED
        BY <3>1, <3>2, <4>1 DEF C
    <3> QED
      BY <3>3, <3>4
  <2> QED
    BY <2>1, <2>2
<1>10. list2 = [k \in 1 .. N |-> list2[k]]
  BY <1>3
<1> HIDE DEF T, list2, r
<1>11. Placed(R, T, list2)
  BY <1>4, <1>9, <1>10 DEF Placed
<1> QED
  BY <1>11 DEF T, list2, r

-----------------------------------------------------------------------------
(***************************************************************************)
(* What does not depend on the completions is the same once a user has     *)
(* toggled an occurrence.                                                  *)
(***************************************************************************)
LEMMA SameCalendar ==
  ASSUME NEW u, NEW i, NEW due
  PROVE  /\ \A mn : Toggled(u, i, due)!FirstOf(mn) = FirstOf(mn)
         /\ \A mn : Toggled(u, i, due)!daysInMonth(mn) = daysInMonth(mn)
         /\ \A d : Toggled(u, i, due)!Year(d) = Year(d)
         /\ \A d : Toggled(u, i, due)!MonthOf(d) = MonthOf(d)
         /\ \A d : Toggled(u, i, due)!Day(d) = Day(d)
<1>1. \A mn : Toggled(u, i, due)!FirstOf(mn) = FirstOf(mn)
  BY DEF Toggled!FirstOf, Toggled!NewYear, Toggled!DaysBefore, Toggled!Leap,
         FirstOf, NewYear, DaysBefore, Leap
<1>2. \A mn : Toggled(u, i, due)!daysInMonth(mn) = daysInMonth(mn)
  BY <1>1 DEF Toggled!daysInMonth, daysInMonth
<1>3. \A d : Toggled(u, i, due)!Year(d) = Year(d)
  BY DEF Toggled!NewYear, NewYear, Toggled!Year, Year
<1>4. \A d : Toggled(u, i, due)!MonthOf(d) = MonthOf(d)
  BY <1>1, <1>3 DEF Toggled!MonthOf, MonthOf, Toggled!NewYear, NewYear
<1>5. \A d : Toggled(u, i, due)!Day(d) = Day(d)
  BY <1>1, <1>4 DEF Toggled!Day, Day
<1> QED
  BY <1>1, <1>2, <1>3, <1>4, <1>5

\* The loop over months.
LEMMA SameMonths ==
  ASSUME NEW u, NEW i, NEW due, NEW s, NEW rangeStart, NEW rangeEnd
  PROVE  Toggled(u, i, due)!MonthlyDates(s, rangeStart, rangeEnd)
           = MonthlyDates(s, rangeStart, rangeEnd)
<1> DEFINE day == Day(s)
           Here(f) ==
             [mn \in Int |->
                LET cand   == FirstOf(mn) + day - 1
                    exists == day <= daysInMonth(mn)
                    here   == IF exists /\ cand >= rangeStart THEN {cand} ELSE {}
                IN  IF exists /\ cand > rangeEnd THEN {}
                    ELSE IF FirstOf(mn + 1) > rangeEnd THEN here
                    ELSE here \cup f[mn + 1]]
           There(f) ==
             [mn \in Int |->
                LET cand   == Toggled(u, i, due)!FirstOf(mn) + Toggled(u, i, due)!Day(s) - 1
                    exists == Toggled(u, i, due)!Day(s) <= Toggled(u, i, due)!daysInMonth(mn)
                    here   == IF exists /\ cand >= rangeStart THEN {cand} ELSE {}
                IN  IF exists /\ cand > rangeEnd THEN {}
                    ELSE IF Toggled(u, i, due)!FirstOf(mn + 1) > rangeEnd THEN here
                    ELSE here \cup f[mn + 1]]
<1>1. \A f : Here(f) = There(f)
  BY SameCalendar
<1>2. MonthlyDates(s, rangeStart, rangeEnd) = (CHOOSE f : f = Here(f))[MonthOf(rangeStart)]
  BY Zenon DEF MonthlyDates
<1>3. Toggled(u, i, due)!MonthlyDates(s, rangeStart, rangeEnd)
        = (CHOOSE f : f = There(f))[Toggled(u, i, due)!MonthOf(rangeStart)]
  BY Zenon DEF Toggled!MonthlyDates
<1> HIDE DEF Here, There
<1>4. (CHOOSE f : f = Here(f)) = (CHOOSE f : f = There(f))
  BY <1>1
<1> QED
  BY <1>2, <1>3, <1>4, SameCalendar

\* The loop over years.
LEMMA SameYears ==
  ASSUME NEW u, NEW i, NEW due, NEW s, NEW rangeStart, NEW rangeEnd
  PROVE  Toggled(u, i, due)!YearlyDates(s, rangeStart, rangeEnd)
           = YearlyDates(s, rangeStart, rangeEnd)
<1> DEFINE day   == Day(s)
           month == MonthOf(s) % 12
           Here(f) ==
             [y \in Int |->
                LET mn     == 12 * y + month
                    cand   == FirstOf(mn) + day - 1
                    exists == day <= daysInMonth(mn)
                    here   == IF exists /\ cand >= rangeStart THEN {cand} ELSE {}
                IN  IF exists /\ cand > rangeEnd THEN {}
                    ELSE IF FirstOf(mn + 12) > rangeEnd THEN here
                    ELSE here \cup f[y + 1]]
           There(f) ==
             [y \in Int |->
                LET mn     == 12 * y + (Toggled(u, i, due)!MonthOf(s) % 12)
                    cand   == Toggled(u, i, due)!FirstOf(mn) + Toggled(u, i, due)!Day(s) - 1
                    exists == Toggled(u, i, due)!Day(s) <= Toggled(u, i, due)!daysInMonth(mn)
                    here   == IF exists /\ cand >= rangeStart THEN {cand} ELSE {}
                IN  IF exists /\ cand > rangeEnd THEN {}
                    ELSE IF Toggled(u, i, due)!FirstOf(mn + 12) > rangeEnd THEN here
                    ELSE here \cup f[y + 1]]
<1>1. \A f : Here(f) = There(f)
  BY SameCalendar
<1>2. YearlyDates(s, rangeStart, rangeEnd) = (CHOOSE f : f = Here(f))[Year(rangeStart)]
  BY Zenon DEF YearlyDates
<1>3. Toggled(u, i, due)!YearlyDates(s, rangeStart, rangeEnd)
        = (CHOOSE f : f = There(f))[Toggled(u, i, due)!Year(rangeStart)]
  BY Zenon DEF Toggled!YearlyDates
<1> HIDE DEF Here, There
<1>4. (CHOOSE f : f = Here(f)) = (CHOOSE f : f = There(f))
  BY <1>1
<1> QED
  BY <1>2, <1>3, <1>4, SameCalendar

\* The dates, the occurrences and their order.
LEMMA SameSchedule ==
  ASSUME NEW u, NEW i, NEW due
  PROVE  /\ \A t, from, to : Toggled(u, i, due)!occurrenceDates(t, from, to)
                               = occurrenceDates(t, from, to)
         /\ \A t, id, d, done, p, day :
              Toggled(u, i, due)!Occurrence(t, id, d, done, p, day) = Occurrence(t, id, d, done, p, day)
         /\ \A ts, a, b : Toggled(u, i, due)!SortsBefore(ts, a, b) <=> SortsBefore(ts, a, b)
<1>1. ASSUME NEW t, NEW from, NEW to
      PROVE  Toggled(u, i, due)!occurrenceDates(t, from, to) = occurrenceDates(t, from, to)
  <2>1. \A s, a, b : /\ Toggled(u, i, due)!DailyDates(a, b) = DailyDates(a, b)
                     /\ Toggled(u, i, due)!WeeklyDates(s, a, b) = WeeklyDates(s, a, b)
                     /\ Toggled(u, i, due)!Earlier(a, b) = Earlier(a, b)
                     /\ Toggled(u, i, due)!Later(a, b) = Later(a, b)
    BY DEF Toggled!DailyDates, DailyDates, Toggled!WeeklyDates, WeeklyDates,
           Toggled!Earlier, Earlier, Toggled!Later, Later
  <2>2. \A s, a, b : /\ Toggled(u, i, due)!MonthlyDates(s, a, b) = MonthlyDates(s, a, b)
                     /\ Toggled(u, i, due)!YearlyDates(s, a, b) = YearlyDates(s, a, b)
    BY SameMonths, SameYears
  <2> DEFINE re  == IF t.end = NULL THEN to ELSE Earlier(t.end, to)
             rs  == Later(from, t.start)
             re2 == IF t.end = NULL THEN to ELSE Toggled(u, i, due)!Earlier(t.end, to)
             rs2 == Toggled(u, i, due)!Later(from, t.start)
             dates(a, b, daily, weekly, monthly, yearly) ==
               IF a > b THEN {}
               ELSE CASE t.freq = "daily"   -> daily
                      [] t.freq = "weekly"  -> weekly
                      [] t.freq = "monthly" -> monthly
                      [] t.freq = "yearly"  -> yearly
  <2>3. occurrenceDates(t, from, to)
          = dates(rs, re, DailyDates(rs, re), WeeklyDates(t.start, rs, re),
                  MonthlyDates(t.start, rs, re), YearlyDates(t.start, rs, re))
    BY Zenon DEF occurrenceDates
  <2>4. Toggled(u, i, due)!occurrenceDates(t, from, to)
          = dates(rs2, re2, Toggled(u, i, due)!DailyDates(rs2, re2),
                  Toggled(u, i, due)!WeeklyDates(t.start, rs2, re2),
                  Toggled(u, i, due)!MonthlyDates(t.start, rs2, re2),
                  Toggled(u, i, due)!YearlyDates(t.start, rs2, re2))
    BY Zenon DEF Toggled!occurrenceDates
  <2>5. rs2 = rs /\ re2 = re
    BY <2>1
  <2> HIDE DEF dates, rs, re, rs2, re2
  <2> QED
    BY <2>1, <2>2, <2>3, <2>4, <2>5
<1>2. ASSUME NEW t, NEW id, NEW d, NEW done, NEW p, NEW day
      PROVE  Toggled(u, i, due)!Occurrence(t, id, d, done, p, day) = Occurrence(t, id, d, done, p, day)
  BY Zenon DEF Toggled!Occurrence, Toggled!dateInAnyPeriod, Occurrence, dateInAnyPeriod
<1>3. ASSUME NEW ts, NEW a, NEW b
      PROVE  Toggled(u, i, due)!SortsBefore(ts, a, b) <=> SortsBefore(ts, a, b)
  BY DEF Toggled!SortsBefore, SortsBefore
<1> QED
  BY <1>1, <1>2, <1>3

\* The completions once a user has toggled an occurrence.
After(u, i, due) == IF HasCompletion(u, i, due) THEN Uncompleted(u, i, due) ELSE Completed(u, i, due)


\* The statements that do not read completions.
LEMMA SameReads ==
  ASSUME NEW u, NEW i, NEW due
  PROVE  /\ Toggled(u, i, due)!ListActiveTasks = ListActiveTasks
         /\ Toggled(u, i, due)!AppSettings = AppSettings
         /\ Toggled(u, i, due)!MissedDates = MissedDates
<1>1. Toggled(u, i, due)!ListActiveTasks = ListActiveTasks
  BY DEF Toggled!ListActiveTasks, Toggled!Existing, Toggled!TaskIds, ListActiveTasks, Existing, TaskIds
<1>2. Toggled(u, i, due)!AppSettings = AppSettings
  BY DEF Toggled!AppSettings, Toggled!DefaultAppSettings, Toggled!Weekdays,
         AppSettings, DefaultAppSettings, Weekdays
<1>3. \A a, b, d : /\ Toggled(u, i, due)!WeekStartFor(a, d) = WeekStartFor(a, d)
                   /\ Toggled(u, i, due)!Later(a, b) = Later(a, b)
  BY DEF Toggled!WeekStartFor, Toggled!Weekday, Toggled!Later, WeekStartFor, Weekday, Later
<1>4. \A a, b, c, d : Toggled(u, i, due)!WeekDatesForHistory(a, b, c, d) = WeekDatesForHistory(a, b, c, d)
  BY <1>3 DEF Toggled!WeekDatesForHistory, WeekDatesForHistory
<1> QED
  BY <1>1, <1>2, <1>4 DEF Toggled!MissedDates, MissedDates

\* The occurrences are those that the new completions give.
LEMMA SameOccurrences ==
  ASSUME NEW u, NEW i, NEW due, NEW from, NEW to
  PROVE  Toggled(u, i, due)!OccurrencesBetween(u, from, to) = Given(After(u, i, due), u, from, to)
<1> DEFINE done == {c \in After(u, i, due) : c.user = u /\ c.due \in from .. to}
           near == ListMensesPeriodsForUserInRange(u, from, to)
<1>1. Toggled(u, i, due)!ListCompletionsForUserInRange(u, from, to) = done
  BY DEF Toggled!ListCompletionsForUserInRange, After
<1>2. Toggled(u, i, due)!ListMensesPeriodsForUserInRange(u, from, to) = near
  BY DEF Toggled!ListMensesPeriodsForUserInRange, ListMensesPeriodsForUserInRange
<1> HIDE DEF done, near
<1>3. ASSUME NEW ts, NEW day
      PROVE  Toggled(u, i, due)!buildOccurrences(ts, done, near, day, from, to)
               = buildOccurrences(ts, done, near, day, from, to)
  <2>1. ASSUME NEW id
        PROVE  {Toggled(u, i, due)!Occurrence(ts[id], id, d, done, near, day) :
                  d \in Toggled(u, i, due)!occurrenceDates(ts[id], from, to)}
                 = {Occurrence(ts[id], id, d, done, near, day) : d \in occurrenceDates(ts[id], from, to)}
    <3>1. Toggled(u, i, due)!occurrenceDates(ts[id], from, to) = occurrenceDates(ts[id], from, to)
      BY SameSchedule
    <3>2. \A d : Toggled(u, i, due)!Occurrence(ts[id], id, d, done, near, day)
                   = Occurrence(ts[id], id, d, done, near, day)
      BY SameSchedule
    <3> QED
      BY <3>1, <3>2
  <2> DEFINE here(id)  == {Occurrence(ts[id], id, d, done, near, day) :
                              d \in occurrenceDates(ts[id], from, to)}
             there(id) == {Toggled(u, i, due)!Occurrence(ts[id], id, d, done, near, day) :
                              d \in Toggled(u, i, due)!occurrenceDates(ts[id], from, to)}
  <2>2. /\ buildOccurrences(ts, done, near, day, from, to) = UNION {here(id) : id \in DOMAIN ts}
        /\ Toggled(u, i, due)!buildOccurrences(ts, done, near, day, from, to)
             = UNION {there(id) : id \in DOMAIN ts}
    BY Zenon DEF Toggled!buildOccurrences, buildOccurrences
  <2>3. \A id : there(id) = here(id)
    BY <2>1
  <2> HIDE DEF here, there
  <2> QED
    BY <2>2, <2>3
<1>4. Toggled(u, i, due)!OccurrencesBetween(u, from, to)
        = IF to < from THEN {} ELSE buildOccurrences(ListActiveTasks, done, near, today, from, to)
  BY <1>1, <1>2, <1>3, SameReads DEF Toggled!OccurrencesBetween
<1> QED
  BY <1>4, Zenon DEF Given, DoneWithin, done, near

\* Rows are sorted as they were.
LEMMA SameOrder ==
  ASSUME NEW u, NEW i, NEW due, NEW rows
  PROVE  Toggled(u, i, due)!InSchedule(rows) = InSchedule(rows)
<1> DEFINE here(x)  == {y \in rows : SortsBefore(ListActiveTasks, y, x)}
           there(x) == {y \in rows : Toggled(u, i, due)!SortsBefore(Toggled(u, i, due)!ListActiveTasks, y, x)}
           at(n)    == CHOOSE x \in rows : Cardinality(here(x)) = n - 1
           at2(n)   == CHOOSE x \in rows : Toggled(u, i, due)!Cardinality(there(x)) = n - 1
<1>1. InSchedule(rows) = <<>> \o [n \in 1 .. Cardinality(rows) |-> at(n)]
  BY Zenon DEF InSchedule, InOrder, Listed
<1>0. \A S : Toggled(u, i, due)!Cardinality(S) = Cardinality(S)
  BY Zenon DEF Toggled!Cardinality, Cardinality
<1>2. Toggled(u, i, due)!InSchedule(rows)
        = <<>> \o [n \in 1 .. Toggled(u, i, due)!Cardinality(rows) |-> at2(n)]
  BY Zenon DEF Toggled!InSchedule, Toggled!InOrder, Toggled!Listed
<1>3. \A x : here(x) = there(x)
  BY SameSchedule, SameReads
<1> HIDE DEF here, there
<1>4. \A n : at(n) = at2(n)
  BY <1>0, <1>3
<1> HIDE DEF at, at2
<1> QED
  BY <1>0, <1>1, <1>2, <1>4

\* The occurrences of the section of missed ones.
Shown(done, u) ==
  {o \in (IF MissedDates = {} THEN {} ELSE Given(done, u, MissedFrom(MissedDates), today - 1)) :
     showInMissedSection(o)}

InnerGiven(done, u, stats) == InnerOf(Given(done, u, today, today), Shown(done, u), stats)

\* The page from the completions as they are, and from those after a toggle.
LEMMA InnerNow ==
  ASSUME NEW u
  PROVE  buildInner(u) = InnerGiven(completions, u, computeStats(u))
<1>1. ASSUME NEW from, NEW to
      PROVE  OccurrencesBetween(u, from, to) = Given(completions, u, from, to)
  BY GivenNow
<1> QED
  BY <1>1, Zenon DEF buildInner, InnerGiven, Shown, OccurrencesOn, MissedRange

\* The rows of occurrences are those they had.
LEMMA SameRows ==
  ASSUME NEW u, NEW i, NEW due, NEW occs
  PROVE  Toggled(u, i, due)!RowsOf(occs) = RowsOf(occs)
<1>1. {Toggled(u, i, due)!RowOf(o) : o \in occs} = {RowOf(o) : o \in occs}
  BY DEF Toggled!RowOf, RowOf
<1> QED
  BY <1>1, SameOrder DEF Toggled!RowsOf, RowsOf

LEMMA InnerToggled ==
  ASSUME NEW u, NEW i, NEW due
  PROVE  Toggled(u, i, due)!buildInner(u)
           = InnerGiven(After(u, i, due), u, Toggled(u, i, due)!computeStats(u))
<1>1. ASSUME NEW day, NEW shown, NEW stats
      PROVE  Toggled(u, i, due)!InnerOf(day, shown, stats) = InnerOf(day, shown, stats)
  <2> DEFINE pend == {o \in day : ~Complete(o) /\ ~Exempt(o)}
             did  == {o \in day : Complete(o) \/ Exempt(o)}
             on(d) == {o \in shown : o.due = d}
             dues == {o.due : o \in shown}
  <2>1. Toggled(u, i, due)!InnerOf(day, shown, stats)
          = [pending |-> Toggled(u, i, due)!RowsOf(pend),
             done    |-> Toggled(u, i, due)!RowsOf(did),
             missed  |-> [d \in dues |-> Toggled(u, i, due)!RowsOf(on(d))],
             stats   |-> stats]
    BY Zenon DEF Toggled!InnerOf, Toggled!Complete, Toggled!Exempt, Complete, Exempt
  <2>2. InnerOf(day, shown, stats)
          = [pending |-> RowsOf(pend), done |-> RowsOf(did),
             missed  |-> [d \in dues |-> RowsOf(on(d))], stats   |-> stats]
    BY Zenon DEF InnerOf
  <2> HIDE DEF pend, did, on, dues
  <2>3. [d \in dues |-> Toggled(u, i, due)!RowsOf(on(d))] = [d \in dues |-> RowsOf(on(d))]
    BY SameRows
  <2> QED
    BY <2>1, <2>2, <2>3, SameRows
<1>2. Toggled(u, i, due)!OccurrencesOn(u, today) = Given(After(u, i, due), u, today, today)
  BY SameOccurrences, Zenon DEF Toggled!OccurrencesOn
<1> DEFINE dates == MissedDates
           range == IF dates = {} THEN {} ELSE Given(After(u, i, due), u, MissedFrom(dates), today - 1)
<1>3. Toggled(u, i, due)!MissedRange(u, dates) = range
  <2>1. Toggled(u, i, due)!MissedFrom(dates) = MissedFrom(dates)
    BY Zenon DEF Toggled!MissedFrom, MissedFrom
  <2>2. Toggled(u, i, due)!MissedRange(u, dates)
          = IF dates = {} THEN {}
            ELSE Toggled(u, i, due)!OccurrencesBetween(u, Toggled(u, i, due)!MissedFrom(dates), today - 1)
    BY Zenon DEF Toggled!MissedRange
  <2> HIDE DEF dates
  <2> QED
    BY <2>1, <2>2, SameOccurrences
<1>4. Toggled(u, i, due)!MissedDates = dates
  BY SameReads
<1> HIDE DEF dates, range
<1>5. {o \in Toggled(u, i, due)!MissedRange(u, Toggled(u, i, due)!MissedDates) :
         Toggled(u, i, due)!showInMissedSection(o)} = {o \in range : showInMissedSection(o)}
  BY <1>3, <1>4 DEF Toggled!showInMissedSection, Toggled!Complete, showInMissedSection, Complete
<1>6. Shown(After(u, i, due), u) = {o \in range : showInMissedSection(o)}
  BY Zenon DEF Shown, dates, range
<1> DEFINE stats == Toggled(u, i, due)!computeStats(u)
           day   == Toggled(u, i, due)!OccurrencesOn(u, today)
           shown == {o \in Toggled(u, i, due)!MissedRange(u, Toggled(u, i, due)!MissedDates) :
                       Toggled(u, i, due)!showInMissedSection(o)}
<1>7. Toggled(u, i, due)!buildInner(u) = Toggled(u, i, due)!InnerOf(day, shown, stats)
  BY Zenon DEF Toggled!buildInner
<1>8. day = Given(After(u, i, due), u, today, today) /\ shown = Shown(After(u, i, due), u)
  BY <1>2, <1>5, <1>6
<1> HIDE DEF day, shown, stats
<1>9. Toggled(u, i, due)!buildInner(u) = InnerOf(day, shown, stats)
  BY <1>1, <1>7
<1> QED
  BY <1>8, <1>9, Zenon DEF InnerGiven, stats

-----------------------------------------------------------------------------
(***************************************************************************)
(* The lists of a page, and what the script does to them.                  *)
(***************************************************************************)
\* Rows of active tasks, one for each task and date.
RowsOnce(K) ==
  /\ IsFiniteSet(K) /\ K \subseteq Row
  /\ \A r \in K : r.task \in Active
  /\ \A r, s \in K : r.task = s.task /\ r.due = s.due => r = s

RowOrder == {x \in Row \X Row : SortsBefore(ListActiveTasks, x[1], x[2])}

\* The order of occurrences is strict on them.
LEMMA RowsOrdered ==
  ASSUME TablesTypeOK, NEW K, RowsOnce(K)
  PROVE  /\ StrictlyOrders(RowOrder, K)
         /\ \A x, y \in K : <<x, y>> \in RowOrder <=> SortsBefore(ListActiveTasks, x, y)
<1>1. ASSUME NEW x \in K
      PROVE  /\ x \in Row /\ x.due \in Int /\ x.task \in Int
             /\ ListActiveTasks[x.task].seq \in Int /\ ListActiveTasks[x.task].title \in Int
  <2>1. x \in Row /\ x.due \in Int /\ x.task \in TaskIds /\ x.task \in Active
    BY DEF RowsOnce, Row
  <2>2. x.task \in Int
    BY <2>1 DEF TaskIds
  <2>3. ListActiveTasks[x.task] = tasks[x.task]
    BY <2>1 DEF ListActiveTasks, Active
  <2>4. tasks[x.task] \in Task
    BY <2>1, RowsAndDates DEF Active
  <2> QED
    BY <2>1, <2>2, <2>3, <2>4 DEF Task
<1>2. \A x, y \in K : <<x, y>> \in RowOrder <=> SortsBefore(ListActiveTasks, x, y)
  BY <1>1 DEF RowOrder
<1>3. \A x, y \in K : x.task = y.task /\ x.due = y.due => x = y
  BY DEF RowsOnce
<1>4. \A x \in K : ~SortsBefore(ListActiveTasks, x, x)
  BY <1>1 DEF SortsBefore
<1>5. \A x, y \in K : x # y => SortsBefore(ListActiveTasks, x, y) \/ SortsBefore(ListActiveTasks, y, x)
  <2> SUFFICES ASSUME NEW x \in K, NEW y \in K, x # y
               PROVE  SortsBefore(ListActiveTasks, x, y) \/ SortsBefore(ListActiveTasks, y, x)
    OBVIOUS
  <2>1. x.task # y.task \/ x.due # y.due
    BY <1>3
  <2> QED
    BY <1>1, <2>1 DEF SortsBefore
<1>6. \A x, y, z \in K : SortsBefore(ListActiveTasks, x, y) /\ SortsBefore(ListActiveTasks, y, z)
                           => SortsBefore(ListActiveTasks, x, z)
  BY <1>1 DEF SortsBefore
<1> QED
  BY <1>2, <1>4, <1>5, <1>6 DEF StrictlyOrders

\* The rows of a list are at the places that the order gives them.
LEMMA RowsPlaced ==
  ASSUME TablesTypeOK, NEW K, RowsOnce(K)
  PROVE  Placed(RowOrder, K, InSchedule(K))
<1> DEFINE N == Cardinality(K)
           above(x) == {y \in K : SortsBefore(ListActiveTasks, y, x)}
           place(n) == CHOOSE x \in K : Cardinality(above(x)) = n - 1
           list == [n \in 1 .. N |-> place(n)]
<1>1. InSchedule(K) = Listed(list)
  BY Zenon DEF InSchedule, InOrder
<1>2. IsFiniteSet(K) /\ StrictlyOrders(RowOrder, K)
  BY RowsOrdered DEF RowsOnce
<1>3. \A x \in K : above(x) = Below(RowOrder, K, x)
  BY RowsOrdered DEF Below
<1>4. \A n \in 1 .. N : \E x \in K : Cardinality(Below(RowOrder, K, x)) = n - 1
  BY <1>2, OrderedPlaces
<1> HIDE DEF above
<1>5. ASSUME NEW n \in 1 .. N
      PROVE  place(n) \in K /\ Cardinality(Below(RowOrder, K, place(n))) = n - 1
  <2>1. PICK x \in K : Cardinality(Below(RowOrder, K, x)) = n - 1
    BY <1>4
  <2>2. place(n) \in K /\ Cardinality(above(place(n))) = n - 1
    BY <1>3, <2>1
  <2> HIDE DEF place
  <2> QED
    BY <1>3, <2>2
<1> HIDE DEF place, N
<1>6. Placed(RowOrder, K, list)
  BY <1>5 DEF Placed, N
<1>7. N \in Nat
  BY <1>2, FS_CardinalityType DEF N
<1>8. list = [n \in 1 .. N |-> list[n]]
  OBVIOUS
<1> HIDE DEF list
<1>9. Listed(list) = list
  BY <1>7, <1>8, ListedIs
<1> QED
  BY <1>1, <1>6, <1>9

\* The rows in their order, each once, and where a row is found.
LEMMA RowsListed ==
  ASSUME TablesTypeOK, NEW K, RowsOnce(K)
  PROVE  /\ Arranged(RowOrder, K, Cardinality(K), InSchedule(K))
         /\ \A m, n \in 1 .. Cardinality(K) : InSchedule(K)[m] = InSchedule(K)[n] => m = n
<1>1. IsFiniteSet(K) /\ StrictlyOrders(RowOrder, K)
  BY RowsOrdered DEF RowsOnce
<1>2. Placed(RowOrder, K, InSchedule(K))
  BY RowsPlaced
<1>3. Arranged(RowOrder, K, Cardinality(K), InSchedule(K))
  BY <1>1, <1>2, Sorted
<1>4. \A m, n \in 1 .. Cardinality(K) : InSchedule(K)[m] = InSchedule(K)[n] => m = n
  BY <1>2 DEF Placed
<1> QED
  BY <1>3, <1>4

\* A row is found at one place, the one at which it is listed.
LEMMA Found ==
  ASSUME TablesTypeOK, NEW K, RowsOnce(K), NEW r \in K
  PROVE  \E n \in 1 .. Cardinality(K) :
           /\ InSchedule(K)[n] = r
           /\ Places(InSchedule(K), r.task, r.due) = {n}
           /\ FirstPlace(InSchedule(K), r.task, r.due) = n
<1> DEFINE list == InSchedule(K)
           N    == Cardinality(K)
<1>1. /\ DOMAIN list = 1 .. N
      /\ \A n \in 1 .. N : list[n] \in K
      /\ \E n \in 1 .. N : list[n] = r
      /\ \A m, n \in 1 .. N : list[m] = list[n] => m = n
  BY RowsListed DEF Arranged
<1> HIDE DEF list, N
<1>2. PICK n \in 1 .. N : list[n] = r
  BY <1>1
<1>3. Places(list, r.task, r.due) = {n}
  BY <1>1, <1>2 DEF Places, RowsOnce
<1>4. FirstPlace(list, r.task, r.due) = n
  BY <1>3 DEF FirstPlace
<1> QED
  BY <1>2, <1>3, <1>4 DEF list, N

\* A row that is not listed is not found.
LEMMA NotFound ==
  ASSUME TablesTypeOK, NEW K, RowsOnce(K), NEW i, NEW due,
         \A r \in K : ~(r.task = i /\ r.due = due)
  PROVE  Places(InSchedule(K), i, due) = {}
<1>1. \A n \in DOMAIN InSchedule(K) : InSchedule(K)[n] \in K
  BY RowsListed DEF Arranged
<1> QED
  BY <1>1 DEF Places

\* Rows remain so when one is taken away.
LEMMA FewerRows ==
  ASSUME NEW K, RowsOnce(K), NEW r
  PROVE  RowsOnce(K \ {r})
BY FS_RemoveElement DEF RowsOnce

\* The script removes a row from a list: the rest is the list of the others.
LEMMA WithoutRow ==
  ASSUME TablesTypeOK, NEW K, RowsOnce(K), NEW r \in K
  PROVE  Without(InSchedule(K), r.task, r.due) = InSchedule(K \ {r})
<1>1. PICK n \in 1 .. Cardinality(K) : /\ InSchedule(K)[n] = r
                                       /\ Places(InSchedule(K), r.task, r.due) = {n}
                                       /\ FirstPlace(InSchedule(K), r.task, r.due) = n
  BY Found
<1>2. /\ IsFiniteSet(K) /\ StrictlyOrders(RowOrder, K)
      /\ IsFiniteSet(K \ {r}) /\ StrictlyOrders(RowOrder, K \ {r})
  BY RowsOrdered, FewerRows DEF RowsOnce
<1>3. Placed(RowOrder, K, InSchedule(K)) /\ Placed(RowOrder, K \ {r}, InSchedule(K \ {r}))
  BY RowsPlaced, FewerRows
<1>4. Placed(RowOrder, K \ {r}, RemoveAt(InSchedule(K), n))
  BY <1>1, <1>2, <1>3, PlacedWithout
<1>5. RemoveAt(InSchedule(K), n) = InSchedule(K \ {r})
  BY <1>2, <1>3, <1>4, PlacedOnce
<1> QED
  BY <1>1, <1>5 DEF Without

\* Nothing is removed from a list that does not have the row.
LEMMA NothingToRemove ==
  ASSUME TablesTypeOK, NEW K, RowsOnce(K), NEW i, NEW due,
         \A r \in K : ~(r.task = i /\ r.due = due)
  PROVE  Without(InSchedule(K), i, due) = InSchedule(K)
BY NotFound DEF Without

\* It inserts a row where the handler has found it: before the one that follows.
LEMMA RowInserted ==
  ASSUME TablesTypeOK, NEW K, RowsOnce(K), NEW r \in K
  PROVE  Inserted(InSchedule(K \ {r}), r,
                  Before(InSchedule(K), FirstPlace(InSchedule(K), r.task, r.due))) = InSchedule(K)
<1> DEFINE list == InSchedule(K)
           rest == InSchedule(K \ {r})
<1>1. PICK N \in Nat : N = Cardinality(K)
  BY FS_CardinalityType DEF RowsOnce
<1>2. PICK n \in 1 .. N : /\ list[n] = r
                          /\ Places(list, r.task, r.due) = {n}
                          /\ FirstPlace(list, r.task, r.due) = n
  BY <1>1, Found
<1>3. /\ Len(list) = N /\ list = [k \in 1 .. N |-> list[k]] /\ DOMAIN list = 1 .. N
      /\ \A k \in 1 .. N : list[k] \in K
  BY <1>1, RowsListed DEF Arranged
<1>4. rest = RemoveAt(list, n)
  BY <1>2, WithoutRow DEF Without
<1>5. RowsOnce(K \ {r}) /\ Cardinality(K \ {r}) = N - 1
  BY <1>1, FewerRows, FS_RemoveElement DEF RowsOnce
<1>6. Len(rest) = N - 1 /\ DOMAIN rest = 1 .. N - 1
  BY <1>5, RowsListed DEF Arranged
<1> DEFINE before == Before(list, n)
           at == IF before = NULL \/ Places(rest, before.task, before.due) = {}
                 THEN Len(rest) + 1 ELSE FirstPlace(rest, before.task, before.due)
<1> HIDE DEF list
<1>7. rest = [k \in 1 .. N - 1 |-> IF k < n THEN list[k] ELSE list[k + 1]]
  BY <1>3, <1>4, Removed
<1>8. at = n
  <2>1. CASE n = N
    <3>1. before = NULL
      BY <1>3, <2>1 DEF Before
    <3> QED
      BY <1>6, <2>1, <3>1
  <2>2. CASE n # N
    <3>1. n + 1 \in 1 .. N /\ n \in 1 .. N - 1
      BY <2>2
    <3>2. before = list[n + 1] /\ before \in K /\ rest[n] = before
      BY <1>3, <1>7, <3>1 DEF Before
    <3>3. before # NULL
      BY <3>2, RowsAssumption DEF RowsOnce
    <3>4. rest[n] \in K \ {r}
      BY <1>5, <1>6, <3>1, RowsListed DEF Arranged
    <3>5. before \in K \ {r}
      BY <3>2, <3>4
    <3>6. PICK m \in 1 .. Cardinality(K \ {r}) :
                 /\ rest[m] = before
                 /\ Places(rest, before.task, before.due) = {m}
                 /\ FirstPlace(rest, before.task, before.due) = m
      BY <1>5, <3>5, Found
    <3>7. \A a, b \in 1 .. N - 1 : rest[a] = rest[b] => a = b
      BY <1>5, RowsListed
    <3>8. m = n
      BY <1>5, <3>1, <3>2, <3>6, <3>7
    <3> HIDE DEF before
    <3> QED
      BY <3>3, <3>6, <3>8
  <2> QED
    BY <2>1, <2>2
<1>9. Inserted(rest, r, before) = InsertAt(rest, n, r)
  BY <1>8 DEF Inserted
<1> HIDE DEF rest, before, at
<1>10. PICK M \in Nat : M = N - 1
  BY <1>2
<1>11. rest = [k \in 1 .. M |-> rest[k]]
  BY <1>7, <1>10
<1>15. n \in 1 .. M + 1
  BY <1>2, <1>10
<1>12. InsertAt(rest, n, r) = Widened(rest, M, n, r)
  BY <1>11, <1>15, Put
<1>13. ASSUME NEW k \in 1 .. N
       PROVE  (IF k < n THEN rest[k] ELSE IF k = n THEN r ELSE rest[k - 1]) = list[k]
  <2>1. CASE k < n
    <3>1. k \in 1 .. N - 1
      BY <2>1
    <3> QED
      BY <1>7, <2>1, <3>1
  <2>2. CASE k = n
    BY <1>2, <2>2
  <2>3. CASE k > n
    <3>1. k - 1 \in 1 .. N - 1 /\ ~(k - 1 < n) /\ k - 1 + 1 = k /\ ~(k < n) /\ k # n
      BY <2>3
    <3> QED
      BY <1>7, <3>1
  <2> QED
    BY <2>1, <2>2, <2>3
<1>14. Widened(rest, M, n, r) = list
  <2>1. M + 1 = N
    BY <1>10
  <2> QED
    BY <1>3, <1>13, <2>1 DEF Widened
<1> QED
  BY <1>2, <1>9, <1>12, <1>14 DEF list, rest, before

\* A row that is replaced by one of the same task and date stays in its place.
LEMMA RowReplaced ==
  ASSUME TablesTypeOK, NEW K, RowsOnce(K), NEW r \in K,
         NEW x \in Row, x.task = r.task, x.due = r.due, x # r
  PROVE  /\ RowsOnce((K \ {r}) \cup {x})
         /\ ReplaceAt(InSchedule(K), FirstPlace(InSchedule(K), r.task, r.due), x)
              = InSchedule((K \ {r}) \cup {x})
<1> DEFINE K2 == (K \ {r}) \cup {x}
<1>1. RowsOnce(K2)
  <2>1. IsFiniteSet(K2)
    BY FewerRows, FS_AddElement DEF RowsOnce
  <2> QED
    BY <2>1 DEF RowsOnce
<1>2. PICK n \in 1 .. Cardinality(K) : /\ InSchedule(K)[n] = r
                                       /\ FirstPlace(InSchedule(K), r.task, r.due) = n
  BY Found
<1>3. IsFiniteSet(K) /\ StrictlyOrders(RowOrder, K) /\ Placed(RowOrder, K, InSchedule(K))
  BY RowsOrdered, RowsPlaced DEF RowsOnce
<1>4. IsFiniteSet(K2) /\ StrictlyOrders(RowOrder, K2) /\ Placed(RowOrder, K2, InSchedule(K2))
  BY <1>1, RowsOrdered, RowsPlaced DEF RowsOnce
<1>5. x \notin K
  BY DEF RowsOnce
<1>6. \A y \in K \ {r} : <<y, x>> \in RowOrder <=> <<y, r>> \in RowOrder
  <2>1. ASSUME NEW y
        PROVE  SortsBefore(ListActiveTasks, y, x) <=> SortsBefore(ListActiveTasks, y, r)
    BY DEF SortsBefore
  <2>2. \A y \in K \ {r} : <<y, r>> \in RowOrder <=> SortsBefore(ListActiveTasks, y, r)
    BY RowsOrdered
  <2>3. \A y \in K \ {r} : <<y, x>> \in RowOrder <=> SortsBefore(ListActiveTasks, y, x)
    BY <1>1, RowsOrdered
  <2> QED
    BY <2>1, <2>2, <2>3
<1>7. Placed(RowOrder, K2, ReplaceAt(InSchedule(K), n, x))
  BY <1>2, <1>3, <1>4, <1>5, <1>6, PlacedInstead
<1>8. ReplaceAt(InSchedule(K), n, x) = InSchedule(K2)
  BY <1>4, <1>7, PlacedOnce
<1> QED
  BY <1>1, <1>2, <1>8

Page(pending, done, missed, stats) ==
  [pending |-> pending, done |-> done, missed |-> missed, stats |-> stats]

Key(r, i, due) == r.task = i /\ r.due = due

\* The page after a row of today has moved from one list to the other.
LEMMA Ticked ==
  ASSUME TablesTypeOK, NEW P, RowsOnce(P), NEW Q, RowsOnce(Q), NEW i,
         NEW r \in P, Key(r, i, today), NEW x \in Q, Key(x, i, today),
         NEW missed, NEW old, NEW stats
  PROVE  Patched(Page(InSchedule(P), InSchedule(Q \ {x}), missed, old),
                 Page(InSchedule(P \ {r}), InSchedule(Q), missed, stats), i, today)
           = Page(InSchedule(P \ {r}), InSchedule(Q), missed, stats)
<1> DEFINE page  == Page(InSchedule(P), InSchedule(Q \ {x}), missed, old)
           inner == Page(InSchedule(P \ {r}), InSchedule(Q), missed, stats)
           frag  == renderTodayToggleFragments(inner, i, today)
           n     == FirstPlace(InSchedule(Q), i, today)
<1>1. RowsOnce(P \ {r}) /\ RowsOnce(Q \ {x})
  BY FewerRows
<1>2. /\ \A y \in P \ {r} : ~(y.task = i /\ y.due = today)
      /\ \A y \in Q \ {x} : ~(y.task = i /\ y.due = today)
  BY DEF RowsOnce, Key
<1>3. r.task = i /\ r.due = today /\ x.task = i /\ x.due = today /\ x \in Row
  BY DEF Key, RowsOnce
<1>4. Places(InSchedule(P \ {r}), i, today) = {}
  BY <1>1, <1>2, NotFound
<1>5. Places(InSchedule(Q), i, today) # {} /\ InSchedule(Q)[n] = x
  BY <1>3, Found
<1>6. Without(InSchedule(P), i, today) = InSchedule(P \ {r})
  BY <1>3, WithoutRow
<1>7. Without(InSchedule(Q \ {x}), i, today) = InSchedule(Q \ {x})
  BY <1>1, <1>2, NothingToRemove
<1>8. Inserted(InSchedule(Q \ {x}), x, Before(InSchedule(Q), n)) = InSchedule(Q)
  BY <1>3, RowInserted
<1>9. frag = [list |-> "done", row |-> x, before |-> Before(InSchedule(Q), n)]
  BY <1>4, <1>5 DEF renderTodayToggleFragments, findRowPlacement, Page
<1>10. frag # NULL
  <2>1. Before(InSchedule(Q), n) \in Row \cup {NULL}
    <3>1. \A k \in 1 .. Len(InSchedule(Q)) : InSchedule(Q)[k] \in Q
      BY RowsListed DEF Arranged
    <3>2. n \in 1 .. Len(InSchedule(Q))
      BY <1>3, Found, RowsListed DEF Arranged
    <3>3. n + 1 <= Len(InSchedule(Q)) => n + 1 \in 1 .. Len(InSchedule(Q))
      BY <3>2
    <3> QED
      BY <3>1, <3>3 DEF Before, RowsOnce
  <2> QED
    BY <1>3, <1>9, <2>1, RowsAssumption
<1> HIDE DEF frag, n
<1>11. PatchToday(page, frag, i, today) = Page(InSchedule(P \ {r}), InSchedule(Q), missed, old)
  BY <1>6, <1>7, <1>8, <1>9, <1>10 DEF PatchToday, Page
<1> QED
  BY <1>11 DEF Patched, Page, frag

\* The other way round.
LEMMA Unticked ==
  ASSUME TablesTypeOK, NEW P, RowsOnce(P), NEW Q, RowsOnce(Q), NEW i,
         NEW r \in Q, Key(r, i, today), NEW x \in P, Key(x, i, today),
         NEW missed, NEW old, NEW stats
  PROVE  Patched(Page(InSchedule(P \ {x}), InSchedule(Q), missed, old),
                 Page(InSchedule(P), InSchedule(Q \ {r}), missed, stats), i, today)
           = Page(InSchedule(P), InSchedule(Q \ {r}), missed, stats)
<1> DEFINE page  == Page(InSchedule(P \ {x}), InSchedule(Q), missed, old)
           inner == Page(InSchedule(P), InSchedule(Q \ {r}), missed, stats)
           frag  == renderTodayToggleFragments(inner, i, today)
           n     == FirstPlace(InSchedule(P), i, today)
<1>1. RowsOnce(P \ {x}) /\ RowsOnce(Q \ {r})
  BY FewerRows
<1>2. /\ \A y \in P \ {x} : ~(y.task = i /\ y.due = today)
      /\ \A y \in Q \ {r} : ~(y.task = i /\ y.due = today)
  BY DEF RowsOnce, Key
<1>3. r.task = i /\ r.due = today /\ x.task = i /\ x.due = today /\ x \in Row
  BY DEF Key, RowsOnce
<1>5. Places(InSchedule(P), i, today) # {} /\ InSchedule(P)[n] = x
  BY <1>3, Found
<1>6. Without(InSchedule(Q), i, today) = InSchedule(Q \ {r})
  BY <1>3, WithoutRow
<1>7. Without(InSchedule(P \ {x}), i, today) = InSchedule(P \ {x})
  BY <1>1, <1>2, NothingToRemove
<1>8. Inserted(InSchedule(P \ {x}), x, Before(InSchedule(P), n)) = InSchedule(P)
  BY <1>3, RowInserted
<1>9. frag = [list |-> "pending", row |-> x, before |-> Before(InSchedule(P), n)]
  BY <1>5 DEF renderTodayToggleFragments, findRowPlacement, Page
<1>10. frag # NULL
  <2>1. Before(InSchedule(P), n) \in Row \cup {NULL}
    <3>1. \A k \in 1 .. Len(InSchedule(P)) : InSchedule(P)[k] \in P
      BY RowsListed DEF Arranged
    <3>2. n \in 1 .. Len(InSchedule(P))
      BY <1>3, Found, RowsListed DEF Arranged
    <3>3. n + 1 <= Len(InSchedule(P)) => n + 1 \in 1 .. Len(InSchedule(P))
      BY <3>2
    <3> QED
      BY <3>1, <3>3 DEF Before, RowsOnce
  <2> QED
    BY <1>3, <1>9, <2>1, RowsAssumption
<1> HIDE DEF frag, n
<1>11. PatchToday(page, frag, i, today) = Page(InSchedule(P), InSchedule(Q \ {r}), missed, old)
  BY <1>6, <1>7, <1>8, <1>9, <1>10 DEF PatchToday, Page
<1> QED
  BY <1>11 DEF Patched, Page, frag

Over(missed, due, list) == [missed EXCEPT ![due] = list]

PutInto(page, due, list) == [page EXCEPT !.missed[due] = list]

\* A page of which one missed group is replaced.
LEMMA MissedChanged ==
  ASSUME NEW pending, NEW done, NEW missed, NEW stats, NEW due, NEW v
  PROVE  PutInto(Page(pending, done, missed, stats), due, v)
           = Page(pending, done, Over(missed, due, v), stats)
<1> DEFINE page    == Page(pending, done, missed, stats)
           changed == [missed EXCEPT ![due] = v]
<1>1. page.missed = missed
  BY DEF Page
<1>2. [page EXCEPT !.missed[due] = v] = [page EXCEPT !.missed = [page.missed EXCEPT ![due] = v]]
  <2> HIDE DEF page
  <2> QED
    OBVIOUS
<1>3. [page.missed EXCEPT ![due] = v] = changed
  BY <1>1
<1> HIDE DEF changed
<1>4. [page EXCEPT !.missed = changed] = Page(pending, done, changed, stats)
  BY DEF Page
<1> HIDE DEF page
<1>5. [page EXCEPT !.missed[due] = v] = Page(pending, done, changed, stats)
  BY <1>2, <1>3, <1>4
<1> QED
  BY <1>5 DEF changed, page, Over, PutInto

\* The page after a row of another day has changed its status.
LEMMA Restated ==
  ASSUME TablesTypeOK, NEW K, RowsOnce(K), NEW i, NEW due, due # today,
         NEW r \in K, Key(r, i, due), NEW x \in Row, Key(x, i, due), x # r,
         NEW missed, due \in DOMAIN missed, missed[due] = InSchedule(K),
         NEW pending, NEW done, NEW old, NEW stats
  PROVE  LET inner == Page(pending, done,
                           Over(missed, due, InSchedule((K \ {r}) \cup {x})), stats)
         IN  Patched(Page(pending, done, missed, old), inner, i, due) = inner
<1> DEFINE K2    == (K \ {r}) \cup {x}
           page  == Page(pending, done, missed, old)
           inner == Page(pending, done, Over(missed, due, InSchedule(K2)), stats)
           row   == renderMissedFragment(inner, i, due)
<1>1. r.task = i /\ r.due = due /\ x.task = i /\ x.due = due
  BY DEF Key
<1>2. /\ RowsOnce(K2)
      /\ ReplaceAt(InSchedule(K), FirstPlace(InSchedule(K), i, due), x) = InSchedule(K2)
  BY <1>1, RowReplaced
<1>3. x \in K2
  OBVIOUS
<1>4. Places(InSchedule(K2), i, due) # {}
      /\ InSchedule(K2)[FirstPlace(InSchedule(K2), i, due)] = x
  BY <1>1, <1>2, <1>3, Found
<1> HIDE DEF K2
<1>5. inner.missed[due] = InSchedule(K2) /\ due \in DOMAIN inner.missed
  BY DEF Page, Over
<1>6. row = x
  BY <1>4, <1>5 DEF renderMissedFragment
<1>7. row # NULL
  BY <1>6, RowsAssumption
<1> HIDE DEF row
<1>8. PatchMissed(page, row, i, due)
        = Page(pending, done, Over(missed, due, InSchedule(K2)), old)
  <2> DEFINE v == IF row = NULL THEN Without(page.missed[due], i, due)
                  ELSE ReplaceAt(page.missed[due], FirstPlace(page.missed[due], i, due), row)
  <2>1. page.missed = missed
    BY DEF Page
  <2>2. v = InSchedule(K2)
    BY <1>2, <1>6, <1>7, <2>1
  <2>3. PatchMissed(page, row, i, due) = PutInto(page, due, v)
    BY Zenon DEF PatchMissed, PutInto
  <2>4. PutInto(page, due, v) = Page(pending, done, Over(missed, due, v), old)
    BY MissedChanged
  <2> HIDE DEF v
  <2> QED
    BY <2>2, <2>3, <2>4
<1>9. Patched(page, inner, i, due) = inner
  BY <1>8 DEF Patched, Page, row
<1> QED
  BY <1>9 DEF K2

-----------------------------------------------------------------------------
(***************************************************************************)
(* What a toggle does to the occurrences of a page.                        *)
(***************************************************************************)
\* A toggle changes the status of one occurrence, unless it is exempt.
LEMMA OthersStay ==
  ASSUME NEW u, NEW i, NEW due, NEW j, NEW d, ~(j = i /\ d = due)
  PROVE  OccurrenceIn(After(u, i, due), u, j, d) = OccurrenceIn(completions, u, j, d)
<1> DEFINE E    == After(u, i, due)
           now  == {c \in completions : c.user = u}
           then == {c \in E : c.user = u}
           all  == {p \in periods : p.user = u}
<1>1. \A c : c \in E /\ c.task = j /\ c.due = d <=> c \in completions /\ c.task = j /\ c.due = d
  BY DEF After, Uncompleted, Completed, CompletionsOf
<1>2. {c \in then : c.task = j /\ c.due = d} = {c \in now : c.task = j /\ c.due = d}
  BY <1>1
<1> HIDE DEF E, now, then, all
<1>3. Occurrence(tasks[j], j, d, then, all, today) = Occurrence(tasks[j], j, d, now, all, today)
  BY <1>2, Zenon DEF Occurrence
<1> QED
  BY <1>3 DEF OccurrenceIn, E, now, then, all

Flipped(o, p) ==
  /\ p.status # "exempt"
  /\ p.status = "completed" <=> o.status # "completed"
  /\ p.status = "completed" => p.at = today
  /\ p.status # "completed" => p.status = IF p.due < today THEN "missed" ELSE "pending"
  /\ o.status # "completed" => o.status = IF o.due < today THEN "missed" ELSE "pending"

\* The occurrence that is toggled is completed now, or was until now.
LEMMA Flips ==
  ASSUME NEW u, NEW i, NEW due, OccurrenceIn(completions, u, i, due).status # "exempt"
  PROVE  Flipped(OccurrenceIn(completions, u, i, due), OccurrenceIn(After(u, i, due), u, i, due))
<1> DEFINE E    == After(u, i, due)
           now  == {c \in {c \in completions : c.user = u} : c.task = i /\ c.due = due}
           then == {c \in {c \in E : c.user = u} : c.task = i /\ c.due = due}
           away == tasks[i].exempt /\ dateInAnyPeriod(due, {p \in periods : p.user = u})
           st(rows) == IF away THEN "exempt" ELSE IF rows # {} THEN "completed"
                       ELSE IF due < today THEN "missed" ELSE "pending"
           occ(rows) == [task |-> i, due |-> due, status |-> st(rows),
                         at |-> IF st(rows) = "completed" THEN (CHOOSE c \in rows : TRUE).at ELSE NULL]
<1>1. now = CompletionsOf(u, i, due)
  BY DEF CompletionsOf
<1>2. now = {} => then = {[user |-> u, task |-> i, due |-> due, at |-> today]}
  BY <1>1 DEF After, HasCompletion, Completed, CompletionsOf
<1>3. now # {} => then = {}
  BY <1>1 DEF After, HasCompletion, Uncompleted, CompletionsOf
<1>4. OccurrenceIn(completions, u, i, due) = occ(now) /\ OccurrenceIn(E, u, i, due) = occ(then)
  BY Zenon DEF OccurrenceIn, Occurrence
<1> HIDE DEF E, now, then, away
<1>5. ~away
  BY <1>4
<1>6. CASE now = {}
  <2> DEFINE row == [user |-> u, task |-> i, due |-> due, at |-> today]
  <2>1. row.at = today /\ then = {row}
    BY <1>2, <1>6
  <2> HIDE DEF row
  <2>2. (CHOOSE c \in then : TRUE) = row
    BY <2>1
  <2>3. (CHOOSE c \in then : TRUE).at = today /\ then # {}
    BY <2>1, <2>2
  <2> QED
    BY <1>4, <1>5, <1>6, <2>3 DEF Flipped, E
<1>7. CASE now # {}
  BY <1>3, <1>4, <1>5, <1>7 DEF Flipped, E
<1> QED
  BY <1>6, <1>7

RowSet(S) == {RowOf(o) : o \in S}

\* One occurrence for each task and date.
KeyedOnce(S) == \A o, p \in S : o.task = p.task /\ o.due = p.due => o = p

\* An occurrence of a range is that of its task on its date.
LEMMA GivenFields ==
  ASSUME TablesTypeOK, NEW done, NEW u, NEW from \in Int, NEW to \in Int,
         NEW o \in Given(done, u, from, to)
  PROVE  /\ o.task \in Active /\ o.due \in from .. to /\ DueOn(tasks[o.task], o.due)
         /\ o = OccurrenceIn(done, u, o.task, o.due) /\ o.status \in Statuses
<1>1. PICK i \in Active, d \in from .. to : DueOn(tasks[i], d) /\ o = OccurrenceIn(done, u, i, d)
  BY GivenAre
<1> QED
  BY <1>1, OccurrenceInFields

\* Occurrences of a range have a row each.
LEMMA RowSetOnce ==
  ASSUME TablesTypeOK, NEW done, NEW u, NEW from \in Int, NEW to \in Int,
         NEW S \in SUBSET Given(done, u, from, to)
  PROVE  KeyedOnce(S) /\ RowsOnce(RowSet(S))
<1>1. IsFiniteSet(S)
  BY GivenFinite, FS_Subset
<1>2. \A o \in S : /\ o.task \in Active /\ o.task \in TaskIds /\ o.due \in Int
                   /\ o.status \in Statuses /\ o = OccurrenceIn(done, u, o.task, o.due)
  BY GivenFields DEF Active, Existing
<1>3. KeyedOnce(S)
  BY <1>2 DEF KeyedOnce
<1>4. IsFiniteSet(RowSet(S))
  <2> DEFINE f == [o \in S |-> RowOf(o)]
  <2>1. f \in Surjection(S, RowSet(S))
    BY DEF Surjection, RowSet
  <2> QED
    BY <1>1, <2>1, FS_Surjection
<1>5. \A r \in RowSet(S) : \E o \in S : r = RowOf(o)
  BY DEF RowSet
<1>6. RowSet(S) \subseteq Row /\ \A r \in RowSet(S) : r.task \in Active
  BY <1>2, <1>5 DEF RowOf, Row
<1>7. ASSUME NEW r \in RowSet(S), NEW s \in RowSet(S), r.task = s.task, r.due = s.due
      PROVE  r = s
  <2>1. PICK o \in S : r = RowOf(o)
    BY <1>5
  <2>2. PICK p \in S : s = RowOf(p)
    BY <1>5
  <2>3. o = p
    BY <1>3, <1>7, <2>1, <2>2 DEF KeyedOnce, RowOf
  <2> QED
    BY <2>1, <2>2, <2>3
<1> QED
  BY <1>3, <1>4, <1>6, <1>7 DEF RowsOnce

\* Without an occurrence, its row is missing, and no other.
LEMMA RowSetLess ==
  ASSUME NEW S, KeyedOnce(S), NEW o \in S
  PROVE  RowSet(S) \ {RowOf(o)} = RowSet(S \ {o}) /\ RowOf(o) \in RowSet(S)
<1>1. \A p \in S : RowOf(p) = RowOf(o) => p = o
  BY DEF KeyedOnce, RowOf
<1> QED
  BY <1>1 DEF RowSet

\* Two sets that differ in one element.
Exchange(S, o, T, p) == o \in S /\ p \in T /\ S \ {o} = T \ {p}

\* A toggle leaves the occurrences of other days alone, and exchanges one of its own day.
LEMMA OtherDays ==
  ASSUME TablesTypeOK, NEW u, NEW i, NEW due, NEW from \in Int, NEW to \in Int,
         due \notin from .. to
  PROVE  Given(After(u, i, due), u, from, to) = Given(completions, u, from, to)
<1>1. \A j : \A d \in from .. to :
        OccurrenceIn(After(u, i, due), u, j, d) = OccurrenceIn(completions, u, j, d)
  BY OthersStay
<1>2. \A o : o \in Given(After(u, i, due), u, from, to) <=> o \in Given(completions, u, from, to)
  BY <1>1, GivenAre
<1> QED
  BY <1>2

\* The occurrence that is toggled is exchanged for another of its task and date.
LEMMA DayExchanged ==
  ASSUME TablesTypeOK, NEW u, NEW from \in Int, NEW to \in Int, NEW o \in Given(completions, u, from, to),
         NEW i, NEW due, i = o.task, due = o.due
  PROVE  Exchange(Given(completions, u, from, to), o,
                  Given(After(u, i, due), u, from, to), OccurrenceIn(After(u, i, due), u, i, due))
<1> DEFINE S == Given(completions, u, from, to)
           T == Given(After(u, i, due), u, from, to)
           p == OccurrenceIn(After(u, i, due), u, i, due)
<1>1. i \in Active /\ due \in from .. to /\ DueOn(tasks[i], due)
      /\ o = OccurrenceIn(completions, u, i, due)
  BY GivenFields
<1>2. p \in T
  BY <1>1, GivenAre
<1>3. ASSUME NEW x
      PROVE  x \in S /\ x # o <=> x \in T /\ x # p
  <2>1. x \in S <=> \E j \in Active, d \in from .. to :
                      DueOn(tasks[j], d) /\ x = OccurrenceIn(completions, u, j, d)
    BY GivenAre
  <2>2. x \in T <=> \E j \in Active, d \in from .. to :
                      DueOn(tasks[j], d) /\ x = OccurrenceIn(After(u, i, due), u, j, d)
    BY GivenAre
  <2>3. \A j, d : ~(j = i /\ d = due) =>
          OccurrenceIn(After(u, i, due), u, j, d) = OccurrenceIn(completions, u, j, d)
    BY OthersStay
  <2>4. \A done, j, d : OccurrenceIn(done, u, j, d).task = j /\ OccurrenceIn(done, u, j, d).due = d
    BY OccurrenceInFields
  <2>5. \A j, d : OccurrenceIn(completions, u, j, d) # o <=> ~(j = i /\ d = due)
    BY <1>1, <2>4
  <2>6. \A j, d : OccurrenceIn(After(u, i, due), u, j, d) # p <=> ~(j = i /\ d = due)
    BY <2>4
  <2> QED
    BY <2>1, <2>2, <2>3, <2>5, <2>6
<1> HIDE DEF S, T, p
<1>4. S \ {o} = T \ {p}
  BY <1>3
<1> QED
  BY <1>2, <1>4 DEF S, T, p, Exchange

\* The page of given occurrences.
Waiting(day)    == {o \in day : ~Complete(o) /\ ~Exempt(o)}
Finished(day)   == {o \in day : Complete(o) \/ Exempt(o)}
OnDay(shown, d) == {o \in shown : o.due = d}
Groups(shown)   == [d \in {o.due : o \in shown} |-> InSchedule(RowSet(OnDay(shown, d)))]

\* What buildInner makes of them.
LEMMA InnerIs ==
  ASSUME NEW day, NEW shown, NEW stats
  PROVE  InnerOf(day, shown, stats)
           = Page(InSchedule(RowSet(Waiting(day))), InSchedule(RowSet(Finished(day))),
                  Groups(shown), stats)
BY Zenon DEF InnerOf, Page, Groups, RowsOf, RowSet, Waiting, Finished, OnDay

\* The section of missed ones starts at a date.
LEMMA MissedDays ==
  ASSUME TablesTypeOK
  PROVE  MissedDates # {} => MissedFrom(MissedDates) \in Int
<1>1. PICK start \in Int : MissedDates = start .. today - 1
  <2>1. AppSettings.weekStart \in Int /\ AppSettings.weeks \in Int /\ today \in Int
    BY SettingsLegal, RowsAndDates DEF Weekdays
  <2>2. WeekStartFor(today, AppSettings.weekStart) - 7 * (Later(AppSettings.weeks, 1) - 1) \in Int
    BY <2>1 DEF WeekStartFor, Weekday, Later
  <2> QED
    BY <2>2 DEF MissedDates, WeekDatesForHistory
<1> SUFFICES ASSUME MissedDates # {} PROVE MissedFrom(MissedDates) \in Int
  OBVIOUS
<1>2. \E d \in MissedDates : \A e \in MissedDates : d <= e
  BY <1>1, RowsAndDates
<1>3. MissedFrom(MissedDates) \in MissedDates
  BY <1>2 DEF MissedFrom
<1> QED
  BY <1>1, <1>3

-----------------------------------------------------------------------------
(***************************************************************************)
(* The fragments of a toggle.                                              *)
(***************************************************************************)
\* A button belongs to an occurrence of today, or to one of the missed section.
LEMMA ButtonOf ==
  ASSUME TablesTypeOK, NEW day, NEW shown, NEW stats,
         RowsOnce(RowSet(Waiting(day))), RowsOnce(RowSet(Finished(day))),
         \A d : RowsOnce(RowSet(OnDay(shown, d))),
         NEW r \in Buttons(InnerOf(day, shown, stats))
  PROVE  \E o \in day \cup shown : r = RowOf(o) /\ o.status # "exempt"
<1> DEFINE page == InnerOf(day, shown, stats)
<1>1. \A K : RowsOnce(K) => \A n \in DOMAIN InSchedule(K) : InSchedule(K)[n] \in K
  BY RowsListed DEF Arranged
<1>2. /\ page.pending = InSchedule(RowSet(Waiting(day)))
      /\ page.done = InSchedule(RowSet(Finished(day)))
      /\ page.missed = Groups(shown)
  BY InnerIs DEF Page
<1>3. r.status # "exempt"
  BY DEF Buttons
<1>4. \/ \E n \in DOMAIN page.pending : r = page.pending[n]
      \/ \E n \in DOMAIN page.done : r = page.done[n]
      \/ \E d \in DOMAIN page.missed : \E n \in DOMAIN page.missed[d] : r = page.missed[d][n]
  BY DEF Buttons
<1> HIDE DEF page
<1>5. \A S, x : x \in RowSet(S) => \E o \in S : x = RowOf(o) /\ x.status = o.status
  BY DEF RowSet, RowOf
<1>6. CASE \E n \in DOMAIN page.pending : r = page.pending[n]
  <2>1. r \in RowSet(Waiting(day))
    BY <1>1, <1>2, <1>6
  <2> QED
    BY <1>3, <1>5, <2>1 DEF Waiting
<1>7. CASE \E n \in DOMAIN page.done : r = page.done[n]
  <2>1. r \in RowSet(Finished(day))
    BY <1>1, <1>2, <1>7
  <2> QED
    BY <1>3, <1>5, <2>1 DEF Finished
<1>8. CASE \E d \in DOMAIN page.missed : \E n \in DOMAIN page.missed[d] : r = page.missed[d][n]
  <2>1. PICK d \in DOMAIN page.missed : \E n \in DOMAIN page.missed[d] : r = page.missed[d][n]
    BY <1>8
  <2>2. page.missed[d] = InSchedule(RowSet(OnDay(shown, d)))
    BY <1>2, <2>1 DEF Groups
  <2>3. r \in RowSet(OnDay(shown, d))
    BY <1>1, <2>1, <2>2
  <2> QED
    BY <1>3, <1>5, <2>3 DEF OnDay
<1> QED
  BY <1>4, <1>6, <1>7, <1>8

\* An occurrence of today that is ticked moves from the list of those that wait
\* to that of the finished ones; the section of missed ones stays as it is.
LEMMA TodayStays ==
  ASSUME TablesTypeOK, NEW i, NEW day, NEW after, KeyedOnce(day), KeyedOnce(after),
         RowsOnce(RowSet(Waiting(day))), RowsOnce(RowSet(Finished(day))),
         RowsOnce(RowSet(Waiting(after))), RowsOnce(RowSet(Finished(after))),
         NEW o, NEW p, Exchange(day, o, after, p),
         o.task = i, o.due = today, p.task = i, p.due = today,
         o.status # "exempt", Flipped(o, p), NEW shown, NEW old, NEW stats
  PROVE  Patched(InnerOf(day, shown, old), InnerOf(after, shown, stats), i, today)
           = InnerOf(after, shown, stats)
<1> DEFINE missed == Groups(shown)
<1>1. /\ InnerOf(day, shown, old)
           = Page(InSchedule(RowSet(Waiting(day))), InSchedule(RowSet(Finished(day))), missed, old)
      /\ InnerOf(after, shown, stats)
           = Page(InSchedule(RowSet(Waiting(after))), InSchedule(RowSet(Finished(after))), missed, stats)
  BY InnerIs
<1>2. o \in day /\ p \in after /\ day \ {o} = after \ {p}
  BY DEF Exchange
<1>3. /\ KeyedOnce(Waiting(day)) /\ KeyedOnce(Finished(day))
      /\ KeyedOnce(Waiting(after)) /\ KeyedOnce(Finished(after))
  BY DEF KeyedOnce, Waiting, Finished
<1>4. Key(RowOf(o), i, today) /\ Key(RowOf(p), i, today)
  BY DEF Key, RowOf
<1> HIDE DEF missed
<1>5. CASE ~Complete(o)
  <2>1. o \in Waiting(day) /\ p \in Finished(after) /\ p \notin Waiting(after) /\ o \notin Finished(day)
    BY <1>2, <1>5 DEF Waiting, Finished, Complete, Exempt, Flipped
  <2>2. Waiting(day) \ {o} = Waiting(after) /\ Finished(after) \ {p} = Finished(day)
    <3>1. \A x : x \in Waiting(day) /\ x # o <=> x \in Waiting(after)
      BY <1>2, <2>1 DEF Waiting
    <3>2. \A x : x \in Finished(after) /\ x # p <=> x \in Finished(day)
      BY <1>2, <2>1 DEF Finished
    <3> QED
      BY <3>1, <3>2
  <2>3. /\ RowSet(Waiting(day)) \ {RowOf(o)} = RowSet(Waiting(after))
        /\ RowOf(o) \in RowSet(Waiting(day))
    BY <1>3, <2>1, <2>2, RowSetLess
  <2>4. /\ RowSet(Finished(after)) \ {RowOf(p)} = RowSet(Finished(day))
        /\ RowOf(p) \in RowSet(Finished(after))
    BY <1>3, <2>1, <2>2, RowSetLess
  <2>5. Patched(Page(InSchedule(RowSet(Waiting(day))),
                     InSchedule(RowSet(Finished(after)) \ {RowOf(p)}), missed, old),
                Page(InSchedule(RowSet(Waiting(day)) \ {RowOf(o)}),
                     InSchedule(RowSet(Finished(after))), missed, stats), i, today)
          = Page(InSchedule(RowSet(Waiting(day)) \ {RowOf(o)}),
                 InSchedule(RowSet(Finished(after))), missed, stats)
    BY <1>4, <2>3, <2>4, Ticked
  <2> QED
    BY <1>1, <2>3, <2>4, <2>5
<1>6. CASE Complete(o)
  <2>1. o \in Finished(day) /\ p \in Waiting(after) /\ p \notin Finished(after) /\ o \notin Waiting(day)
    BY <1>2, <1>6 DEF Waiting, Finished, Complete, Exempt, Flipped
  <2>2. Finished(day) \ {o} = Finished(after) /\ Waiting(after) \ {p} = Waiting(day)
    <3>1. \A x : x \in Finished(day) /\ x # o <=> x \in Finished(after)
      BY <1>2, <2>1 DEF Finished
    <3>2. \A x : x \in Waiting(after) /\ x # p <=> x \in Waiting(day)
      BY <1>2, <2>1 DEF Waiting
    <3> QED
      BY <3>1, <3>2
  <2>3. /\ RowSet(Finished(day)) \ {RowOf(o)} = RowSet(Finished(after))
        /\ RowOf(o) \in RowSet(Finished(day))
    BY <1>3, <2>1, <2>2, RowSetLess
  <2>4. /\ RowSet(Waiting(after)) \ {RowOf(p)} = RowSet(Waiting(day))
        /\ RowOf(p) \in RowSet(Waiting(after))
    BY <1>3, <2>1, <2>2, RowSetLess
  <2>5. Patched(Page(InSchedule(RowSet(Waiting(after)) \ {RowOf(p)}),
                     InSchedule(RowSet(Finished(day))), missed, old),
                Page(InSchedule(RowSet(Waiting(after))),
                     InSchedule(RowSet(Finished(day)) \ {RowOf(o)}), missed, stats), i, today)
          = Page(InSchedule(RowSet(Waiting(after))),
                 InSchedule(RowSet(Finished(day)) \ {RowOf(o)}), missed, stats)
    BY <1>4, <2>3, <2>4, Unticked
  <2> QED
    BY <1>1, <2>3, <2>4, <2>5
<1> QED
  BY <1>5, <1>6

\* One of another day changes its status where it is.
LEMMA MissedStays ==
  ASSUME TablesTypeOK, NEW i, NEW due, due # today, NEW day, NEW shown, NEW after,
         KeyedOnce(shown), KeyedOnce(after), RowsOnce(RowSet(OnDay(shown, due))),
         NEW o, NEW p, Exchange(shown, o, after, p), RowOf(p) \in Row,
         o.task = i, o.due = due, p.task = i, p.due = due, Flipped(o, p), NEW old, NEW stats
  PROVE  Patched(InnerOf(day, shown, old), InnerOf(day, after, stats), i, due)
           = InnerOf(day, after, stats)
<1> DEFINE K == RowSet(OnDay(shown, due))
           L == RowSet(OnDay(after, due))
           r == RowOf(o)
           x == RowOf(p)
           pending == InSchedule(RowSet(Waiting(day)))
           done    == InSchedule(RowSet(Finished(day)))
<1>1. /\ InnerOf(day, shown, old) = Page(pending, done, Groups(shown), old)
      /\ InnerOf(day, after, stats) = Page(pending, done, Groups(after), stats)
  BY InnerIs
<1>2. o \in shown /\ p \in after /\ shown \ {o} = after \ {p}
  BY DEF Exchange
<1>3. L = (K \ {r}) \cup {x} /\ r \in K
  <2>1. KeyedOnce(OnDay(shown, due)) /\ KeyedOnce(OnDay(after, due))
    BY DEF KeyedOnce, OnDay
  <2>2. o \in OnDay(shown, due) /\ p \in OnDay(after, due)
    BY <1>2 DEF OnDay
  <2>3. OnDay(shown, due) \ {o} = OnDay(after, due) \ {p}
    <3>1. \A y : y \in OnDay(shown, due) /\ y # o <=> y \in OnDay(after, due) /\ y # p
      BY <1>2 DEF OnDay
    <3> QED
      BY <3>1
  <2>4. K \ {r} = RowSet(OnDay(shown, due) \ {o}) /\ r \in K
    BY <2>1, <2>2, RowSetLess
  <2>5. L \ {x} = RowSet(OnDay(after, due) \ {p}) /\ x \in L
    BY <2>1, <2>2, RowSetLess
  <2> QED
    BY <2>3, <2>4, <2>5
<1>4. \A d : d # due => OnDay(shown, d) = OnDay(after, d)
  <2>1. \A d, y : d # due => (y \in OnDay(shown, d) <=> y \in OnDay(after, d))
    BY <1>2 DEF OnDay
  <2> QED
    BY <2>1
<1>5. {y.due : y \in shown} = {y.due : y \in after} /\ due \in {y.due : y \in shown}
  <2>1. \A d : (\E y \in shown : d = y.due) <=> (\E y \in after : d = y.due)
    BY <1>2
  <2> QED
    BY <1>2, <2>1
<1>6. due \in DOMAIN Groups(shown) /\ Groups(shown)[due] = InSchedule(K)
  BY <1>5 DEF Groups
<1>7. Groups(after) = Over(Groups(shown), due, InSchedule(L))
  <2> DEFINE dues    == {y.due : y \in shown}
             here(d)  == InSchedule(RowSet(OnDay(shown, d)))
             there(d) == InSchedule(RowSet(OnDay(after, d)))
  <2>1. Groups(shown) = [d \in dues |-> here(d)] /\ Groups(after) = [d \in dues |-> there(d)]
    BY <1>5, Zenon DEF Groups
  <2>2. \A d : d # due => here(d) = there(d)
    BY <1>4
  <2>3. there(due) = InSchedule(L)
    OBVIOUS
  <2> HIDE DEF dues, here, there, L
  <2> QED
    BY <2>1, <2>2, <2>3 DEF Over
<1>8. Key(r, i, due) /\ Key(x, i, due) /\ r # x
  BY DEF Key, RowOf, Flipped
<1> DEFINE missed == Groups(shown)
<1>9. x \in Row /\ RowsOnce(K) /\ due \in DOMAIN missed /\ missed[due] = InSchedule(K) /\ r \in K
  BY <1>3, <1>6
<1> HIDE DEF K, L, r, x, missed, pending, done
<1>10. Patched(Page(pending, done, missed, old),
               Page(pending, done, Over(missed, due, InSchedule((K \ {r}) \cup {x})), stats), i, due)
         = Page(pending, done, Over(missed, due, InSchedule((K \ {r}) \cup {x})), stats)
  BY <1>8, <1>9, Restated
<1> QED
  BY <1>1, <1>3, <1>7, <1>10 DEF missed

\* A button is that of one occurrence, which the toggle exchanges for another; so
\* the page changes by one row, which is what the fragments say.
LEMMA FragmentsMatch == TablesTypeOK => FragmentsMatchReload
<1> SUFFICES ASSUME TablesTypeOK, NEW u \in members, NEW r \in Buttons(buildInner(u)),
                    NEW i, i = r.task, NEW due, due = r.due
             PROVE  Patched(buildInner(u), Toggled(u, i, due)!buildInner(u), i, due)
                      = Toggled(u, i, due)!buildInner(u)
  BY DEF FragmentsMatchReload, StayUpToDate, StaysUpToDate
<1> DEFINE E     == After(u, i, due)
           day   == Given(completions, u, today, today)
           later == Given(E, u, today, today)
           shown == Shown(completions, u)
           after == Shown(E, u)
           old   == computeStats(u)
           stats == Toggled(u, i, due)!computeStats(u)
<1>1. /\ buildInner(u) = InnerOf(day, shown, old)
      /\ Toggled(u, i, due)!buildInner(u) = InnerOf(later, after, stats)
  BY InnerNow, InnerToggled DEF InnerGiven
<1>2. today \in Int
  BY RowsAndDates
<1> HIDE DEF old, stats
\* Where the section of missed ones starts, if it is not empty.
<1>3. PICK from \in Int : \A done :
        Shown(done, u) \in SUBSET Given(done, u, from, today - 1)
          /\ (MissedDates # {} => from = MissedFrom(MissedDates))
  <2>1. CASE MissedDates = {}
    BY <1>2, <2>1 DEF Shown
  <2>2. CASE MissedDates # {}
    <3>1. MissedFrom(MissedDates) \in Int
      BY <2>2, MissedDays
    <3> QED
      BY <2>2, <3>1 DEF Shown
  <2> QED
    BY <2>1, <2>2
<1>4. today - 1 \in Int
  BY <1>2
<1>5. ASSUME NEW done
      PROVE  /\ \A S \in SUBSET Given(done, u, today, today) : KeyedOnce(S) /\ RowsOnce(RowSet(S))
             /\ \A S \in SUBSET Shown(done, u) : KeyedOnce(S) /\ RowsOnce(RowSet(S))
  <2>1. \A S \in SUBSET Given(done, u, today, today) : KeyedOnce(S) /\ RowsOnce(RowSet(S))
    BY <1>2, RowSetOnce
  <2>2. \A S \in SUBSET Given(done, u, from, today - 1) : KeyedOnce(S) /\ RowsOnce(RowSet(S))
    BY <1>3, <1>4, RowSetOnce
  <2> QED
    BY <1>3, <2>1, <2>2
<1>6. /\ \A S : Waiting(S) \in SUBSET S /\ Finished(S) \in SUBSET S
      /\ \A S, d : OnDay(S, d) \in SUBSET S
  BY DEF Waiting, Finished, OnDay
<1>7. /\ KeyedOnce(day) /\ KeyedOnce(later)
      /\ RowsOnce(RowSet(Waiting(day))) /\ RowsOnce(RowSet(Finished(day)))
      /\ RowsOnce(RowSet(Waiting(later))) /\ RowsOnce(RowSet(Finished(later)))
  BY <1>5, <1>6
<1>8. /\ KeyedOnce(shown) /\ KeyedOnce(after)
      /\ \A d : RowsOnce(RowSet(OnDay(shown, d)))
  BY <1>5, <1>6
<1>9. PICK o \in day \cup shown : r = RowOf(o) /\ o.status # "exempt"
  BY <1>1, <1>7, <1>8, ButtonOf
<1>10. o.task = i /\ o.due = due
  BY <1>9 DEF RowOf
<1> DEFINE p == OccurrenceIn(E, u, i, due)
<1>11. o = OccurrenceIn(completions, u, i, due)
  <2>1. o \in Given(completions, u, today, today) \/ o \in Given(completions, u, from, today - 1)
    BY <1>3, <1>9
  <2> QED
    BY <1>2, <1>3, <1>4, <1>10, <2>1, GivenFields
<1>12. Flipped(o, p)
  BY <1>9, <1>11, Flips
<1>13. p.task = i /\ p.due = due /\ p.status \in Statuses
  BY OccurrenceInFields
<1>14. CASE o \in day
  <2>1. due = today
    BY <1>2, <1>10, <1>14, GivenFields
  <2>2. Exchange(day, o, later, p)
    BY <1>2, <1>10, <1>14, DayExchanged
  <2>3. after = shown
    <3>1. due \notin from .. today - 1
      BY <1>2, <2>1
    <3>2. Given(E, u, from, today - 1) = Given(completions, u, from, today - 1)
      BY <1>3, <1>4, <3>1, OtherDays
    <3> QED
      BY <1>3, <3>2 DEF Shown
  <2> HIDE DEF E, day, later, shown, after, p
  <2>4. Patched(InnerOf(day, shown, old), InnerOf(later, shown, stats), i, today)
          = InnerOf(later, shown, stats)
    BY <1>7, <1>9, <1>10, <1>12, <1>13, <2>1, <2>2, TodayStays
  <2> QED
    BY <1>1, <2>1, <2>3, <2>4
<1>15. CASE o \in shown
  <2>1. /\ MissedDates # {} /\ o \in Given(completions, u, from, today - 1)
        /\ showInMissedSection(o) /\ from = MissedFrom(MissedDates)
    BY <1>3, <1>15 DEF Shown
  <2>2. due \in from .. today - 1 /\ o.task \in Active
    BY <1>3, <1>4, <1>10, <2>1, GivenFields
  <2>3. due # today /\ due < today /\ due \in Int
    BY <1>2, <1>3, <2>2
  <2>4. later = day
    <3>1. due \notin today .. today
      BY <1>2, <2>3
    <3> QED
      BY <1>2, <3>1, OtherDays
  <2>5. Exchange(Given(completions, u, from, today - 1), o, Given(E, u, from, today - 1), p)
    BY <1>3, <1>4, <1>10, <2>1, DayExchanged
  <2>6. showInMissedSection(p)
    BY <1>2, <1>12, <1>13, <2>3 DEF Flipped, showInMissedSection, Complete
  <2>7. \A done : Shown(done, u) = {x \in Given(done, u, from, today - 1) : showInMissedSection(x)}
    BY <2>1 DEF Shown
  <2>8. Exchange(shown, o, after, p)
    <3> DEFINE S == Given(completions, u, from, today - 1)
               T == Given(E, u, from, today - 1)
    <3>1. /\ shown = {x \in S : showInMissedSection(x)}
          /\ after = {x \in T : showInMissedSection(x)}
          /\ o \in S /\ p \in T /\ S \ {o} = T \ {p}
      BY <2>5, <2>7 DEF Exchange
    <3> HIDE DEF S, T, shown, after, p
    <3>2. \A x : x \in shown /\ x # o <=> x \in after /\ x # p
      BY <3>1
    <3> QED
      BY <2>1, <2>6, <3>1, <3>2 DEF Exchange
  <2>9. RowOf(p) \in Row
    BY <1>10, <1>13, <2>2, <2>3 DEF RowOf, Row, Active, Existing
  <2> HIDE DEF E, day, later, shown, after, p
  <2>10. Patched(InnerOf(day, shown, old), InnerOf(day, after, stats), i, due)
           = InnerOf(day, after, stats)
    BY <1>8, <1>10, <1>12, <1>13, <2>3, <2>8, <2>9, MissedStays
  <2> QED
    BY <1>1, <2>4, <2>10
<1> QED
  BY <1>9, <1>14, <1>15

\* In every state, a page that was built before a toggle and patched with the
\* fragments that answer it is the page that is built after it: the row has
\* moved to its place in the other list, or has changed its status in its group,
\* and all others, the groups and the statistics are those of the new page
\* (renderTodayToggleFragments, renderToggleFragments, the script of layout.html).
THEOREM FragmentsReload == TrackerSpec => []FragmentsMatchReload
BY TrackerTablesCorrect, FragmentsMatch, PTL
==============================================================================
