------------------------------- MODULE Pages -------------------------------
(***************************************************************************)
(* The pages together, over the states the tracker reaches: each of them   *)
(* works out statuses, totals and weeks by code of its own.                *)
(***************************************************************************)
EXTENDS Tracker, Script, Calendar, Leaderboard

\* The program is much younger than the dates its date fields start from.
ASSUME ClockAssumption == \A d \in Days : d >= Date(1971, 1, 1)

WeekStart == WeekStartFor(today, AppSettings.weekStart)
WeekEnd   == WeekStart + 6

\* occurrenceDates enumerates, whatever range it is asked for, the dates that
\* repeat the start date: no month end, leap day or last date makes a loop
\* stop early, skip a date or go past the range.
OccurrencesMatchSchedule ==
  \A i \in Existing :
    \A from \in {today - 366, today - 1, today + 1}, to \in {today, today + 31} :
      occurrenceDates(tasks[i], from, to) = {d \in from .. to : DueOn(tasks[i], d)}

Partition(weeks, bars, counts) ==
  /\ \A n \in DOMAIN weeks :
       /\ weeks[n].end - weeks[n].start \in 0 .. 6
       /\ n > 1 => Weekday(weeks[n].start) = AppSettings.weekStart
  /\ SumFunction([n \in DOMAIN bars |-> bars[n].total]) = Cardinality(counts)
  /\ SumFunction([n \in DOMAIN bars |-> bars[n].completed])
       = Cardinality({o \in counts : IsCompleted(o)})

\* The bars of a month split it into weeks: every occurrence that counts is in
\* exactly one of them, each bar but the first starts on the configured day,
\* and none is longer than a week.
BarsPartitionMonth ==
  \A u \in members :
    Partition(reportWeekRanges(MonthStart(WeekStart), MonthEnd(WeekStart), AppSettings.weekStart),
              buildReportData(u, {}, NoWeek).bars,
              {o \in OccurrencesBetween(u, MonthStart(WeekStart), MonthEnd(WeekStart)) :
                 occurrenceCountsTowardDue(o)})

\* The reports x[2] in which a cell of the matrix has the status.
With(reports, i, d, status) ==
  {x \in reports : \E n \in DOMAIN x[2].matrix.rows :
                     LET row == x[2].matrix.rows[n]
                     IN  row.task = i /\ d \in DOMAIN row.cells /\ row.cells[d] = status}

AddsUp(all, reports) ==
  /\ all.matrix.done = SumFunction([x \in reports |-> x[2].matrix.done])
  /\ all.matrix.due  = SumFunction([x \in reports |-> x[2].matrix.due])
  /\ \A n \in DOMAIN all.bars :
       /\ all.bars[n].total     = SumFunction([x \in reports |-> x[2].bars[n].total])
       /\ all.bars[n].completed = SumFunction([x \in reports |-> x[2].bars[n].completed])
  /\ \A n \in DOMAIN all.matrix.rows :
       \A d \in DOMAIN all.matrix.rows[n].cells, status \in Statuses :
         all.matrix.rows[n].cells[d].counts[status] =
           Cardinality(With(reports, all.matrix.rows[n].task, d, status))

\* What an administrator sees of all users adds up to what the report of each
\* of them shows, in the totals, in every bar and in every cell.
ReportsAddUp ==
  \A s \in {NoWeek, OnDate(today - 7)} :
    Cardinality(members) > 1 =>
      AddsUp(buildReportData(Administrator, {}, s),
             {<<u, buildReportData(u, {}, s)>> : u \in members})

RowOfUser(ranking, u) ==
  ranking[CHOOSE n \in DOMAIN ranking : ranking[n].row.user = u].row

SameNumbers(stats, matrix, row, past, ahead) ==
  /\ stats.weeklyTotal = matrix.due
  /\ stats.weeklyDone  = matrix.done - Cardinality(ahead)
  /\ stats.weeklyTotal = row.due
  /\ stats.weeklyDone  = row.completed
  /\ stats.weeklyTotal = SumFunction([c \in past |-> c.tally.total])
  /\ stats.weeklyDone  = SumFunction([c \in past |-> c.tally.completed])

CellsOf(weeks) == UNION {{weeks[w][k] : k \in 1 .. 7} : w \in DOMAIN weeks}

\* The dashboard, the report, the leaderboard and the calendar give the same
\* numbers for the current week; only the report adds what is completed ahead
\* of its date.
PagesAgree ==
  \A u \in members :
    SameNumbers(computeStats(u),
                buildReportData(u, {}, NoWeek).matrix,
                RowOfUser(buildLeaderboard("week", NULL).primary, u),
                {c \in CellsOf(buildGrid(u, parseMonth(NULL, today)).weeks) :
                   c.date \in WeekStart .. today},
                {o \in OccurrencesBetween(u, today + 1, WeekEnd) : IsCompleted(o)})

ExemptOnly(occs) == occs # {} /\ \A o \in occs : Exempt(o)

StreakFound(best, streak, day) ==
  best >= Earlier(streak, today - MonthStart(today) + (IF AllDone(day) THEN 1 ELSE 0))

\* The streak of the dashboard, as far as it lies in the month, is found by
\* the leaderboard too, unless days on which everything is exempt keep the
\* first and end the second.
StreaksAgree ==
  \A u \in members :
    \/ \E d \in MonthStart(today) .. today : ExemptOnly(OccurrencesOn(u, d))
    \/ StreakFound(RowOfUser(buildLeaderboard("month", NULL).streak, u).bestStreak,
                   Streak(u), OccurrencesOn(u, today))

Better(a, b) == \/ a.completed > b.completed
                \/ a.completed = b.completed /\ a.percent > b.percent
Longer(a, b) == \/ a.bestStreak > b.bestStreak
                \/ a.bestStreak = b.bestStreak /\ Better(a, b)

RanksOf(board) ==
  /\ \A n \in DOMAIN board.primary :
       board.primary[n].rank =
         1 + Cardinality({m \in DOMAIN board.primary :
                            Better(board.primary[m].row, board.primary[n].row)})
  /\ \A n \in DOMAIN board.streak :
       board.streak[n].rank =
         1 + Cardinality({m \in DOMAIN board.streak :
                            Longer(board.streak[m].row, board.streak[n].row)})

\* A rank is one more than the number of users with a better score, the same
\* for the same score, in both rankings and whatever the users are called.
RanksFair == \A kind \in {"week", "month"} : RanksOf(buildLeaderboard(kind, NULL))

MonthShown(u, mn, grid, cells) ==
  /\ {c.date : c \in {x \in cells : x.inMonth}} = FirstOf(mn) .. FirstOf(mn + 1) - 1
  /\ Cardinality(cells) = 7 * Len(grid.weeks)
  /\ \A w \in DOMAIN grid.weeks, k \in 1 .. 7 :
       Weekday(grid.weeks[w][k].date) = grid.weekdays[k]
  /\ \A c \in cells : c.tally = buildDay(u, c.date).tally

GridShown(u, mn, grid) == MonthShown(u, mn, grid, CellsOf(grid.weeks))

\* The grid of a month consists of weeks that start on the configured day, under
\* the heads of their columns, with every day of the month once; its cells agree
\* with the panel of their day.
GridShowsMonth ==
  \A u \in members, mn \in {MonthOf(today), MonthOf(today + 1)} :
    GridShown(u, mn, buildGrid(u, mn))

\* The week that is displayed can be asked for again: by the date in the date
\* field, which the field's minimum and its step of seven days accept, and by
\* the ISO week in the name of the exported file if weeks start on a Saturday,
\* Sunday or Monday (for other days that number belongs to the week before).
WeekPickerAgrees ==
  \A s \in {NoWeek} \cup {OnDate(today + 30 * k) : k \in -1 .. 1} :
    LET start == ReportWeek(s)
        min   == reportDateInputMin(AppSettings.weekStart)
    IN  /\ ReportWeek(OnDate(start)) = start
        /\ start >= min /\ (start - min) % 7 = 0
        /\ AppSettings.weekStart \in {6, 0, 1} =>
             ReportWeek(InWeek(reportWeekValue(start))) = start

\* The dashboard once a user has toggled an occurrence.
Toggled(u, i, due) ==
  INSTANCE Dashboard WITH completions <- IF HasCompletion(u, i, due)
                                         THEN Uncompleted(u, i, due) ELSE Completed(u, i, due)

StaysUpToDate(page, inner, i, due) == Patched(page, inner, i, due) = inner

StayUpToDate(u, page) ==
  \A r \in Buttons(page) :
    StaysUpToDate(page, Toggled(u, r.task, r.due)!buildInner(u), r.task, r.due)

\* A page that is up to date is so again once a row of it is toggled and the
\* fragments are applied: the row is where a new page has it, or gone from it.
FragmentsMatchReload == \A u \in members : StayUpToDate(u, buildInner(u))
=============================================================================
