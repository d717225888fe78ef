------------------------------ MODULE Reports ------------------------------
(***************************************************************************)
(* handlers/reports.go: the bars of a month, week by week, and the matrix  *)
(* of one week, for the user or for the users an administrator selects.    *)
(* A report is a record; the wording of its labels is left out.            *)
(***************************************************************************)
EXTENDS Tables, SequencesExt

CONSTANTS
  Name,         \* Name[u]; names 2k and 2k + 1 differ in case only
  Administrator \* an administrator, who is not among the regular users

ASSUME NamesAssumption ==
  /\ Users \subseteq Nat \ {0} /\ IsFiniteSet(Users)
  /\ Name \in [Users -> Nat]
  /\ Administrator \notin Users /\ Administrator # NULL

ToLower(name) == name \div 2

\* ListActiveRegularUsers: ORDER BY name, which the collation compares
\* without case.
ListActiveRegular ==
  InOrder(members, LAMBDA u, v : \/ ToLower(Name[u]) < ToLower(Name[v])
                                 \/ ToLower(Name[u]) = ToLower(Name[v]) /\ u < v)

\* percent rounds halves up (with floats, which agree for totals below 40).
percent(done, total) ==
  IF total <= 0 THEN 0 ELSE (200 * done + total) \div (2 * total)

(***************************************************************************)
(* The selection.                                                          *)
(***************************************************************************)

\* raw: the user_id parameters; the ids are looked for in the order of `all'.
selectedReportUsers(all, raw) ==
  FlattenSeq([n \in DOMAIN all |-> IF all[n] \in raw THEN <<all[n]>> ELSE <<>>])

selectedReportUsersForCurrent(current, all, raw) ==
  IF current # Administrator THEN <<current>>
  ELSE selectedReportUsers(all, IF raw # {} THEN raw ELSE {all[n] : n \in DOMAIN all})

reportDateInputMin(startDay) == Date(1970, 1, 4) + startDay

\* The parameter: NULL, a date, or the year and number of an ISO week.
NoWeek     == [kind |-> "none"]
OnDate(d)  == [kind |-> "date", date |-> d]
InWeek(w)  == [kind |-> "week", week |-> w]

parseReportWeek(s, fallback, startDay) ==
  CASE s.kind = "date" -> WeekStartFor(s.date, startDay)
    [] s.kind = "week" /\ validISOWeek(s.week.year, s.week.week) ->
         WeekStartFor(isoWeekStart(s.week.year, s.week.week), startDay)
    [] OTHER -> WeekStartFor(fallback, startDay)

(***************************************************************************)
(* Weeks of a month: the first and the last may be cut by its ends.        *)
(***************************************************************************)

\* Mutation: the weeks are counted from the first of the month.
WeekRangesFromFirst(periodStart, periodEnd, startDay) ==
  Listed([n \in 1 .. (periodEnd - periodStart) \div 7 + 1 |->
            LET start == periodStart + 7 * (n - 1)
            IN  [start |-> start, end |-> Earlier(start + 6, periodEnd)]])

reportWeekRanges(periodStart, periodEnd, startDay) ==
  LET from[start \in Int] ==
        IF start > periodEnd THEN <<>>
        ELSE LET end == Earlier(WeekEndFor(start, startDay), periodEnd)
             IN  <<[start |-> start, end |-> end]>> \o from[end + 1]
  IN  from[periodStart]

\* The number of the first week of the month that the selected week meets.
selectedReportWeekLabels(monthStart, monthEnd, weekStart, weekEnd, startDay) ==
  LET weeks == reportWeekRanges(monthStart, monthEnd, startDay)
      meets == {n \in DOMAIN weeks : weekStart <= weeks[n].end /\ weeks[n].start <= weekEnd}
  IN  IF meets = {} THEN Len(weeks) ELSE CHOOSE n \in meets : \A m \in meets : n <= m

\* The label of a bar ends today; that of a week to come is empty.
reportChartRangeLabel(week) ==
  IF week.start > today THEN NULL ELSE [week EXCEPT !.end = Earlier(@, today)]

\* Mutation: exemptions are forgotten.
CountsOnceDue(o) == o.due <= today

occurrenceCountsTowardDue(o) == o.status # "exempt" /\ o.due <= today

IsCompleted(o) == o.status = "completed"

\* sets: a sequence of records of a user and that user's occurrences.  One bar
\* for each of them and week.
buildWeeklyReportBars(periodStart, periodEnd, startDay, sets) ==
  LET weeks  == reportWeekRanges(periodStart, periodEnd, startDay)
      Bar(set, n) ==
        LET due  == {o \in set.occs : /\ o.due \in weeks[n].start .. weeks[n].end
                                      /\ occurrenceCountsTowardDue(o)}
            done == Cardinality({o \in due : IsCompleted(o)})
        IN  [week      |-> n,
             label     |-> reportChartRangeLabel(weeks[n]),
             name      |-> Name[set.user],
             completed |-> done,
             total     |-> Cardinality(due),
             percent   |-> percent(done, Cardinality(due))]
  IN  FlattenSeq([k \in DOMAIN sets |-> Listed([n \in DOMAIN weeks |-> Bar(sets[k], n)])])

\* Mutation: the bars of the first user stand for all.
BarsOfFirst(bars, name) ==
  LET weeks == {bars[k].week : k \in DOMAIN bars}
  IN  Listed([n \in weeks |-> [bars[n] EXCEPT !.name = name]])

\* The bars of several users are added up, week by week.
aggregateReportBarsForDisplay(bars, name) ==
  LET weeks == {bars[k].week : k \in DOMAIN bars}
      Added(n) ==
        LET same  == {k \in DOMAIN bars : bars[k].week = n}
            done  == SumFunction([k \in same |-> bars[k].completed])
            total == SumFunction([k \in same |-> bars[k].total])
        IN  [week |-> n, label |-> bars[CHOOSE k \in same : TRUE].label, name |-> name,
             completed |-> done, total |-> total, percent |-> percent(done, total)]
  IN  Listed([n \in weeks |-> Added(n)])

\* The series of the chart are keyed by the name of the user.
reportChartJSON(bars) ==
  LET names == {bars[k].name : k \in DOMAIN bars}
      weeks == {bars[k].week : k \in DOMAIN bars}
      Point(name, n) ==
        LET same  == {k \in DOMAIN bars : bars[k].name = name /\ bars[k].week = n}
            done  == SumFunction([k \in same |-> bars[k].completed])
            total == SumFunction([k \in same |-> bars[k].total])
        IN  [completed |-> done, missed |-> total - done, total |-> total,
             percentage |-> percent(done, total)]
  IN  [name \in names |-> [n \in weeks |-> Point(name, n)]]

(***************************************************************************)
(* The matrix of a week.  Completed occurrences are counted as done even   *)
(* when they lie in the future, and so do not count as due.                *)
(***************************************************************************)
InWeekOf(set, weekStart, weekEnd) == {o \in set.occs : o.due \in weekStart .. weekEnd}

Occupied(sets, weekStart, weekEnd) ==
  UNION {{<<k, o>> : o \in InWeekOf(sets[k], weekStart, weekEnd)} : k \in DOMAIN sets}

MatrixDone(sets, weekStart, weekEnd) ==
  Cardinality({x \in Occupied(sets, weekStart, weekEnd) : IsCompleted(x[2])})

MatrixDue(sets, weekStart, weekEnd) ==
  Cardinality({x \in Occupied(sets, weekStart, weekEnd) : occurrenceCountsTowardDue(x[2])})

TaskBefore(i, j) ==
  \/ tasks[i].seq < tasks[j].seq
  \/ tasks[i].seq = tasks[j].seq /\ tasks[i].title < tasks[j].title
  \/ tasks[i].seq = tasks[j].seq /\ tasks[i].title = tasks[j].title /\ i < j

\* A row for each user and task, a cell for each date on which it is due.
buildReportMatrix(weekStart, weekEnd, sets) ==
  LET keys == {<<x[1], x[2].task>> : x \in Occupied(sets, weekStart, weekEnd)}
      Named(k) == Name[sets[k].user]
      RowBefore(a, b) ==
        \/ Named(a[1]) < Named(b[1])
        \/ /\ Named(a[1]) = Named(b[1])
           /\ TaskBefore(a[2], b[2]) \/ (a[2] = b[2] /\ a[1] < b[1])
      Row(key) ==
        LET occs == {o \in InWeekOf(sets[key[1]], weekStart, weekEnd) : o.task = key[2]}
        IN  [task  |-> key[2], user |-> sets[key[1]].user,
             cells |-> [d \in {o.due : o \in occs} |->
                          (CHOOSE o \in occs : o.due = d).status]]
      inOrder == InOrder(keys, RowBefore)
  IN  [rows |-> Listed([n \in DOMAIN inOrder |-> Row(inOrder[n])]),
       done |-> MatrixDone(sets, weekStart, weekEnd),
       due  |-> MatrixDue(sets, weekStart, weekEnd)]

\* What a cell shows for several users: the worst that happened.
aggregateStatus(counts) ==
  CASE counts.missed > 0 -> "missed"
    [] counts.missed = 0 /\ counts.pending > 0 -> "pending"
    [] counts.missed + counts.pending = 0 /\ counts.completed > 0 -> "completed"
    [] OTHER -> "exempt"

buildAggregatedReportMatrix(weekStart, weekEnd, sets) ==
  LET all     == Occupied(sets, weekStart, weekEnd)
      inOrder == InOrder({x[2].task : x \in all}, TaskBefore)
      Counts(i, d) ==
        [s \in Statuses |->
           Cardinality({x \in all : x[2].task = i /\ x[2].due = d /\ x[2].status = s})]
      Row(i) ==
        [task  |-> i,
         cells |-> [d \in {x[2].due : x \in {y \in all : y[2].task = i}} |->
                      [status |-> aggregateStatus(Counts(i, d)), counts |-> Counts(i, d)]]]
  IN  [rows |-> Listed([n \in DOMAIN inOrder |-> Row(inOrder[n])]),
       done |-> MatrixDone(sets, weekStart, weekEnd),
       due  |-> MatrixDue(sets, weekStart, weekEnd)]

\* The occurrences of each of the users.
SetsOf(users, from, to) ==
  Listed([k \in DOMAIN users |-> [user |-> users[k],
                                  occs |-> OccurrencesBetween(users[k], from, to)]])

(***************************************************************************)
(* buildReportData.                                                        *)
(***************************************************************************)
ReportWeek(s) == parseReportWeek(s, today, AppSettings.weekStart)

\* The bars of the month in which the week starts, and the matrix of the week.
Report(bars, matrix, userReports) ==
  [bars |-> bars, matrix |-> matrix, pct |-> percent(matrix.done, matrix.due),
   userReports |-> userReports]

OneReport(weekStart, sets) ==
  Report(buildWeeklyReportBars(MonthStart(weekStart), MonthEnd(weekStart),
                               AppSettings.weekStart, sets),
         buildReportMatrix(weekStart, weekStart + 6, sets), <<>>)

buildPerUserReportData(weekStart, sets) ==
  Listed([k \in DOMAIN sets |-> OneReport(weekStart, <<sets[k]>>)])

\* With more than one user, the sums of all and a report of each.
ReportOver(weekStart, sets) ==
  IF Len(sets) > 1
  THEN Report(aggregateReportBarsForDisplay(OneReport(weekStart, sets).bars, "Selected users"),
              buildAggregatedReportMatrix(weekStart, weekStart + 6, sets),
              buildPerUserReportData(weekStart, sets))
  ELSE OneReport(weekStart, sets)

\* What is said of the week beside its numbers.
ReportPage(weekStart, selected, report) ==
  [weekStart   |-> weekStart,
   weekValue   |-> reportWeekValue(weekStart),
   weekLabel   |-> selectedReportWeekLabels(MonthStart(weekStart), MonthEnd(weekStart),
                                            weekStart, weekStart + 6, AppSettings.weekStart),
   dateMin     |-> reportDateInputMin(AppSettings.weekStart),
   selected    |-> selected,
   bars        |-> report.bars,
   matrix      |-> report.matrix,
   pct         |-> report.pct,
   userReports |-> report.userReports]

ReportOn(weekStart, selected) ==
  ReportPage(weekStart, selected,
             ReportOver(weekStart, SetsOf(selected, MonthStart(weekStart),
                                          Later(MonthEnd(weekStart), weekStart + 6))))

\* current: who asks, for the users raw and the week s.
buildReportData(current, raw, s) ==
  ReportOn(ReportWeek(s), selectedReportUsersForCurrent(current, ListActiveRegular, raw))
=============================================================================
